----------------------------- MODULE FieldPaths -----------------------------
(***************************************************************************)
(* Field paths: a field of a nested Go struct is the sequence of the field *)
(* names that lead to it.                                                  *)
(***************************************************************************)
EXTENDS Sequences

(* The paths of fields that are not expanded further. *)
Leaves(names) == {<<n>> : n \in names}

(* The paths of a struct that is the value of the field called name. *)
Under(name, paths) == {<<name>> \o p : p \in paths}
=============================================================================
