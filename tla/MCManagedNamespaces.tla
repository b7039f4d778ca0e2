------------------------ MODULE MCManagedNamespaces ------------------------
(***************************************************************************)
(* Instances of ManagedNamespaces for TLC.                                 *)
(***************************************************************************)
EXTENDS ManagedNamespaces, TLC

CONSTANTS argoA, argoB, app, argocd, other

\* Both CRs are called the same, as when both follow the documentation.
SameName == [i \in Instances |-> argocd]
TwoNames == [i \in Instances |-> IF i = argoA THEN argocd ELSE other]

\* Two instances that differ in nothing but their names may be swapped.
Swap == Permutations({argoA, argoB})

\* No custom cluster role, no cluster-scoped instance; and both.
Plain == {<<FALSE, {}>>}
PlainOrCluster == Plain \cup {<<TRUE, {argoA}>>}
=============================================================================
