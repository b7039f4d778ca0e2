------------------------------ MODULE MCExport ------------------------------
(***************************************************************************)
(* One ArgoCDExport resource, in every configuration.                      *)
(***************************************************************************)
EXTENDS Export

CONSTANTS s1, s2

MCSchedules == {None, s1, s2}
MCFirstSchedules == {None, s1}
=============================================================================
