---------------------------- MODULE MCLocalUsers ----------------------------
(***************************************************************************)
(* Instances of LocalUsers for TLC.                                        *)
(***************************************************************************)
EXTENDS LocalUsers

CONSTANTS u1, u2

\* LocalUserSpecs that between them take every branch of reconcileLocalUser.
Config(on, renew, life) == [on |-> on, renew |-> renew, life |-> life]
AllConfigs == {Config(TRUE, TRUE, "d1"), Config(TRUE, TRUE, "d2"),
               Config(TRUE, FALSE, "d1"), Config(FALSE, TRUE, "d1"),
               Config(TRUE, TRUE, "none"), Config(TRUE, TRUE, "zero"),
               Config(TRUE, TRUE, "bad")}
RenewConfigs == {Config(TRUE, TRUE, "d1"), Config(TRUE, TRUE, "d2"),
                 Config(FALSE, TRUE, "d1")}
LiveConfigs == RenewConfigs \cup {Config(TRUE, FALSE, "d1")}

AllExtra == {"none", "login", "apiKey"}
NoExtra  == {"none"}

\* Timers never run out: one per map entry and one per waiting callback.
ASSUME EnoughTimers == Cardinality(TimerIds) >= Cardinality(Users) + MaxWaiting

\* Token ids never run out: a user's Secret, registered token and armed timer
\* name at most three.
ASSUME EnoughTokenIds == Cardinality(TokenIds) > 3 * Cardinality(Users)
=============================================================================
