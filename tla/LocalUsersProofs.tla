-------------------------- MODULE LocalUsersProofs --------------------------
(***************************************************************************)
(* Proofs about LocalUsers, for every set of users, tokens and timers and  *)
(* whatever the bounds.                                                    *)
(***************************************************************************)
EXTENDS LocalUsers, TLAPS

\* The locals of the running reconcileLocalUsers fit the phase it is in.
CallOK ==
  /\ call.phase \in {"register", "unregister", "delete"} => call.cur \in Users
  /\ call.phase = "register" => call.id \in TokenIds
  /\ ~call.sweep => \A u \in call.todo : call.users[u] # None

TypeInv == TypeOK /\ CallOK

-----------------------------------------------------------------------------
(* The helpers on timers keep the types.                                   *)

\* FreeTimer is a timer, NoCall a state of the locals.
LEMMA FreeTimerType == FreeTimer \in TokenRenewalTimer
BY DEF FreeTimer, TokenRenewalTimer

\* Stopping a timer leaves timers.
LEMMA StoppedTimersType ==
  ASSUME TypeOK, NEW u \in Users
  PROVE  StoppedTimers(u) \in [TimerIds -> TokenRenewalTimer]
<1>1. CASE entry[u] = None
  BY <1>1 DEF TypeOK, StoppedTimers
<1>2. CASE entry[u] # None
  <2>1. entry[u] \in TimerIds /\ timers[entry[u]] \in TokenRenewalTimer
    BY <1>2 DEF TypeOK
  <2>2. [timers[entry[u]] EXCEPT !.stopped = TRUE] \in TokenRenewalTimer
    BY <2>1 DEF TokenRenewalTimer
  <2> QED
    BY <1>2, <2>1, <2>2, FreeTimerType DEF TypeOK, StoppedTimers
<1> QED BY <1>1, <1>2

\* stopLocalUserTimer keeps the types of the timers and of the map.
LEMMA StopType ==
  ASSUME TypeOK, NEW u \in Users, stopLocalUserTimer(u)
  PROVE  /\ timers' \in [TimerIds -> TokenRenewalTimer]
         /\ entry' \in [Users -> TimerIds \cup {None}]
BY StoppedTimersType DEF TypeOK, stopLocalUserTimer

\* So does stopping it only for a reason.
LEMMA StopIfType ==
  ASSUME TypeOK, NEW u \in Users, NEW b \in BOOLEAN, StopTimerIf(b, u)
  PROVE  /\ timers' \in [TimerIds -> TokenRenewalTimer]
         /\ entry' \in [Users -> TimerIds \cup {None}]
BY StopType DEF TypeOK, StopTimerIf

\* startOrRestartLocalUserTimer keeps the types of the timers and of the map.
LEMMA StartType ==
  ASSUME TypeOK, NEW u \in Users, NEW id \in TokenIds,
         startOrRestartLocalUserTimer(u, id)
  PROVE  /\ timers' \in [TimerIds -> TokenRenewalTimer]
         /\ entry' \in [Users -> TimerIds \cup {None}]
<1> DEFINE free == {t \in TimerIds : StoppedTimers(u)[t] = FreeTimer}
           new == CHOOSE f \in free : TRUE
           timer == [user |-> u, id |-> id, st |-> "armed", stopped |-> FALSE]
<1>1. new \in TimerIds
  BY DEF startOrRestartLocalUserTimer
<1>2. timer \in TokenRenewalTimer
  BY DEF TokenRenewalTimer
<1>3. timers' = [StoppedTimers(u) EXCEPT ![new] = timer] /\ entry' = [entry EXCEPT ![u] = new]
  BY DEF startOrRestartLocalUserTimer
<1> QED BY <1>1, <1>2, <1>3, StoppedTimersType DEF TypeOK

-----------------------------------------------------------------------------
(* Type correctness.                                                       *)

\* The type of call, the locals of reconcileLocalUsers.
Locals == [phase : {"idle", "users", "register", "unregister", "delete"},
           todo : SUBSET Users, cur : Users \cup {None},
           id : TokenIds \cup {None}, sweep : BOOLEAN,
           users : [Users -> LocalUserSpec \cup {None}],
           extra : [Users -> {"none", "login", "apiKey"}]]

\* Whatever a call returns with, the locals are gone and the lock is free.
LEMMA ReturnType ==
  ASSUME TypeInv, NEW g, NEW failed \in BOOLEAN, Return(g, failed)
  PROVE  /\ holder' \in {"free", "main", "renewal"}
         /\ call' \in Locals
         /\ main' \in {"idle", "cleanupTimers", "finalize", "localUsers", "running"}
         /\ queued' \in BOOLEAN
         /\ CallOK'
<1>1. call' = NoCall /\ NoCall \in Locals
  BY DEF Return, NoCall, Locals
<1>2. CallOK'
  BY <1>1 DEF NoCall, CallOK
<1> QED BY <1>1, <1>2 DEF Return, TypeInv, TypeOK

\* A step that ends the call keeps the types if what it does to the Secrets and
\* to the timers does.
LEMMA ReturnTypeInv ==
  ASSUME TypeInv, NEW g, NEW failed \in BOOLEAN, Return(g, failed),
         UNCHANGED bounds \/ Faulty,
         UNCHANGED <<crState, spec, extra, argocdSecret, renewals>>,
         secret' \in [Users -> LocalUserSecret \cup {None}],
         registered' \in [Users -> TokenIds \cup {None}],
         left' \subseteq Users, expired' \subseteq TokenIds,
         timers' \in [TimerIds -> TokenRenewalTimer],
         entry' \in [Users -> TimerIds \cup {None}]
  PROVE  TypeInv'
<1>1. edits' \in Nat /\ deletes' \in Nat /\ faults' \in Nat
  BY DEF bounds, Faulty, TypeInv, TypeOK
<1>2. /\ holder' \in {"free", "main", "renewal"}
      /\ call' \in Locals
      /\ main' \in {"idle", "cleanupTimers", "finalize", "localUsers", "running"}
      /\ queued' \in BOOLEAN
      /\ CallOK'
  BY ReturnType
<1>3. /\ crState' \in {"present", "terminating", "absent"}
      /\ spec' \in [Users -> LocalUserSpec \cup {None}]
      /\ extra' \in [Users -> {"none", "login", "apiKey"}]
      /\ argocdSecret' \in BOOLEAN /\ renewals' \in Nat
  BY DEF TypeInv, TypeOK
<1> QED BY <1>1, <1>2, <1>3 DEF TypeInv, TypeOK, Locals

\* On to the next user: the locals keep their type.
LEMMA NextUserType ==
  ASSUME TypeInv, call' = NextUser
  PROVE  call' \in Locals /\ CallOK'
<1>1. call \in Locals
  BY DEF TypeInv, TypeOK, Locals
<1>2. call' \in Locals
  BY <1>1 DEF NextUser, Locals
<1>3. /\ call'.phase = "users" /\ call'.sweep = call.sweep
      /\ call'.todo \subseteq call.todo /\ call'.users = call.users
  BY <1>1 DEF NextUser, Locals
<1> QED BY <1>2, <1>3 DEF TypeInv, CallOK

\* Init establishes the types.
LEMMA InitType == Init => TypeInv
<1> SUFFICES ASSUME Init PROVE TypeInv
  OBVIOUS
<1>1. call \in Locals /\ CallOK
  BY DEF Init, NoCall, Locals, CallOK
<1>2. spec \in [Users -> LocalUserSpec \cup {None}] /\ extra \in [Users -> {"none", "login", "apiKey"}]
  BY ConstantsAssumption DEF Init
<1>3. timers \in [TimerIds -> TokenRenewalTimer]
  BY FreeTimerType DEF Init
<1> QED BY <1>1, <1>2, <1>3 DEF Init, TypeInv, TypeOK, Locals

\* A timer changing its state keeps its type.
LEMMA TimerStepType ==
  ASSUME TypeOK, NEW t \in TimerIds
  PROVE  /\ TimerFires(t) => timers' \in [TimerIds -> TokenRenewalTimer]
         /\ TimerCallback(t) => timers' \in [TimerIds -> TokenRenewalTimer]
<1>1. timers[t] \in TokenRenewalTimer
  BY DEF TypeOK
<1>2. /\ [timers[t] EXCEPT !.st = "waiting", !.id = None] \in TokenRenewalTimer
      /\ [timers[t] EXCEPT !.st = "done"] \in TokenRenewalTimer
  BY <1>1 DEF TokenRenewalTimer
<1>3. TimerFires(t) => timers' \in [TimerIds -> TokenRenewalTimer]
  BY <1>2 DEF TypeOK, TimerFires
<1>4. TimerCallback(t) => timers' \in [TimerIds -> TokenRenewalTimer]
  BY <1>2, FreeTimerType DEF TypeOK, TimerCallback
<1> QED BY <1>3, <1>4

\* reconcileLocalUser keeps the types, whichever of its branches is taken.
LEMMA ReconcileLocalUserType ==
  ASSUME TypeInv, NEW u \in Users, ReconcileLocalUser(u)
  PROVE  TypeInv'
<1> DEFINE c == call.users[u]
<1>c. c \in LocalUserSpec /\ u \in call.todo /\ ~call.sweep /\ call \in Locals
  BY DEF TypeInv, TypeOK, CallOK, ReconcileLocalUser, Locals
<1>r. ReasonToStopTimer(c) \in BOOLEAN
  BY DEF ReasonToStopTimer
<1>ph. call.phase = "users"
  BY DEF ReconcileLocalUser
<1>1. CASE /\ StopTimerIf(ReasonToStopTimer(c), u)
           /\ Return(holder, TRUE)
           /\ UNCHANGED <<cluster, expired, renewals>>
           /\ UNCHANGED bounds \/ Faulty
  <2>1. /\ timers' \in [TimerIds -> TokenRenewalTimer]
        /\ entry' \in [Users -> TimerIds \cup {None}]
    BY <1>1, <1>r, StopIfType DEF TypeInv
  <2>2. /\ secret' \in [Users -> LocalUserSecret \cup {None}]
        /\ registered' \in [Users -> TokenIds \cup {None}]
        /\ left' \subseteq Users /\ expired' \subseteq TokenIds
        /\ UNCHANGED <<crState, spec, extra, argocdSecret, renewals>>
    BY <1>1 DEF TypeInv, TypeOK, cluster
  <2> QED BY <1>1, <2>1, <2>2, ReturnTypeInv
<1>2. CASE /\ stopLocalUserTimer(u)
           /\ call' = [call EXCEPT !.phase = "unregister", !.cur = u]
           /\ UNCHANGED <<cluster, expired, holder, main, queued, renewals, bounds>>
  <2>1. call' \in Locals /\ CallOK'
    BY <1>2, <1>c DEF Locals, CallOK, TypeInv
  <2> QED
    BY <1>2, <2>1, StopType DEF TypeInv, TypeOK, cluster, bounds, Locals
<1>3. CASE StopTimerIf(ReasonToStopTimer(c), u) /\ IssueTokenSecret(u, c)
  <2> DEFINE id == CHOOSE i \in TokenIds \ UsedIds : TRUE
             new == [id |-> id, renew |-> c.renew, life |-> NormalLifetime(c.life)]
  <2>1. id \in TokenIds
    BY <1>3 DEF IssueTokenSecret
  <2>2. new \in LocalUserSecret
    BY <2>1, <1>c DEF LocalUserSecret, LocalUserSpec, NormalLifetime, Finite
  <2>3. /\ secret' = [secret EXCEPT ![u] = new]
        /\ expired' = expired \cap UsedIds /\ left' = left \ {u}
        /\ UNCHANGED <<crState, spec, extra, argocdSecret, registered, renewals>>
    BY <1>3 DEF IssueTokenSecret
  <2>4. secret' \in [Users -> LocalUserSecret \cup {None}]
    BY <2>2, <2>3 DEF TypeInv, TypeOK
  <2>5. /\ timers' \in [TimerIds -> TokenRenewalTimer]
        /\ entry' \in [Users -> TimerIds \cup {None}]
    BY <1>3, <1>r, StopIfType DEF TypeInv
  <2>6. /\ registered' \in [Users -> TokenIds \cup {None}]
        /\ left' \subseteq Users /\ expired' \subseteq TokenIds
    BY <2>3 DEF TypeInv, TypeOK
  <2>7. CASE /\ call' = [call EXCEPT !.phase = "register", !.cur = u, !.id = id]
             /\ queued' = TRUE
             /\ UNCHANGED <<holder, main, bounds>>
    <3>1. call' \in Locals /\ CallOK'
      BY <2>7, <2>1, <1>c DEF Locals, CallOK, TypeInv
    <3> QED
      BY <2>3, <2>4, <2>7, <2>5, <2>6, <3>1 DEF TypeInv, TypeOK, bounds, Locals
  <2>8. CASE Faulty /\ Return(holder, TRUE)
    BY <2>3, <2>4, <2>8, <2>5, <2>6, ReturnTypeInv
  <2> QED BY <1>3, <2>7, <2>8 DEF IssueTokenSecret
<1>4. CASE secret[u] # None /\ KeepToken(u, c)
  <2>1. [secret[u] EXCEPT !.renew = c.renew] \in LocalUserSecret
    BY <1>4, <1>c DEF TypeInv, TypeOK, LocalUserSecret, LocalUserSpec
  <2>2. secret' \in [Users -> LocalUserSecret \cup {None}] /\ secret[u].id \in TokenIds
    BY <1>4, <2>1 DEF KeepToken, TypeInv, TypeOK, LocalUserSecret
  <2>3. CASE /\ queued' = (queued \/ secret' # secret)
             /\ IF c.renew /\ Finite(c.life) /\ entry[u] = None
                THEN startOrRestartLocalUserTimer(u, secret[u].id)
                ELSE StopTimerIf(ReasonToStopTimer(c), u)
             /\ call' = [call EXCEPT !.todo = @ \ {u}]
             /\ UNCHANGED <<holder, main, bounds>>
    <3>1. call' \in Locals /\ CallOK'
      BY <2>3, <1>c DEF Locals, CallOK, TypeInv
    <3>2. /\ timers' \in [TimerIds -> TokenRenewalTimer]
          /\ entry' \in [Users -> TimerIds \cup {None}]
      BY <2>2, <2>3, <1>r, StartType, StopIfType DEF TypeInv
    <3>3. queued' \in BOOLEAN
      BY <2>3
    <3> QED
      BY <1>4, <2>2, <2>3, <3>1, <3>2, <3>3 DEF KeepToken, TypeInv, TypeOK, bounds, Locals
  <2>4. CASE Faulty /\ Return(holder, TRUE) /\ StopTimerIf(ReasonToStopTimer(c), u)
    <3>1. /\ timers' \in [TimerIds -> TokenRenewalTimer]
          /\ entry' \in [Users -> TimerIds \cup {None}]
      BY <2>4, <1>r, StopIfType DEF TypeInv
    <3>2. /\ registered' \in [Users -> TokenIds \cup {None}]
          /\ left' \subseteq Users /\ expired' \subseteq TokenIds
          /\ UNCHANGED <<crState, spec, extra, argocdSecret, renewals>>
      BY <1>4 DEF KeepToken, TypeInv, TypeOK
    <3> QED BY <2>2, <2>4, <3>1, <3>2, ReturnTypeInv
  <2> QED BY <1>4, <2>3, <2>4 DEF KeepToken
<1> QED
  BY <1>1, <1>2, <1>3, <1>4 DEF ReconcileLocalUser, DeleteAndCreateNewToken

\* Every step keeps the types.
LEMMA NextType == TypeInv /\ [Next]_vars => TypeInv'
<1> SUFFICES ASSUME TypeInv, [Next]_vars PROVE TypeInv'
  OBVIOUS
<1> USE DEF TypeInv
<1>1. ASSUME NEW t \in TimerIds, TimerFires(t) PROVE TypeInv'
  <2>1. timers' \in [TimerIds -> TokenRenewalTimer]
    BY <1>1, TimerStepType
  <2>2. UNCHANGED <<crState, spec, extra, secret, argocdSecret, registered, left,
                    expired, entry, holder, call, main, queued, renewals, edits,
                    deletes, faults>>
    BY <1>1 DEF TimerFires, cluster, bounds
  <2> QED BY <2>1, <2>2 DEF TypeOK, CallOK
<1>2. ASSUME NEW t \in TimerIds, TimerCallback(t) PROVE TypeInv'
  <2>1. renewals' \in Nat
    BY <1>2 DEF TimerCallback, TypeOK
  <2> QED
    BY <1>2, <2>1, TimerStepType DEF TypeOK, CallOK, TimerCallback, cluster, bounds
<1>3. ASSUME NEW g \in {"main", "renewal"}, ReconcileLocalUsersBegin(g) PROVE TypeInv'
  <2> USE <1>3 DEF ReconcileLocalUsersBegin
  <2>1. renewals' \in Nat
    BY DEF TypeOK
  <2>2. CASE Return(g, FALSE) /\ UNCHANGED bounds
    BY <2>1, <2>2, ReturnType DEF TypeOK, Locals, cluster, bounds
  <2>3. CASE /\ holder' = g
             /\ main' = IF g = "main" THEN "running" ELSE main
             /\ call' = [phase |-> "users", cur |-> None, id |-> None,
                         sweep |-> FALSE, users |-> spec, extra |-> extra,
                         todo |-> {u \in Users : spec[u] # None /\ extra[u] = "none"}]
             /\ UNCHANGED <<queued, bounds>>
    <3>1. call' \in Locals /\ CallOK'
      BY <2>3 DEF Locals, CallOK, TypeOK
    <3> QED BY <2>1, <2>3, <3>1 DEF TypeOK, Locals, cluster, bounds
  <2>4. CASE Faulty /\ Return(g, TRUE)
    <3>1. /\ holder' \in {"free", "main", "renewal"}
          /\ call' \in Locals
          /\ main' \in {"idle", "cleanupTimers", "finalize", "localUsers", "running"}
          /\ queued' \in BOOLEAN
          /\ CallOK'
      BY <2>4, ReturnType
    <3>2. edits' \in Nat /\ deletes' \in Nat /\ faults' \in Nat
      BY <2>4 DEF Faulty, TypeOK
    <3> QED BY <2>1, <3>1, <3>2 DEF TypeOK, Locals, cluster
  <2> QED BY <2>2, <2>3, <2>4
<1>4. ASSUME NEW u \in Users, ReconcileLocalUser(u) PROVE TypeInv'
  BY <1>4, ReconcileLocalUserType
<1>5. CASE IssueTokenRegister
  <2> DEFINE u == call.cur
             c == call.users[u]
             new == [registered EXCEPT ![u] = call.id]
  <2>1. u \in Users /\ call.id \in TokenIds
    BY <1>5 DEF IssueTokenRegister, CallOK
  <2>2. new \in [Users -> TokenIds \cup {None}]
    BY <2>1 DEF TypeOK
  <2>3. CASE /\ registered' = new
             /\ IF c.renew /\ Finite(c.life)
                THEN startOrRestartLocalUserTimer(u, call.id)
                ELSE UNCHANGED <<timers, entry>>
             /\ call' = NextUser
             /\ queued' = TRUE
             /\ UNCHANGED <<holder, main, bounds>>
    <3>1. /\ timers' \in [TimerIds -> TokenRenewalTimer]
          /\ entry' \in [Users -> TimerIds \cup {None}]
      BY <2>1, <2>3, StartType DEF TypeOK
    <3>2. call' \in Locals /\ CallOK'
      BY <2>3, NextUserType
    <3> QED
      BY <1>5, <2>2, <2>3, <3>1, <3>2 DEF IssueTokenRegister, TypeOK, Locals, bounds
  <2>4. CASE /\ Return(holder, TRUE) /\ registered' \in {registered, new}
             /\ UNCHANGED <<timers, entry>> /\ (UNCHANGED bounds \/ Faulty)
    <3>1. /\ timers' \in [TimerIds -> TokenRenewalTimer]
          /\ entry' \in [Users -> TimerIds \cup {None}]
          /\ registered' \in [Users -> TokenIds \cup {None}]
      BY <2>2, <2>4 DEF TypeOK
    <3>2. /\ secret' \in [Users -> LocalUserSecret \cup {None}]
          /\ left' \subseteq Users /\ expired' \subseteq TokenIds
          /\ UNCHANGED <<crState, spec, extra, argocdSecret, renewals>>
      BY <1>5 DEF IssueTokenRegister, TypeOK
    <3> QED BY <2>4, <3>1, <3>2, ReturnTypeInv
  <2> QED BY <1>5, <2>3, <2>4 DEF IssueTokenRegister
<1>6. CASE CleanupLocalUserToken
  <2> DEFINE u == call.cur
             gone == IF call.extra[u] = "apiKey" THEN registered
                     ELSE [registered EXCEPT ![u] = None]
  <2>1. u \in Users /\ gone \in [Users -> TokenIds \cup {None}]
    BY <1>6 DEF CleanupLocalUserToken, CallOK, TypeOK
  <2>0. /\ secret' \in [Users -> LocalUserSecret \cup {None}]
        /\ left' \subseteq Users /\ expired' \subseteq TokenIds
        /\ timers' \in [TimerIds -> TokenRenewalTimer]
        /\ entry' \in [Users -> TimerIds \cup {None}]
        /\ UNCHANGED <<crState, spec, extra, argocdSecret, renewals>>
    BY <1>6 DEF CleanupLocalUserToken, TypeOK
  <2>2. CASE /\ registered' = gone
             /\ call' = IF secret[u] = None THEN NextUser
                        ELSE [call EXCEPT !.phase = "delete"]
             /\ queued' = (queued \/ registered' # registered)
             /\ UNCHANGED <<holder, main, bounds>>
    <3>1. call \in Locals
      BY DEF TypeOK, Locals
    <3>2. call' \in Locals /\ CallOK'
      <4>1. CASE secret[u] = None
        BY <2>2, <4>1, NextUserType
      <4>2. CASE secret[u] # None
        BY <2>1, <2>2, <3>1, <4>2 DEF Locals, CallOK
      <4> QED BY <4>1, <4>2
    <3>3. queued' \in BOOLEAN
      BY <2>2
    <3> QED BY <2>0, <2>1, <2>2, <3>2, <3>3 DEF TypeOK, Locals, bounds
  <2>3. CASE /\ Return(holder, TRUE) /\ registered' \in {registered, gone}
             /\ UNCHANGED bounds \/ Faulty
    <3>1. registered' \in [Users -> TokenIds \cup {None}]
      BY <2>1, <2>3 DEF TypeOK
    <3> QED BY <2>0, <2>3, <3>1, ReturnTypeInv
  <2> QED BY <1>6, <2>2, <2>3 DEF CleanupLocalUserToken
<1>7. CASE CleanupLocalUserSecret
  <2> DEFINE u == call.cur
  <2>1. u \in Users
    BY <1>7 DEF CleanupLocalUserSecret, CallOK
  <2>2. /\ secret' \in [Users -> LocalUserSecret \cup {None}]
        /\ left' \subseteq Users
        /\ expired' \subseteq TokenIds
        /\ registered' \in [Users -> TokenIds \cup {None}]
        /\ timers' \in [TimerIds -> TokenRenewalTimer]
        /\ entry' \in [Users -> TimerIds \cup {None}]
        /\ UNCHANGED <<crState, spec, extra, argocdSecret, renewals>>
    BY <1>7, <2>1 DEF CleanupLocalUserSecret, TypeOK
  <2>3. CASE call' = NextUser /\ queued' = TRUE /\ UNCHANGED <<holder, main, bounds>>
    <3>1. call' \in Locals /\ CallOK'
      BY <2>3, NextUserType
    <3> QED BY <2>2, <2>3, <3>1 DEF TypeOK, Locals, bounds
  <2>4. CASE Faulty /\ Return(holder, TRUE)
    BY <2>2, <2>4, ReturnTypeInv
  <2> QED BY <1>7, <2>3, <2>4 DEF CleanupLocalUserSecret
<1>8. CASE CleanupLocalUsersList
  <2>1. CASE /\ call' = [call EXCEPT !.sweep = TRUE,
                  !.todo = {u \in Users : secret[u] # None /\ call.users[u] = None}]
             /\ UNCHANGED <<holder, main, queued, bounds>>
    <3>1. call' \in Locals /\ CallOK'
      BY <1>8, <2>1 DEF CleanupLocalUsersList, TypeOK, Locals, CallOK
    <3> QED
      BY <1>8, <2>1, <3>1 DEF CleanupLocalUsersList, TypeOK, Locals, cluster, bounds
  <2>2. CASE Faulty /\ Return(holder, TRUE)
    <3>1. /\ secret' \in [Users -> LocalUserSecret \cup {None}]
          /\ registered' \in [Users -> TokenIds \cup {None}]
          /\ left' \subseteq Users /\ expired' \subseteq TokenIds
          /\ timers' \in [TimerIds -> TokenRenewalTimer]
          /\ entry' \in [Users -> TimerIds \cup {None}]
          /\ UNCHANGED <<crState, spec, extra, argocdSecret, renewals>>
      BY <1>8 DEF CleanupLocalUsersList, TypeOK, cluster
    <3> QED BY <2>2, <3>1, ReturnTypeInv
  <2> QED BY <1>8, <2>1, <2>2 DEF CleanupLocalUsersList
<1>9. ASSUME NEW u \in Users, CleanupLocalUsersNext(u) PROVE TypeInv'
  <2>1. call' \in Locals /\ CallOK'
    BY <1>9 DEF CleanupLocalUsersNext, TypeOK, Locals, CallOK
  <2> QED
    BY <1>9, <2>1, StopType DEF CleanupLocalUsersNext, TypeOK, Locals, cluster, bounds
<1>10. CASE ReconcileLocalUsersEnd
  BY <1>10, ReturnType DEF ReconcileLocalUsersEnd, TypeOK, Locals, cluster, bounds
<1>11. CASE Reconcile
  <2>1. argocdSecret' \in BOOLEAN /\ queued' \in BOOLEAN
    BY <1>11 DEF Reconcile, TypeOK
  <2>2. main' \in {"idle", "cleanupTimers", "finalize", "localUsers", "running"}
    BY <1>11 DEF Reconcile, TypeOK
  <2>3. edits' \in Nat /\ deletes' \in Nat /\ faults' \in Nat
    <3>1. UNCHANGED bounds \/ Faulty
      BY <1>11 DEF Reconcile
    <3> QED BY <3>1 DEF bounds, Faulty, TypeOK
  <2>4. UNCHANGED <<crState, spec, extra, secret, registered, left, expired, timers,
                    entry, holder, call, renewals>>
    BY <1>11 DEF Reconcile
  <2> QED BY <2>1, <2>2, <2>3, <2>4 DEF TypeOK, CallOK
<1>12. CASE CleanupNamespaceTokenTimers
  <2>1. ASSUME NEW t \in TimerIds PROVE timers'[t] \in TokenRenewalTimer
    <3>1. timers[t] \in TokenRenewalTimer
      BY DEF TypeOK
    <3>2. [timers[t] EXCEPT !.stopped = TRUE] \in TokenRenewalTimer
      BY <3>1 DEF TokenRenewalTimer
    <3> QED BY <1>12, <3>1, <3>2, FreeTimerType DEF CleanupNamespaceTokenTimers
  <2>2. timers' \in [TimerIds -> TokenRenewalTimer]
    BY <1>12, <2>1 DEF CleanupNamespaceTokenTimers
  <2> QED
    BY <1>12, <2>2 DEF CleanupNamespaceTokenTimers, TypeOK, CallOK, cluster, bounds
<1>13. CASE RemoveDeletionFinalizer
  <2>1. argocdSecret' \in BOOLEAN /\ queued' \in BOOLEAN
    BY <1>13 DEF RemoveDeletionFinalizer, TypeOK
  <2>2. /\ crState' \in {"present", "terminating", "absent"}
        /\ secret' \in [Users -> LocalUserSecret \cup {None}]
        /\ registered' \in [Users -> TokenIds \cup {None}]
        /\ left' \subseteq Users
    BY <1>13 DEF RemoveDeletionFinalizer, TypeOK, CallOK
  <2>3. edits' \in Nat /\ deletes' \in Nat /\ faults' \in Nat
    BY <1>13 DEF RemoveDeletionFinalizer, Faulty, bounds, TypeOK
  <2>4. main' = "idle" /\ UNCHANGED <<spec, extra, expired, timers, entry, holder,
                                      call, renewals>>
    BY <1>13 DEF RemoveDeletionFinalizer
  <2> QED BY <2>1, <2>2, <2>3, <2>4 DEF TypeOK, CallOK
<1>14. ASSUME NEW u \in Users, EditCR(u) PROVE TypeInv'
  BY <1>14, ConstantsAssumption DEF EditCR, Edited, TypeOK, CallOK
<1>15. CASE DeleteCR \/ CreateCR
  <2>1. crState' \in {"present", "terminating", "absent"} /\ edits' \in Nat
    BY <1>15 DEF DeleteCR, CreateCR, Edited, TypeOK
  <2>2. /\ queued' = TRUE
        /\ UNCHANGED <<spec, extra, secret, argocdSecret, registered, left, expired,
                       timers, entry, holder, call, main, renewals, deletes, faults>>
    BY <1>15 DEF DeleteCR, CreateCR, Edited
  <2> QED BY <2>1, <2>2 DEF TypeOK, CallOK
<1>16. ASSUME NEW u \in Users, ExternalDelete(u) PROVE TypeInv'
  BY <1>16 DEF ExternalDelete, TypeOK, CallOK
<1>17. CASE ExternalDeleteArgoCDSecret
  <2>1. registered' \in [Users -> TokenIds \cup {None}] /\ deletes' \in Nat
    BY <1>17 DEF ExternalDeleteArgoCDSecret, TypeOK
  <2>2. /\ argocdSecret' = FALSE /\ queued' = TRUE
        /\ UNCHANGED <<crState, spec, extra, secret, left, expired, timers, entry,
                       holder, call, main, renewals, edits, faults>>
    BY <1>17 DEF ExternalDeleteArgoCDSecret
  <2> QED BY <2>1, <2>2 DEF TypeOK, CallOK
<1>18. ASSUME NEW id \in TokenIds, Expire(id) PROVE TypeInv'
  BY <1>18 DEF Expire, TypeOK, CallOK, cluster, memory, bounds
<1>19. CASE Resync
  BY <1>19 DEF Resync, TypeOK, CallOK, cluster, bounds
<1>20. CASE Crash
  <2>1. call' \in Locals /\ CallOK'
    BY <1>20 DEF Crash, NoCall, Locals, CallOK
  <2> QED
    BY <1>20, <2>1, FreeTimerType DEF Crash, Faulty, TypeOK, Locals, cluster
<1>21. CASE UNCHANGED vars
  BY <1>21 DEF vars, cluster, memory, bounds, TypeOK, CallOK
<1> QED
  BY <1>1, <1>2, <1>3, <1>4, <1>5, <1>6, <1>7, <1>8, <1>9, <1>10, <1>11, <1>12,
     <1>13, <1>14, <1>15, <1>16, <1>17, <1>18, <1>19, <1>20, <1>21
     DEF Next, LockedStep, Environment

\* The state of LocalUsers, and the locals of its calls, always have their type.
THEOREM TypeCorrect == Spec => []TypeOK
<1>1. Spec => []TypeInv
  BY InitType, NextType, PTL DEF Spec
<1>2. TypeInv => TypeOK
  BY DEF TypeInv
<1> QED BY <1>1, <1>2, PTL

-----------------------------------------------------------------------------
(* No renewal timer is lost track of.                                      *)

\* Stopping u's timer leaves none of u's that may still act.
LEMMA StoppedTimersTracked ==
  ASSUME TypeOK, NoLeakedTimer, NEW u \in Users, NEW t \in TimerIds,
         StoppedTimers(u)[t].st \in {"armed", "waiting"},
         ~StoppedTimers(u)[t].stopped
  PROVE  /\ StoppedTimers(u)[t].user \in Users \ {u}
         /\ entry[StoppedTimers(u)[t].user] = t
<1>1. CASE entry[u] = t
  <2>1. timers[t] \in TokenRenewalTimer /\ t # None
    BY ConstantsAssumption DEF TypeOK
  <2>2. StoppedTimers(u)[t] = IF timers[t].st = "waiting"
                              THEN [timers[t] EXCEPT !.stopped = TRUE]
                              ELSE FreeTimer
    BY <1>1, <2>1 DEF StoppedTimers, TypeOK
  <2>3. StoppedTimers(u)[t].stopped \/ StoppedTimers(u)[t].st = "free"
    BY <2>1, <2>2 DEF FreeTimer, TokenRenewalTimer
  <2> QED BY <2>3
<1>2. CASE entry[u] # t
  <2>1. StoppedTimers(u)[t] = timers[t]
    BY <1>2 DEF StoppedTimers, TypeOK
  <2> QED BY <1>2, <2>1 DEF NoLeakedTimer
<1> QED BY <1>1, <1>2

\* stopLocalUserTimer leaves no live timer behind.
LEMMA StopTracked ==
  ASSUME TypeOK, NoLeakedTimer, NEW u \in Users, stopLocalUserTimer(u)
  PROVE  NoLeakedTimer'
<1> SUFFICES ASSUME NEW t \in TimerIds,
                    timers'[t].st \in {"armed", "waiting"}, ~timers'[t].stopped
             PROVE  timers'[t].user \in Users /\ entry'[timers'[t].user] = t
  BY DEF NoLeakedTimer
<1>1. timers' = StoppedTimers(u) /\ entry' = [entry EXCEPT ![u] = None]
  BY DEF stopLocalUserTimer
<1>2. timers'[t].user \in Users \ {u} /\ entry[timers'[t].user] = t
  BY <1>1, StoppedTimersTracked
<1> QED BY <1>1, <1>2 DEF TypeOK

\* Nor does startOrRestartLocalUserTimer.
LEMMA StartTracked ==
  ASSUME TypeOK, NoLeakedTimer, NEW u \in Users, NEW id \in TokenIds,
         startOrRestartLocalUserTimer(u, id)
  PROVE  NoLeakedTimer'
<1> DEFINE free == {t \in TimerIds : StoppedTimers(u)[t] = FreeTimer}
           new == CHOOSE f \in free : TRUE
           timer == [user |-> u, id |-> id, st |-> "armed", stopped |-> FALSE]
<1>1. new \in TimerIds
  BY DEF startOrRestartLocalUserTimer
<1>2. /\ timers' = [StoppedTimers(u) EXCEPT ![new] = timer]
      /\ entry' = [entry EXCEPT ![u] = new]
  BY DEF startOrRestartLocalUserTimer
<1> HIDE DEF new
<1> SUFFICES ASSUME NEW t \in TimerIds,
                    timers'[t].st \in {"armed", "waiting"}, ~timers'[t].stopped
             PROVE  timers'[t].user \in Users /\ entry'[timers'[t].user] = t
  BY DEF NoLeakedTimer
<1>3. CASE t = new
  <2>1. timers'[t] = timer
    BY <1>1, <1>2, <1>3, StoppedTimersType
  <2> QED BY <1>2, <1>3, <2>1 DEF TypeOK
<1>4. CASE t # new
  <2>1. timers'[t] = StoppedTimers(u)[t]
    BY <1>1, <1>2, <1>4, StoppedTimersType
  <2>2. timers'[t].user \in Users \ {u} /\ entry[timers'[t].user] = t
    BY <2>1, StoppedTimersTracked
  <2> QED BY <1>2, <2>2 DEF TypeOK
<1> QED BY <1>3, <1>4

\* Every step keeps track of the live timers.
LEMMA NextTracked == TypeInv /\ NoLeakedTimer /\ [Next]_vars => NoLeakedTimer'
<1> SUFFICES ASSUME TypeInv, NoLeakedTimer, [Next]_vars PROVE NoLeakedTimer'
  OBVIOUS
<1>0. TypeOK
  BY DEF TypeInv
<1>u. ASSUME UNCHANGED <<timers, entry>> PROVE NoLeakedTimer'
  BY <1>u DEF NoLeakedTimer
<1>1. ASSUME NEW t \in TimerIds, TimerFires(t) \/ TimerCallback(t)
      PROVE  NoLeakedTimer'
  <2>1. timers[t] \in TokenRenewalTimer /\ entry' = entry
    BY <1>0, <1>1 DEF TypeOK, TimerFires, TimerCallback
  <2>2. \A w \in TimerIds \ {t} : timers'[w] = timers[w]
    BY <1>0, <1>1 DEF TypeOK, TimerFires, TimerCallback
  <2>3. CASE TimerFires(t)
    <3>1. timers'[t] = [timers[t] EXCEPT !.st = "waiting", !.id = None]
      BY <1>0, <2>3 DEF TypeOK, TimerFires
    <3>2. timers'[t].user = timers[t].user /\ timers'[t].stopped = timers[t].stopped
      BY <2>1, <3>1 DEF TokenRenewalTimer
    <3> QED BY <2>1, <2>2, <2>3, <3>2 DEF NoLeakedTimer, TimerFires
  <2>4. CASE TimerCallback(t)
    <3>1. \/ timers'[t] = FreeTimer
          \/ timers'[t] = [timers[t] EXCEPT !.st = "done"]
      BY <1>0, <2>4 DEF TypeOK, TimerCallback
    <3>2. timers'[t].st \in {"free", "done"}
      BY <2>1, <3>1 DEF TokenRenewalTimer, FreeTimer
    <3> QED BY <2>1, <2>2, <3>2 DEF NoLeakedTimer
  <2> QED BY <1>1, <2>3, <2>4
<1>2. ASSUME NEW u \in Users, NEW b, StopTimerIf(b, u) PROVE NoLeakedTimer'
  BY <1>0, <1>2, <1>u, StopTracked DEF StopTimerIf
<1>3. ASSUME NEW u \in Users, ReconcileLocalUser(u) PROVE NoLeakedTimer'
  <2> DEFINE c == call.users[u]
  <2>1. CASE StopTimerIf(ReasonToStopTimer(c), u)
    BY <2>1, <1>2
  <2>2. CASE stopLocalUserTimer(u)
    BY <1>0, <2>2, StopTracked
  <2>3. CASE secret[u] # None /\ startOrRestartLocalUserTimer(u, secret[u].id)
    <3>1. secret[u].id \in TokenIds
      BY <1>0, <2>3 DEF TypeOK, LocalUserSecret
    <3> QED BY <1>0, <2>3, <3>1, StartTracked
  <2> QED
    BY <1>3, <2>1, <2>2, <2>3
       DEF ReconcileLocalUser, KeepToken, DeleteAndCreateNewToken
<1>4. CASE IssueTokenRegister
  <2>1. call.cur \in Users /\ call.id \in TokenIds
    BY <1>4 DEF IssueTokenRegister, TypeInv, CallOK
  <2>2. CASE startOrRestartLocalUserTimer(call.cur, call.id)
    BY <1>0, <2>1, <2>2, StartTracked
  <2> QED BY <1>4, <1>u, <2>2 DEF IssueTokenRegister
<1>5. ASSUME NEW u \in Users, CleanupLocalUsersNext(u) PROVE NoLeakedTimer'
  BY <1>0, <1>5, StopTracked DEF CleanupLocalUsersNext
<1>6. CASE CleanupNamespaceTokenTimers
  <2> SUFFICES ASSUME NEW t \in TimerIds,
                      timers'[t].st \in {"armed", "waiting"}, ~timers'[t].stopped
               PROVE  FALSE
    BY DEF NoLeakedTimer
  <2>1. timers[t] \in TokenRenewalTimer
    BY <1>0 DEF TypeOK
  <2>2. timers'[t] = IF \A u \in Users : entry[u] # t THEN timers[t]
                     ELSE IF timers[t].st = "waiting"
                          THEN [timers[t] EXCEPT !.stopped = TRUE] ELSE FreeTimer
    BY <1>6 DEF CleanupNamespaceTokenTimers
  <2>3. CASE \A u \in Users : entry[u] # t
    BY <2>2, <2>3 DEF NoLeakedTimer
  <2>4. CASE ~(\A u \in Users : entry[u] # t)
    BY <2>1, <2>2, <2>4 DEF TokenRenewalTimer, FreeTimer
  <2> QED BY <2>3, <2>4
<1>7. CASE Crash
  BY <1>7 DEF Crash, FreeTimer, NoLeakedTimer
<1>8. CASE \/ ReconcileLocalUsersBegin("main")
           \/ ReconcileLocalUsersBegin("renewal")
           \/ CleanupLocalUserToken \/ CleanupLocalUserSecret
           \/ CleanupLocalUsersList \/ ReconcileLocalUsersEnd
           \/ Reconcile \/ RemoveDeletionFinalizer
  BY <1>8, <1>u DEF ReconcileLocalUsersBegin, CleanupLocalUserToken,
     CleanupLocalUserSecret, CleanupLocalUsersList, ReconcileLocalUsersEnd,
     Reconcile, RemoveDeletionFinalizer
<1>9. ASSUME \/ \E u \in Users : EditCR(u) \/ ExternalDelete(u)
             \/ ExternalDeleteArgoCDSecret \/ DeleteCR \/ CreateCR
             \/ \E id \in TokenIds : Expire(id)
             \/ Resync \/ UNCHANGED vars
      PROVE  NoLeakedTimer'
  BY <1>9, <1>u DEF EditCR, ExternalDelete, ExternalDeleteArgoCDSecret, DeleteCR,
     CreateCR, Edited, Expire, Resync, vars, memory
<1> QED
  BY <1>1, <1>3, <1>4, <1>5, <1>6, <1>7, <1>8, <1>9
     DEF Next, LockedStep, Environment

\* A renewal timer that can still call back, and was not stopped, is always the
\* one in LocalUsers.tokenRenewalTimers: no sequence of stops, restarts,
\* callbacks and failed calls leaves a timer nobody can stop.
THEOREM NoTimerLeaks == Spec => []NoLeakedTimer
<1>1. Init => NoLeakedTimer
  BY DEF Init, FreeTimer, NoLeakedTimer
<1>2. Spec => [](TypeInv /\ NoLeakedTimer)
  BY <1>1, InitType, NextType, NextTracked, PTL DEF Spec
<1> QED BY <1>2, PTL

-----------------------------------------------------------------------------
(* No token is orphaned.                                                   *)

\* Between the two writes of issueToken the Secret is there (or was taken away
\* by someone else); between the two of cleanupLocalUser the token is gone (or
\* left to the legacy user).
OrderOK ==
  /\ call.phase = "register" => secret[call.cur] # None \/ call.cur \in left
  /\ call.phase = "delete" => registered[call.cur] = None
                               \/ call.extra[call.cur] = "apiKey"

OrphanInv == NoOrphanToken /\ OrderOK

\* Every step keeps the order of the writes, and so orphans no token.
LEMMA NextOrphan == TypeInv /\ OrphanInv /\ [Next]_vars => OrphanInv'
<1> SUFFICES ASSUME TypeInv, OrphanInv, [Next]_vars PROVE OrphanInv'
  OBVIOUS
<1>0. TypeOK /\ CallOK /\ call \in Locals
  BY DEF TypeInv, TypeOK, Locals
<1>r. ASSUME NEW g, NEW f, Return(g, f) PROVE call'.phase = "idle"
  BY <1>r DEF Return, NoCall
<1>n. ASSUME call' = NextUser PROVE call'.phase = "users"
  BY <1>0, <1>n DEF NextUser, Locals
<1>u. ASSUME UNCHANGED <<secret, registered, left>>,
             UNCHANGED call \/ call'.phase \in {"idle", "users", "unregister"}
      PROVE  OrphanInv'
  BY <1>u DEF OrphanInv, NoOrphanToken, OrderOK
<1>1. ASSUME NEW u \in Users, ReconcileLocalUser(u) PROVE OrphanInv'
  <2> DEFINE c == call.users[u]
  <2>1. CASE UNCHANGED cluster /\ Return(holder, TRUE)
    BY <2>1, <1>r, <1>u DEF cluster
  <2>2. CASE UNCHANGED cluster /\ call' = [call EXCEPT !.phase = "unregister", !.cur = u]
    BY <2>2, <1>0, <1>u DEF cluster, Locals
  <2>3. CASE IssueTokenSecret(u, c)
    <3> DEFINE id == CHOOSE i \in TokenIds \ UsedIds : TRUE
               new == [id |-> id, renew |-> c.renew, life |-> NormalLifetime(c.life)]
    <3>1. id \in TokenIds /\ c \in LocalUserSpec
      BY <2>3, <1>0, <1>1 DEF IssueTokenSecret, ReconcileLocalUser, CallOK, TypeOK
    <3>2. new \in LocalUserSecret
      BY <3>1 DEF LocalUserSecret, LocalUserSpec, NormalLifetime, Finite
    <3>3. new # None
      BY <3>2, ConstantsAssumption
    <3>4. /\ secret' = [secret EXCEPT ![u] = new]
          /\ left' = left \ {u} /\ registered' = registered
          /\ \/ call' = [call EXCEPT !.phase = "register", !.cur = u, !.id = id]
             \/ Return(holder, TRUE)
      BY <2>3 DEF IssueTokenSecret
    <3> HIDE DEF new, id
    <3>5. NoOrphanToken'
      BY <1>0, <3>3, <3>4 DEF OrphanInv, NoOrphanToken, TypeOK
    <3>6. secret'[u] # None
      BY <1>0, <3>3, <3>4 DEF TypeOK
    <3>7. OrderOK'
      <4>1. CASE call' = [call EXCEPT !.phase = "register", !.cur = u, !.id = id]
        <5>1. call'.phase = "register" /\ call'.cur = u
          BY <4>1, <1>0 DEF Locals
        <5> QED BY <5>1, <3>6 DEF OrderOK
      <4>2. CASE Return(holder, TRUE)
        BY <4>2, <1>r DEF OrderOK
      <4> QED BY <3>4, <4>1, <4>2
    <3> QED BY <3>5, <3>7 DEF OrphanInv
  <2>4. CASE secret[u] # None /\ KeepToken(u, c)
    <3>1. /\ registered' = registered /\ left' = left
          /\ secret' = [secret EXCEPT ![u].renew = c.renew]
          /\ call' = [call EXCEPT !.todo = @ \ {u}] \/ Return(holder, TRUE)
      BY <2>4 DEF KeepToken
    <3>2. [secret[u] EXCEPT !.renew = c.renew] \in LocalUserSecret
      BY <2>4, <1>0, <1>1 DEF TypeOK, CallOK, ReconcileLocalUser, LocalUserSecret, LocalUserSpec
    <3>3. secret'[u] # None
      BY <1>0, <3>1, <3>2, ConstantsAssumption DEF TypeOK
    <3>4. \A v \in Users : secret'[v] = None => secret[v] = None
      BY <1>0, <3>1, <3>3 DEF TypeOK
    <3>5. call'.phase \in {"users", "idle"}
      BY <1>0, <1>1, <1>r, <3>1 DEF ReconcileLocalUser, Locals
    <3> QED BY <3>1, <3>4, <3>5 DEF OrphanInv, NoOrphanToken, OrderOK
  <2> QED
    BY <1>1, <2>1, <2>2, <2>3, <2>4 DEF ReconcileLocalUser, DeleteAndCreateNewToken
<1>2. CASE IssueTokenRegister
  <2>1. call.cur \in Users /\ (secret[call.cur] # None \/ call.cur \in left)
    BY <1>0, <1>2 DEF IssueTokenRegister, CallOK, OrphanInv, OrderOK
  <2>2. /\ secret' = secret /\ left' = left
        /\ registered' \in {registered, [registered EXCEPT ![call.cur] = call.id]}
        /\ call' = NextUser \/ Return(holder, TRUE)
    BY <1>2 DEF IssueTokenRegister
  <2>3. NoOrphanToken'
    BY <1>0, <2>1, <2>2 DEF TypeOK, OrphanInv, NoOrphanToken
  <2>4. OrderOK'
    BY <2>2, <1>r, <1>n DEF OrderOK
  <2> QED BY <2>3, <2>4 DEF OrphanInv
<1>3. CASE CleanupLocalUserToken
  <2> DEFINE u == call.cur
             gone == IF call.extra[u] = "apiKey" THEN registered
                     ELSE [registered EXCEPT ![u] = None]
  <2>1. u \in Users
    BY <1>0, <1>3 DEF CleanupLocalUserToken, CallOK
  <2>2. /\ secret' = secret /\ left' = left
        /\ \/ registered' \in {registered, gone} /\ Return(holder, TRUE)
           \/ registered' = gone /\ call' = NextUser
           \/ registered' = gone /\ call' = [call EXCEPT !.phase = "delete"]
    BY <1>3 DEF CleanupLocalUserToken
  <2>3. \A v \in Users : registered'[v] # None => registered[v] # None
    BY <1>0, <2>1, <2>2 DEF TypeOK
  <2>4. NoOrphanToken'
    BY <2>2, <2>3 DEF OrphanInv, NoOrphanToken
  <2>5. OrderOK'
    <3>1. CASE registered' = gone /\ call' = [call EXCEPT !.phase = "delete"]
      <4>1. call'.phase = "delete" /\ call'.cur = u /\ call'.extra = call.extra
        BY <3>1, <1>0 DEF Locals
      <4>2. registered'[u] = None \/ call.extra[u] = "apiKey"
        BY <3>1, <1>0, <2>1 DEF TypeOK
      <4> QED BY <4>1, <4>2 DEF OrderOK
    <3>2. CASE call' = NextUser \/ Return(holder, TRUE)
      BY <3>2, <1>r, <1>n DEF OrderOK
    <3> QED BY <2>2, <3>1, <3>2
  <2> QED BY <2>4, <2>5 DEF OrphanInv
<1>4. CASE CleanupLocalUserSecret
  <2>1. call.cur \in Users /\ (registered[call.cur] = None \/ call.extra[call.cur] = "apiKey")
    BY <1>0, <1>4 DEF CleanupLocalUserSecret, CallOK, OrphanInv, OrderOK
  <2>2. /\ registered' = registered
        /\ \/ secret' = secret /\ left' = left
           \/ /\ secret' = [secret EXCEPT ![call.cur] = None]
              /\ left' = IF call.extra[call.cur] = "apiKey"
                         THEN left \cup {call.cur} ELSE left
        /\ call' = NextUser \/ Return(holder, TRUE)
    BY <1>4 DEF CleanupLocalUserSecret
  <2>3. NoOrphanToken'
    BY <1>0, <2>1, <2>2 DEF TypeOK, OrphanInv, NoOrphanToken
  <2>4. OrderOK'
    BY <2>2, <1>r, <1>n DEF OrderOK
  <2> QED BY <2>3, <2>4 DEF OrphanInv
<1>5. CASE CleanupLocalUsersList \/ ReconcileLocalUsersEnd
  <2>1. CASE call' = [call EXCEPT !.sweep = TRUE,
                  !.todo = {u \in Users : secret[u] # None /\ call.users[u] = None}]
    <3>1. call'.phase = call.phase /\ call'.cur = call.cur /\ call'.extra = call.extra
      BY <1>0, <2>1 DEF Locals
    <3> QED
      BY <1>5, <3>1 DEF CleanupLocalUsersList, ReconcileLocalUsersEnd, cluster,
         OrphanInv, NoOrphanToken, OrderOK
  <2>2. CASE \E f \in BOOLEAN : Return(holder, f)
    BY <1>5, <2>2, <1>r, <1>u DEF CleanupLocalUsersList, ReconcileLocalUsersEnd, cluster
  <2> QED BY <1>5, <2>1, <2>2 DEF CleanupLocalUsersList, ReconcileLocalUsersEnd
<1>6. ASSUME NEW u \in Users, CleanupLocalUsersNext(u) PROVE OrphanInv'
  <2>1. call'.phase = "unregister"
    BY <1>0, <1>6 DEF CleanupLocalUsersNext, Locals
  <2> QED BY <1>6, <2>1, <1>u DEF CleanupLocalUsersNext, cluster
<1>7. ASSUME NEW g \in {"main", "renewal"}, ReconcileLocalUsersBegin(g) PROVE OrphanInv'
  <2>1. call'.phase \in {"idle", "users"}
    <3>1. CASE Return(g, FALSE) \/ Return(g, TRUE)
      BY <3>1, <1>r
    <3>2. CASE ~Return(g, FALSE) /\ ~Return(g, TRUE)
      <4>1. call' = [phase |-> "users", cur |-> None, id |-> None,
                     sweep |-> FALSE, users |-> spec, extra |-> extra,
                     todo |-> {u \in Users : spec[u] # None /\ extra[u] = "none"}]
        BY <1>7, <3>2 DEF ReconcileLocalUsersBegin
      <4> QED BY <4>1
    <3> QED BY <3>1, <3>2
  <2> QED BY <1>7, <2>1, <1>u DEF ReconcileLocalUsersBegin, cluster
<1>8. CASE RemoveDeletionFinalizer
  <2>1. CASE UNCHANGED <<secret, registered, left, call>>
    BY <2>1, <1>u
  <2>2. CASE /\ registered' = [u \in Users |-> None]
             /\ left' = IF call.phase = "register" THEN {call.cur} ELSE {}
             /\ call' = call
    BY <1>0, <2>2 DEF CallOK, OrphanInv, NoOrphanToken, OrderOK
  <2> QED BY <1>8, <2>1, <2>2 DEF RemoveDeletionFinalizer
<1>9. ASSUME NEW u \in Users, ExternalDelete(u) PROVE OrphanInv'
  BY <1>0, <1>9 DEF ExternalDelete, TypeOK, CallOK, OrphanInv, NoOrphanToken, OrderOK
<1>10. CASE ExternalDeleteArgoCDSecret
  BY <1>0, <1>10 DEF ExternalDeleteArgoCDSecret, CallOK, OrphanInv, NoOrphanToken, OrderOK
<1>11. CASE Crash
  BY <1>11, <1>u DEF Crash, NoCall, cluster
<1>12. ASSUME \/ \E t \in TimerIds : TimerFires(t) \/ TimerCallback(t)
              \/ Reconcile \/ CleanupNamespaceTokenTimers
              \/ \E u \in Users : EditCR(u)
              \/ DeleteCR \/ CreateCR
              \/ \E id \in TokenIds : Expire(id)
              \/ Resync \/ UNCHANGED vars
       PROVE  OrphanInv'
  BY <1>12, <1>u DEF TimerFires, TimerCallback, Reconcile,
     CleanupNamespaceTokenTimers, EditCR, DeleteCR, CreateCR, Edited, Expire, Resync,
     vars, cluster, memory
<1> QED
  BY <1>1, <1>2, <1>3, <1>4, <1>5, <1>6, <1>7, <1>8, <1>9, <1>10, <1>11, <1>12
     DEF Next, LockedStep, Environment

\* A token that Argo CD accepts always has the user Secret by which
\* cleanupLocalUsers finds it, unless it was left on purpose or the Secret was
\* taken away by someone else: the order of the two writes of issueToken and of
\* cleanupLocalUser survives every failing call and every crash.
THEOREM NoTokenOrphaned == Spec => []NoOrphanToken
<1>1. Init => OrphanInv
  BY DEF Init, NoCall, OrphanInv, NoOrphanToken, OrderOK
<1>2. Spec => [](TypeInv /\ OrphanInv)
  BY <1>1, InitType, NextType, NextOrphan, PTL DEF Spec
<1>3. OrphanInv => NoOrphanToken
  BY DEF OrphanInv
<1> QED BY <1>2, <1>3, PTL
=============================================================================
