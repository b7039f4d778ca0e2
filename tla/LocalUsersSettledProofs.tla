---------------------- MODULE LocalUsersSettledProofs ----------------------
(***************************************************************************)
(* What reconcileLocalUsers has achieved once nothing is left to do, and   *)
(* what it achieves as long as no call fails, and whose timers are still   *)
(* armed then: proofs about LocalUsers, for every set of users, tokens and *)
(* timers and whatever the bounds.                                         *)
(***************************************************************************)
EXTENDS LocalUsersProofs

-----------------------------------------------------------------------------
(* The lock and the locals of the call that owns it.                       *)

\* Who owns the lock is who runs reconcileLocalUsers; the deletion path of the
\* worker is only taken while the CR is terminating.
LockOK ==
  /\ holder = "main" <=> main = "running"
  /\ holder = "free" <=> call.phase = "idle"
  /\ holder = "free" => call = NoCall
  /\ main \in {"cleanupTimers", "finalize"} => crState = "terminating"

\* Tokens are issued for users of the CR that are on, in the first loop; they
\* are cleaned up for users that are off or, in the second loop, removed.
PhaseOK ==
  /\ call.phase \in {"register", "unregister", "delete"} => call.cur \in call.todo
  /\ call.phase = "register" => ~call.sweep /\ call.users[call.cur].on
  /\ call.phase \in {"unregister", "delete"} =>
       \/ call.users[call.cur] = None
       \/ ~call.users[call.cur].on /\ call.users[call.cur].life # "bad"
  /\ \A u \in call.todo : IF call.sweep THEN call.users[u] = None
                          ELSE call.users[u] # None /\ call.extra[u] = "none"

CallInv == LockOK /\ PhaseOK

\* Once a call has returned, the lock is free and the locals are gone.
LEMMA ReturnCallInv ==
  ASSUME TypeInv, CallInv, NEW g \in {"main", "renewal"}, NEW failed \in BOOLEAN,
         Return(g, failed), holder \in {g, "free"},
         UNCHANGED crState
  PROVE  CallInv'
<1>1. /\ call' = NoCall /\ holder' = "free"
      /\ main' = IF g = "main" THEN "idle" ELSE main
  BY DEF Return
<1>2. PhaseOK'
  BY <1>1 DEF PhaseOK, NoCall
<1>3. LockOK'
  BY <1>1 DEF LockOK, CallInv, NoCall
<1> QED BY <1>2, <1>3 DEF CallInv

\* On to the next user.
LEMMA NextUserCall ==
  ASSUME TypeInv, call' = NextUser
  PROVE  /\ call'.phase = "users" /\ call'.todo = call.todo \ {call.cur}
         /\ call'.sweep = call.sweep /\ call'.users = call.users
         /\ call'.extra = call.extra
<1>1. call \in Locals
  BY DEF TypeInv, TypeOK, Locals
<1> QED BY <1>1 DEF NextUser, Locals

\* A step within a call that goes on to the next user.
LEMMA NextUserCallInv ==
  ASSUME TypeInv, CallInv, call' = NextUser, call.phase # "idle",
         UNCHANGED <<holder, main, crState>>
  PROVE  CallInv'
<1>1. PhaseOK'
  BY NextUserCall DEF CallInv, PhaseOK
<1>2. LockOK'
  BY NextUserCall DEF CallInv, LockOK
<1> QED BY <1>1, <1>2 DEF CallInv

\* Whoever runs a locked step owns the lock.
LEMMA LockHeld ==
  ASSUME TypeInv, CallInv, call.phase # "idle"
  PROVE  holder \in {"main", "renewal"}
BY DEF TypeInv, TypeOK, CallInv, LockOK

\* The calls' locals always fit what the calls do.
LEMMA NextCall == TypeInv /\ CallInv /\ [Next]_vars => CallInv'
<1> SUFFICES ASSUME TypeInv, CallInv, [Next]_vars PROVE CallInv'
  OBVIOUS
<1>0. call \in Locals /\ TypeOK /\ CallOK
  BY DEF TypeInv, TypeOK, Locals
<1>u. ASSUME UNCHANGED <<holder, call, crState, main>> PROVE CallInv'
  BY <1>u DEF CallInv, LockOK, PhaseOK
<1>r. ASSUME call.phase # "idle", NEW f \in BOOLEAN, Return(holder, f), UNCHANGED crState
      PROVE  CallInv'
  BY <1>r, LockHeld, ReturnCallInv
<1>1. ASSUME NEW u \in Users, ReconcileLocalUser(u) PROVE CallInv'
  <2> DEFINE c == call.users[u]
  <2>0. /\ call.phase = "users" /\ ~call.sweep /\ u \in call.todo
        /\ crState' = crState
    BY <1>1 DEF ReconcileLocalUser, IssueTokenSecret, KeepToken, cluster
  <2>1. CASE Return(holder, TRUE)
    BY <2>0, <2>1, <1>r
  <2>2. CASE /\ ~c.on /\ c.life # "bad"
             /\ call' = [call EXCEPT !.phase = "unregister", !.cur = u]
             /\ UNCHANGED <<holder, main>>
    <3>1. /\ call'.phase = "unregister" /\ call'.cur = u /\ call'.todo = call.todo
          /\ call'.sweep = call.sweep /\ call'.users = call.users
          /\ call'.extra = call.extra
      BY <2>2, <1>0 DEF Locals
    <3>2. PhaseOK'
      BY <2>0, <2>2, <3>1 DEF CallInv, PhaseOK
    <3>3. LockOK'
      BY <2>0, <2>2, <3>1 DEF CallInv, LockOK
    <3> QED BY <3>2, <3>3 DEF CallInv
  <2>3. CASE /\ c.on /\ IssueTokenSecret(u, c) /\ ~Return(holder, TRUE)
    <3>1. PICK id : call' = [call EXCEPT !.phase = "register", !.cur = u, !.id = id]
      BY <2>3 DEF IssueTokenSecret
    <3>2. UNCHANGED <<holder, main>>
      BY <2>3 DEF IssueTokenSecret
    <3>3. /\ call'.phase = "register" /\ call'.cur = u /\ call'.todo = call.todo
          /\ call'.sweep = call.sweep /\ call'.users = call.users
          /\ call'.extra = call.extra
      BY <3>1, <1>0 DEF Locals
    <3>4. PhaseOK'
      BY <2>0, <2>3, <3>3 DEF CallInv, PhaseOK
    <3>5. LockOK'
      BY <2>0, <3>2, <3>3 DEF CallInv, LockOK
    <3> QED BY <3>4, <3>5 DEF CallInv
  <2>4. CASE KeepToken(u, c) /\ ~Return(holder, TRUE)
    <3>1. call' = [call EXCEPT !.todo = @ \ {u}] /\ UNCHANGED <<holder, main>>
      BY <2>4 DEF KeepToken
    <3>2. /\ call'.phase = "users" /\ call'.todo = call.todo \ {u}
          /\ call'.sweep = call.sweep /\ call'.users = call.users
          /\ call'.extra = call.extra
      BY <2>0, <3>1, <1>0 DEF Locals
    <3>3. PhaseOK'
      BY <2>0, <3>2 DEF CallInv, PhaseOK
    <3>4. LockOK'
      BY <2>0, <3>1, <3>2 DEF CallInv, LockOK
    <3> QED BY <3>3, <3>4 DEF CallInv
  <2> QED
    BY <1>1, <2>1, <2>2, <2>3, <2>4 DEF ReconcileLocalUser
<1>2. CASE IssueTokenRegister
  <2>1. CASE call' = NextUser /\ UNCHANGED <<holder, main>>
    BY <1>2, <2>1, NextUserCallInv DEF IssueTokenRegister
  <2>2. CASE Return(holder, TRUE)
    BY <1>2, <2>2, <1>r DEF IssueTokenRegister
  <2> QED BY <1>2, <2>1, <2>2 DEF IssueTokenRegister
<1>3. CASE CleanupLocalUserToken
  <2>1. CASE call' = NextUser /\ UNCHANGED <<holder, main>>
    BY <1>3, <2>1, NextUserCallInv DEF CleanupLocalUserToken
  <2>2. CASE Return(holder, TRUE)
    BY <1>3, <2>2, <1>r DEF CleanupLocalUserToken
  <2>3. CASE call' = [call EXCEPT !.phase = "delete"] /\ UNCHANGED <<holder, main>>
    <3>1. /\ call'.phase = "delete" /\ call'.cur = call.cur /\ call'.todo = call.todo
          /\ call'.sweep = call.sweep /\ call'.users = call.users
          /\ call'.extra = call.extra
      BY <2>3, <1>0 DEF Locals
    <3>2. PhaseOK'
      BY <1>3, <3>1 DEF CleanupLocalUserToken, CallInv, PhaseOK
    <3>3. LockOK'
      BY <1>3, <2>3, <3>1 DEF CleanupLocalUserToken, CallInv, LockOK
    <3> QED BY <3>2, <3>3 DEF CallInv
  <2> QED BY <1>3, <2>1, <2>2, <2>3 DEF CleanupLocalUserToken
<1>4. CASE CleanupLocalUserSecret
  <2>1. CASE call' = NextUser /\ UNCHANGED <<holder, main>>
    BY <1>4, <2>1, NextUserCallInv DEF CleanupLocalUserSecret
  <2>2. CASE Return(holder, TRUE)
    BY <1>4, <2>2, <1>r DEF CleanupLocalUserSecret
  <2> QED BY <1>4, <2>1, <2>2 DEF CleanupLocalUserSecret
<1>5. CASE CleanupLocalUsersList
  <2>1. CASE Return(holder, TRUE)
    BY <1>5, <2>1, <1>r DEF CleanupLocalUsersList, cluster
  <2>2. CASE /\ call' = [call EXCEPT !.sweep = TRUE,
                  !.todo = {u \in Users : secret[u] # None /\ call.users[u] = None}]
             /\ UNCHANGED <<holder, main>>
    <3>1. /\ call'.phase = "users" /\ call'.sweep /\ call'.users = call.users
          /\ call'.todo = {u \in Users : secret[u] # None /\ call.users[u] = None}
      BY <1>5, <2>2, <1>0 DEF CleanupLocalUsersList, Locals
    <3>2. PhaseOK'
      BY <3>1 DEF PhaseOK
    <3>3. LockOK'
      BY <1>5, <2>2, <3>1 DEF CleanupLocalUsersList, CallInv, LockOK, cluster
    <3> QED BY <3>2, <3>3 DEF CallInv
  <2> QED BY <1>5, <2>1, <2>2 DEF CleanupLocalUsersList
<1>6. ASSUME NEW u \in Users, CleanupLocalUsersNext(u) PROVE CallInv'
  <2>1. /\ call'.phase = "unregister" /\ call'.cur = u /\ call'.todo = call.todo
        /\ call'.sweep = call.sweep /\ call'.users = call.users
        /\ call'.extra = call.extra
    BY <1>6, <1>0 DEF CleanupLocalUsersNext, Locals
  <2>2. PhaseOK'
    BY <1>6, <2>1 DEF CleanupLocalUsersNext, CallInv, PhaseOK
  <2>3. LockOK'
    BY <1>6, <2>1 DEF CleanupLocalUsersNext, CallInv, LockOK, cluster
  <2> QED BY <2>2, <2>3 DEF CallInv
<1>7. CASE ReconcileLocalUsersEnd
  BY <1>7, <1>r DEF ReconcileLocalUsersEnd, cluster
<1>8. ASSUME NEW g \in {"main", "renewal"}, ReconcileLocalUsersBegin(g) PROVE CallInv'
  <2>0. holder = "free" /\ crState' = crState /\ (g = "main" => main = "localUsers")
    BY <1>8 DEF ReconcileLocalUsersBegin, cluster
  <2>1. CASE Return(g, FALSE) \/ Return(g, TRUE)
    BY <2>0, <2>1, ReturnCallInv
  <2>2. CASE ~Return(g, FALSE) /\ ~Return(g, TRUE)
    <3>1. /\ call' = [phase |-> "users", cur |-> None, id |-> None,
                      sweep |-> FALSE, users |-> spec, extra |-> extra,
                      todo |-> {u \in Users : spec[u] # None /\ extra[u] = "none"}]
          /\ holder' = g
          /\ main' = IF g = "main" THEN "running" ELSE main
      BY <1>8, <2>2 DEF ReconcileLocalUsersBegin
    <3>2. PhaseOK'
      BY <3>1 DEF PhaseOK
    <3>3. LockOK'
      BY <2>0, <3>1 DEF CallInv, LockOK
    <3> QED BY <3>2, <3>3 DEF CallInv
  <2> QED BY <2>1, <2>2
<1>9. CASE Reconcile
  BY <1>9 DEF Reconcile, CallInv, LockOK, PhaseOK
<1>10. CASE CleanupNamespaceTokenTimers
  BY <1>10 DEF CleanupNamespaceTokenTimers, CallInv, LockOK, PhaseOK, cluster
<1>11. CASE RemoveDeletionFinalizer
  BY <1>11 DEF RemoveDeletionFinalizer, CallInv, LockOK, PhaseOK
<1>12. CASE \E u \in Users : EditCR(u)
  BY <1>12, <1>u DEF EditCR, Edited
<1>13. CASE DeleteCR \/ CreateCR
  BY <1>13 DEF DeleteCR, CreateCR, Edited, CallInv, LockOK, PhaseOK
<1>14. CASE Crash
  BY <1>14 DEF Crash, NoCall, CallInv, LockOK, PhaseOK
<1>15. ASSUME \/ \E t \in TimerIds : TimerFires(t) \/ TimerCallback(t)
              \/ \E u \in Users : ExternalDelete(u)
              \/ ExternalDeleteArgoCDSecret
              \/ \E id \in TokenIds : Expire(id)
              \/ Resync \/ UNCHANGED vars
       PROVE  CallInv'
  BY <1>15, <1>u DEF TimerFires, TimerCallback, ExternalDelete,
     ExternalDeleteArgoCDSecret, Expire, Resync, vars, cluster, memory
<1> QED
  BY <1>1, <1>2, <1>3, <1>4, <1>5, <1>6, <1>7, <1>8, <1>9, <1>10, <1>11, <1>12,
     <1>13, <1>14, <1>15 DEF Next, LockedStep, Environment

-----------------------------------------------------------------------------
(* The map of timers: each user's entry is a timer of that user.           *)

\* The timer in the map for u was made for u, and has not been stopped.
EntryOK ==
  \A u \in Users : entry[u] # None =>
    LET t == timers[entry[u]] IN t.user = u /\ ~t.stopped /\ t.st # "free"

\* A step does not touch the timer in the map for v.
TimerUntouched(v) ==
  entry'[v] = entry[v] /\ (entry[v] # None => timers'[entry[v]] = timers[entry[v]])

\* Two users have two timers.
LEMMA EntryInjective ==
  ASSUME TypeOK, EntryOK, NEW u \in Users, NEW v \in Users \ {u}, entry[v] # None
  PROVE  entry[v] # entry[u]
BY DEF EntryOK

\* stopLocalUserTimer empties the user's entry and touches no one else's.
LEMMA StopOthers ==
  ASSUME TypeOK, EntryOK, NEW u \in Users, stopLocalUserTimer(u)
  PROVE  entry'[u] = None /\ \A v \in Users \ {u} : TimerUntouched(v)
<1>1. entry' = [entry EXCEPT ![u] = None] /\ timers' = StoppedTimers(u)
  BY DEF stopLocalUserTimer
<1>2. ASSUME NEW v \in Users \ {u} PROVE TimerUntouched(v)
  <2>1. entry'[v] = entry[v]
    BY <1>1 DEF TypeOK
  <2>2. ASSUME entry[v] # None PROVE timers'[entry[v]] = timers[entry[v]]
    BY <1>1, <2>2, EntryInjective DEF TypeOK, StoppedTimers
  <2> QED BY <2>1, <2>2 DEF TimerUntouched
<1> QED BY <1>1, <1>2 DEF TypeOK

\* startOrRestartLocalUserTimer arms a timer for the user and touches no one
\* else's.
LEMMA StartOthers ==
  ASSUME TypeOK, EntryOK, NEW u \in Users, NEW id \in TokenIds,
         startOrRestartLocalUserTimer(u, id)
  PROVE  /\ entry'[u] \in TimerIds
         /\ timers'[entry'[u]] = [user |-> u, id |-> id, st |-> "armed", stopped |-> FALSE]
         /\ \A v \in Users \ {u} : TimerUntouched(v)
<1> DEFINE free == {t \in TimerIds : StoppedTimers(u)[t] = FreeTimer}
           new == CHOOSE f \in free : TRUE
           timer == [user |-> u, id |-> id, st |-> "armed", stopped |-> FALSE]
<1>1. new \in TimerIds /\ StoppedTimers(u)[new] = FreeTimer
  BY DEF startOrRestartLocalUserTimer
<1>2. timers' = [StoppedTimers(u) EXCEPT ![new] = timer] /\ entry' = [entry EXCEPT ![u] = new]
  BY DEF startOrRestartLocalUserTimer
<1>3. entry'[u] = new /\ timers'[new] = timer
  BY <1>1, <1>2, StoppedTimersType DEF TypeOK
<1>4. ASSUME NEW v \in Users \ {u} PROVE TimerUntouched(v)
  <2>1. entry'[v] = entry[v]
    BY <1>2 DEF TypeOK
  <2>2. ASSUME entry[v] # None PROVE timers'[entry[v]] = timers[entry[v]]
    <3>1. entry[v] \in TimerIds /\ timers[entry[v]].st # "free" /\ entry[v] # entry[u]
      BY <2>2, EntryInjective DEF TypeOK, EntryOK
    <3>2. StoppedTimers(u)[entry[v]] = timers[entry[v]]
      BY <3>1 DEF TypeOK, StoppedTimers
    <3>3. entry[v] # new
      BY <1>1, <3>1, <3>2 DEF FreeTimer
    <3> QED BY <1>1, <1>2, <3>1, <3>2, <3>3, StoppedTimersType
  <2> QED BY <2>1, <2>2 DEF TimerUntouched
<1> QED BY <1>1, <1>3, <1>4

\* Stopping a timer only for a reason.
LEMMA StopIfOthers ==
  ASSUME TypeOK, EntryOK, NEW u \in Users, NEW b, StopTimerIf(b, u)
  PROVE  /\ (b /\ entry'[u] = None) \/ (~b /\ TimerUntouched(u))
         /\ \A v \in Users \ {u} : TimerUntouched(v)
BY StopOthers DEF StopTimerIf, TimerUntouched

\* Firing and calling back, a timer changes its state only.
LEMMA TimerStep ==
  ASSUME TypeOK, EntryOK, NEW t \in TimerIds, TimerFires(t) \/ TimerCallback(t)
  PROVE  /\ entry' = entry
         /\ \A w \in TimerIds \ {t} : timers'[w] = timers[w]
         /\ ~timers[t].stopped => timers'[t].user = timers[t].user /\ ~timers'[t].stopped
         /\ \/ /\ TimerFires(t) /\ timers[t].st = "armed" /\ timers[t].id \in expired
               /\ timers'[t].st = "waiting"
            \/ /\ TimerCallback(t) /\ timers[t].st = "waiting" /\ holder = "free"
               /\ timers'[t].st = IF timers[t].stopped THEN "free" ELSE "done"
<1>0. timers[t] \in TokenRenewalTimer
  BY DEF TypeOK
<1>1. entry' = entry /\ \A w \in TimerIds \ {t} : timers'[w] = timers[w]
  BY DEF TypeOK, TimerFires, TimerCallback
<1>2. CASE TimerFires(t)
  <2>1. timers'[t] = [timers[t] EXCEPT !.st = "waiting", !.id = None]
    BY <1>2 DEF TypeOK, TimerFires
  <2>2. timers'[t].st = "waiting" /\ timers'[t].user = timers[t].user
          /\ timers'[t].stopped = timers[t].stopped
    BY <1>0, <2>1 DEF TokenRenewalTimer
  <2> QED BY <1>1, <1>2, <2>2 DEF TimerFires
<1>3. CASE TimerCallback(t)
  <2>1. timers'[t] = IF timers[t].stopped THEN FreeTimer
                     ELSE [timers[t] EXCEPT !.st = "done"]
    BY <1>3 DEF TypeOK, TimerCallback
  <2>2. timers'[t].st = (IF timers[t].stopped THEN "free" ELSE "done")
    BY <1>0, <2>1 DEF TokenRenewalTimer, FreeTimer
  <2>3. ~timers[t].stopped => timers'[t].user = timers[t].user /\ ~timers'[t].stopped
    BY <1>0, <2>1 DEF TokenRenewalTimer
  <2> QED BY <1>1, <1>3, <2>2, <2>3 DEF TimerCallback
<1> QED BY <1>2, <1>3

\* Actions that neither start, stop nor run a timer.
NoTimerStep ==
  \/ ReconcileLocalUsersBegin("main") \/ ReconcileLocalUsersBegin("renewal")
  \/ CleanupLocalUserToken \/ CleanupLocalUserSecret
  \/ CleanupLocalUsersList \/ ReconcileLocalUsersEnd
  \/ Reconcile \/ RemoveDeletionFinalizer
  \/ \E u \in Users : EditCR(u) \/ ExternalDelete(u)
  \/ ExternalDeleteArgoCDSecret \/ DeleteCR \/ CreateCR
  \/ \E id \in TokenIds : Expire(id)
  \/ Resync \/ UNCHANGED vars

\* They leave the timers alone.
LEMMA NoTimerStepKeeps == NoTimerStep => UNCHANGED <<timers, entry>>
BY DEF NoTimerStep, ReconcileLocalUsersBegin, CleanupLocalUserToken,
   CleanupLocalUserSecret, CleanupLocalUsersList, ReconcileLocalUsersEnd, Reconcile,
   RemoveDeletionFinalizer, EditCR, ExternalDelete, ExternalDeleteArgoCDSecret,
   DeleteCR, CreateCR, Edited, Expire, Resync, vars, memory

\* Every step keeps the entries right.
LEMMA NextEntry == TypeInv /\ EntryOK /\ [Next]_vars => EntryOK'
<1> SUFFICES ASSUME TypeInv, EntryOK, [Next]_vars PROVE EntryOK'
  OBVIOUS
<1>0. TypeOK
  BY DEF TypeInv
<1>s. ASSUME NEW u \in Users, \A v \in Users \ {u} : TimerUntouched(v),
             \/ entry'[u] = None
             \/ TimerUntouched(u)
             \/ /\ timers'[entry'[u]].user = u /\ ~timers'[entry'[u]].stopped
                /\ timers'[entry'[u]].st = "armed"
      PROVE  EntryOK'
  BY <1>s DEF EntryOK, TimerUntouched
<1>t. ASSUME NEW u \in Users, NEW id \in TokenIds, startOrRestartLocalUserTimer(u, id)
      PROVE  EntryOK'
  <2>0. timers'[entry'[u]] = [user |-> u, id |-> id, st |-> "armed", stopped |-> FALSE]
    BY <1>0, <1>t, StartOthers
  <2>1. /\ timers'[entry'[u]].user = u /\ ~timers'[entry'[u]].stopped
        /\ timers'[entry'[u]].st = "armed"
    BY <2>0
  <2>2. \A v \in Users \ {u} : TimerUntouched(v)
    BY <1>0, <1>t, StartOthers
  <2> QED BY <1>s, <2>1, <2>2
<1>1. ASSUME NEW u \in Users, ReconcileLocalUser(u) PROVE EntryOK'
  <2> DEFINE c == call.users[u]
  <2>1. CASE StopTimerIf(ReasonToStopTimer(c), u)
    BY <1>0, <1>s, <2>1, StopIfOthers
  <2>2. CASE stopLocalUserTimer(u)
    BY <1>0, <1>s, <2>2, StopOthers
  <2>3. CASE secret[u] # None /\ startOrRestartLocalUserTimer(u, secret[u].id)
    <3>1. secret[u].id \in TokenIds
      BY <1>0, <2>3 DEF TypeOK, LocalUserSecret
    <3> QED BY <1>t, <2>3, <3>1
  <2> QED
    BY <1>1, <2>1, <2>2, <2>3
       DEF ReconcileLocalUser, KeepToken, DeleteAndCreateNewToken
<1>2. CASE IssueTokenRegister
  <2>1. call.cur \in Users /\ call.id \in TokenIds
    BY <1>2 DEF IssueTokenRegister, TypeInv, CallOK
  <2>2. CASE startOrRestartLocalUserTimer(call.cur, call.id)
    BY <1>t, <2>1, <2>2
  <2>3. CASE UNCHANGED <<timers, entry>>
    BY <2>3 DEF EntryOK
  <2> QED BY <1>2, <2>2, <2>3 DEF IssueTokenRegister
<1>3. ASSUME NEW u \in Users, CleanupLocalUsersNext(u) PROVE EntryOK'
  BY <1>0, <1>3, <1>s, StopOthers DEF CleanupLocalUsersNext
<1>4. ASSUME NEW t \in TimerIds, TimerFires(t) \/ TimerCallback(t) PROVE EntryOK'
  <2>1. ASSUME NEW v \in Users, entry[v] = t
        PROVE  timers'[t].user = v /\ ~timers'[t].stopped /\ timers'[t].st # "free"
    <3>1. t # None /\ timers[t].user = v /\ ~timers[t].stopped
      BY <2>1, ConstantsAssumption DEF EntryOK
    <3> QED BY <1>0, <1>4, <3>1, TimerStep
  <2>2. entry' = entry /\ \A w \in TimerIds \ {t} : timers'[w] = timers[w]
    BY <1>0, <1>4, TimerStep
  <2> QED BY <1>0, <2>1, <2>2 DEF EntryOK, TypeOK
<1>5. CASE CleanupNamespaceTokenTimers \/ Crash
  BY <1>5 DEF CleanupNamespaceTokenTimers, Crash, EntryOK
<1>6. CASE NoTimerStep
  BY <1>6, NoTimerStepKeeps DEF EntryOK
<1> QED
  BY <1>1, <1>2, <1>3, <1>4, <1>5, <1>6 DEF Next, LockedStep, Environment, NoTimerStep

-----------------------------------------------------------------------------
(* What the worker has settled.                                            *)

\* Nothing has happened since the worker last took the CR off the queue, or
\* since it last finished, that is not queued.
Quiet == ~queued /\ crState = "present" /\ main \in {"idle", "running"}

\* What the CR says of u has been put into effect.
Settled(u) ==
  extra[u] = "none" =>
    /\ spec[u] # None => spec[u].life # "bad"
    /\ spec[u] # None /\ spec[u].on =>
         /\ secret[u] # None /\ registered[u] # None
         /\ secret[u].life = NormalLifetime(spec[u].life)
         /\ secret[u].renew = spec[u].renew
    /\ spec[u] = None \/ ~spec[u].on => registered[u] = None \/ u \in left
    /\ secret[u] # None /\ Armed(u) =>
         spec[u] # None /\ spec[u].on /\ spec[u].renew /\ spec[u].life # "none"

\* The running call is done with u.
Handled(u) ==
  IF call.sweep THEN call.users[u] # None \/ u \notin call.todo
  ELSE call.users[u] # None /\ u \notin call.todo

\* While nothing is queued, a running call works on the CR as it is; what the
\* worker is done with is settled, and everything is when it is idle.
SettledInv ==
  Quiet =>
    /\ holder # "free" => call.users = spec /\ call.extra = extra
    /\ \A u \in Users : main = "idle" \/ Handled(u) => Settled(u)

\* A user is as settled as before if nothing of the user's has changed, but for
\* a timer stopped or a token taken away on purpose.
LEMMA StillSettled ==
  ASSUME NEW u \in Users, Settled(u), UNCHANGED <<spec, extra>>,
         secret'[u] = secret[u], registered'[u] = registered[u],
         u \in left => u \in left', Armed(u)' => Armed(u)
  PROVE  Settled(u)'
BY DEF Settled

\* A timer that was not touched, or is gone, was armed if it is.
LEMMA StillArmed ==
  ASSUME TypeOK, NEW u \in Users, Armed(u)', entry'[u] = None \/ TimerUntouched(u)
  PROVE  Armed(u) /\ TimerUntouched(u)
BY DEF Armed, TimerUntouched

\* Firing and calling back arm no timer.
LEMMA TimerStepArmsNone ==
  ASSUME TypeOK, EntryOK, NEW t \in TimerIds, TimerFires(t) \/ TimerCallback(t),
         NEW u \in Users, Armed(u)'
  PROVE  Armed(u)
<1>1. entry'[u] = entry[u] /\ entry[u] \in TimerIds /\ timers'[entry[u]].st = "armed"
      /\ entry[u] # None
  BY TimerStep DEF Armed, TypeOK
<1>2. entry[u] # t
  BY <1>1, TimerStep
<1> QED BY <1>1, <1>2, TimerStep DEF Armed

\* If nothing is queued after a step within a call, nothing was before; if that
\* step ends the call with an error, it was the renewal goroutine's, and the
\* worker is idle.
LEMMA QuietBefore ==
  ASSUME TypeInv, CallInv, call.phase # "idle", Quiet', UNCHANGED crState
  PROVE  /\ queued' = (queued \/ queued') /\ UNCHANGED main => Quiet
         /\ Return(holder, TRUE) => Quiet /\ main = "idle" /\ holder = "renewal"
         /\ Return(holder, FALSE) => Quiet
<1>1. queued' = (queued \/ queued') /\ UNCHANGED main => Quiet
  BY DEF Quiet, TypeInv, TypeOK
<1>2. Return(holder, TRUE) => Quiet /\ main = "idle" /\ holder = "renewal"
  BY LockHeld DEF Quiet, Return, TypeInv, TypeOK, CallInv, LockOK
<1>3. Return(holder, FALSE) => Quiet
  BY LockHeld DEF Quiet, Return, TypeInv, TypeOK, CallInv, LockOK
<1> QED BY <1>1, <1>2, <1>3

\* reconcileLocalUser settles its user, or requeues the CR, or returns to the
\* renewal goroutine with everything as settled as it was.
LEMMA ReconcileLocalUserSettles ==
  ASSUME TypeInv, CallInv, EntryOK, SettledInv,
         NEW u \in Users, ReconcileLocalUser(u)
  PROVE  SettledInv'
<1> DEFINE c == call.users[u]
<1> SUFFICES ASSUME Quiet' PROVE /\ holder' # "free" => call'.users = spec' /\ call'.extra = extra'
                                 /\ \A v \in Users : main' = "idle" \/ Handled(v)' => Settled(v)'
  BY DEF SettledInv
<1>0. call \in Locals /\ TypeOK /\ CallOK
  BY DEF TypeInv, TypeOK, Locals
<1>1. /\ call.phase = "users" /\ ~call.sweep /\ u \in call.todo
      /\ UNCHANGED <<crState, spec, extra>>
  BY DEF ReconcileLocalUser, IssueTokenSecret, KeepToken, cluster
<1>2. c \in LocalUserSpec /\ call.extra[u] = "none"
  BY <1>0, <1>1 DEF TypeOK, CallOK, CallInv, PhaseOK, Locals
<1>3. holder # "free"
  BY <1>1 DEF CallInv, LockOK
<1>4. ASSUME Quiet
      PROVE  /\ call.users = spec /\ call.extra = extra /\ spec[u] = c /\ extra[u] = "none"
             /\ \A v \in Users : main = "idle" \/ Handled(v) => Settled(v)
  BY <1>2, <1>3, <1>4 DEF SettledInv
<1>5. CASE /\ StopTimerIf(ReasonToStopTimer(c), u) /\ Return(holder, TRUE)
           /\ UNCHANGED cluster
  <2>1. Quiet /\ main = "idle" /\ holder' = "free"
    BY <1>1, <1>5, QuietBefore DEF Return
  <2>2. ASSUME NEW v \in Users PROVE Settled(v)'
    <3>1. Armed(v)' => Armed(v)
      BY <1>0, <1>5, StopIfOthers, StillArmed
    <3> QED BY <1>4, <1>5, <2>1, <3>1, StillSettled DEF cluster
  <2> QED BY <2>1, <2>2
<1>6. CASE /\ stopLocalUserTimer(u)
           /\ call' = [call EXCEPT !.phase = "unregister", !.cur = u]
           /\ UNCHANGED <<cluster, holder, main, queued>>
  <2>1. /\ call'.todo = call.todo /\ call'.sweep = call.sweep
        /\ call'.users = call.users /\ call'.extra = call.extra
    BY <1>0, <1>6 DEF Locals
  <2>2. Quiet
    BY <1>1, <1>6 DEF Quiet
  <2>3. ASSUME NEW v \in Users, main' = "idle" \/ Handled(v)' PROVE Settled(v)'
    <3>1. Armed(v)' => Armed(v)
      BY <1>0, <1>6, StopOthers, StillArmed
    <3>2. Settled(v)
      BY <1>4, <1>6, <2>1, <2>2, <2>3 DEF Handled
    <3> QED BY <1>6, <3>1, <3>2, StillSettled DEF cluster
  <2> QED BY <1>1, <1>4, <2>1, <2>2, <2>3
<1>7. CASE /\ c.life # "bad" /\ c.on
           /\ StopTimerIf(ReasonToStopTimer(c), u) /\ IssueTokenSecret(u, c)
  <2> DEFINE id == CHOOSE i \in TokenIds \ UsedIds : TRUE
             new == [id |-> id, renew |-> c.renew, life |-> NormalLifetime(c.life)]
  <2>1. /\ secret' = [secret EXCEPT ![u] = new] /\ left' = left \ {u}
        /\ registered' = registered /\ id \in TokenIds
    BY <1>7 DEF IssueTokenSecret
  <2>2. Return(holder, TRUE)
    BY <1>7 DEF IssueTokenSecret, Quiet
  <2>3. Quiet /\ main = "idle" /\ holder' = "free"
    BY <1>1, <2>2, QuietBefore DEF Return
  <2>4. new \in LocalUserSecret /\ new.life = NormalLifetime(c.life) /\ new.renew = c.renew
    BY <1>2, <2>1 DEF LocalUserSecret, LocalUserSpec, NormalLifetime, Finite
  <2>5. secret'[u] = new /\ new # None
    BY <1>0, <2>1, <2>4, ConstantsAssumption DEF TypeOK
  <2>6. Settled(u)'
    <3>1. registered[u] # None /\ c # None
      BY <1>2, <1>4, <1>7, <2>3, ConstantsAssumption DEF Settled
    <3>2. Armed(u)' => c.renew /\ c.life # "none"
      BY <1>0, <1>7, StopIfOthers DEF Armed, ReasonToStopTimer
    <3> HIDE DEF new
    <3> QED BY <1>1, <1>4, <1>7, <2>1, <2>3, <2>4, <2>5, <3>1, <3>2 DEF Settled
  <2>7. ASSUME NEW v \in Users \ {u} PROVE Settled(v)'
    <3>1. Armed(v)' => Armed(v)
      BY <1>0, <1>7, StopIfOthers, StillArmed
    <3>2. secret'[v] = secret[v] /\ (v \in left => v \in left')
      BY <1>0, <2>1 DEF TypeOK
    <3> QED BY <1>1, <1>4, <2>1, <2>3, <3>1, <3>2, StillSettled
  <2> QED BY <2>3, <2>6, <2>7
<1>8. CASE c.life # "bad" /\ c.on /\ ~DeleteAndCreateNewToken(u, c) /\ KeepToken(u, c)
  <2>1. /\ secret[u] # None /\ secret[u] \in LocalUserSecret /\ registered[u] # None
        /\ secret[u].life = NormalLifetime(c.life)
        /\ secret' = [secret EXCEPT ![u] = [secret[u] EXCEPT !.renew = c.renew]]
        /\ registered' = registered /\ left' = left
    BY <1>0, <1>8 DEF DeleteAndCreateNewToken, KeepToken, TypeOK
  <2>2. /\ secret'[u].life = NormalLifetime(c.life) /\ secret'[u].renew = c.renew
        /\ secret'[u] # None /\ \A v \in Users \ {u} : secret'[v] = secret[v]
    <3>1. secret'[u] = [secret[u] EXCEPT !.renew = c.renew]
      BY <1>0, <2>1 DEF TypeOK
    <3>2. secret'[u] \in LocalUserSecret
      BY <1>2, <2>1, <3>1 DEF LocalUserSecret, LocalUserSpec
    <3>3. secret'[u].life = NormalLifetime(c.life) /\ secret'[u].renew = c.renew
      BY <2>1, <3>1 DEF LocalUserSecret
    <3> QED BY <1>0, <2>1, <3>2, <3>3, ConstantsAssumption DEF TypeOK
  <2>3. /\ Armed(u)' => c.renew /\ c.life # "none"
        /\ \A v \in Users \ {u} : Armed(v)' => Armed(v)
    <3>1. CASE StopTimerIf(ReasonToStopTimer(c), u)
      <4>1. Armed(u)' => c.renew /\ c.life # "none"
        BY <1>0, <3>1, StopIfOthers DEF Armed, ReasonToStopTimer
      <4> QED BY <1>0, <3>1, <4>1, StopIfOthers, StillArmed
    <3>2. CASE c.renew /\ Finite(c.life) /\ startOrRestartLocalUserTimer(u, secret[u].id)
      <4>1. secret[u].id \in TokenIds
        BY <2>1 DEF LocalUserSecret
      <4>2. c.life # "none"
        BY <3>2 DEF Finite
      <4> QED BY <1>0, <3>2, <4>1, <4>2, StartOthers, StillArmed
    <3> QED BY <1>8, <3>1, <3>2 DEF KeepToken
  <2>4. Quiet /\ (\A v \in Users \ {u} : main' = "idle" \/ Handled(v)' => main = "idle" \/ Handled(v))
    <3>1. CASE Return(holder, TRUE)
      BY <1>1, <3>1, QuietBefore
    <3>2. CASE ~Return(holder, TRUE)
      <4>1. /\ call' = [call EXCEPT !.todo = @ \ {u}] /\ UNCHANGED <<holder, main>>
            /\ queued' = (queued \/ secret' # secret)
        BY <1>8, <3>2 DEF KeepToken
      <4>2. Quiet
        BY <1>1, <4>1 DEF Quiet
      <4>3. /\ call'.todo = call.todo \ {u} /\ call'.sweep = call.sweep
            /\ call'.users = call.users
        BY <1>0, <4>1 DEF Locals
      <4> QED BY <4>1, <4>2, <4>3 DEF Handled
    <3> QED BY <3>1, <3>2
  <2>5. ASSUME NEW v \in Users \ {u}, main' = "idle" \/ Handled(v)' PROVE Settled(v)'
    BY <1>1, <1>4, <2>1, <2>2, <2>3, <2>4, <2>5, StillSettled
  <2>6. Settled(u)'
    <3>1. c # None /\ spec'[u] = c /\ extra'[u] = "none"
      BY <1>1, <1>2, <1>4, <2>4, ConstantsAssumption
    <3> QED BY <1>8, <2>1, <2>2, <2>3, <3>1 DEF Settled
  <2>7. holder' # "free" => call'.users = spec' /\ call'.extra = extra'
    <3>1. CASE Return(holder, TRUE)
      BY <3>1 DEF Return
    <3>2. CASE ~Return(holder, TRUE)
      <4>1. call' = [call EXCEPT !.todo = @ \ {u}]
        BY <1>8, <3>2 DEF KeepToken
      <4>2. call'.users = call.users /\ call'.extra = call.extra
        BY <1>0, <4>1 DEF Locals
      <4> QED BY <1>1, <1>4, <2>4, <4>2
    <3> QED BY <3>1, <3>2
  <2> QED BY <2>5, <2>6, <2>7
<1> QED BY <1>5, <1>6, <1>7, <1>8 DEF ReconcileLocalUser

\* cleanupLocalUser settles its user, or requeues the CR, or returns to the
\* renewal goroutine.
LEMMA CleanupLocalUserSettles ==
  ASSUME TypeInv, CallInv, SettledInv, CleanupLocalUserToken \/ CleanupLocalUserSecret
  PROVE  SettledInv'
<1>d. PICK u : u = call.cur
  OBVIOUS
<1> SUFFICES ASSUME Quiet' PROVE /\ holder' # "free" => call'.users = spec' /\ call'.extra = extra'
                                 /\ \A v \in Users : main' = "idle" \/ Handled(v)' => Settled(v)'
  BY DEF SettledInv
<1>0. call \in Locals /\ TypeOK /\ CallOK
  BY DEF TypeInv, TypeOK, Locals
<1>1. /\ call.phase \in {"unregister", "delete"} /\ u \in Users
      /\ UNCHANGED <<crState, spec, extra, timers, entry>>
  BY <1>0, <1>d DEF CleanupLocalUserToken, CleanupLocalUserSecret, CallOK
<1>2. call.users[u] = None \/ (~call.users[u].on /\ call.users[u].life # "bad")
  BY <1>1, <1>d DEF CallInv, PhaseOK
<1>3. holder # "free"
  BY <1>1 DEF CallInv, LockOK
<1>4. ASSUME Quiet
      PROVE  /\ call.users = spec /\ call.extra = extra
             /\ \A v \in Users : main = "idle" \/ Handled(v) => Settled(v)
  BY <1>3, <1>4 DEF SettledInv
<1>a. ASSUME NEW v \in Users PROVE Armed(v)' <=> Armed(v)
  BY <1>1 DEF Armed
<1>5. CASE Return(holder, TRUE)
  <2>1. Quiet /\ main = "idle" /\ holder' = "free"
    BY <1>1, <1>5, QuietBefore DEF Return
  <2>2. /\ \A v \in Users \ {u} : secret'[v] = secret[v] /\ registered'[v] = registered[v]
        /\ secret'[u] \in {secret[u], None} /\ registered'[u] \in {registered[u], None}
        /\ left \subseteq left'
    BY <1>0, <1>1, <1>d DEF CleanupLocalUserToken, CleanupLocalUserSecret, TypeOK
  <2>3. ASSUME NEW v \in Users \ {u} PROVE Settled(v)'
    BY <1>1, <1>4, <1>a, <2>1, <2>2, StillSettled
  <2>4. Settled(u)'
    BY <1>1, <1>2, <1>4, <1>a, <2>1, <2>2 DEF Settled
  <2> QED BY <2>1, <2>3, <2>4
<1>6. CASE ~Return(holder, TRUE)
  <2> DEFINE gone == IF call.extra[u] = "apiKey" THEN registered
                     ELSE [registered EXCEPT ![u] = None]
  <2>1. CleanupLocalUserToken
    BY <1>6 DEF CleanupLocalUserSecret, Quiet
  <2>2. /\ registered' = gone /\ secret' = secret /\ left' = left
        /\ queued' = (queued \/ registered' # registered)
        /\ call' = IF secret[u] = None THEN NextUser ELSE [call EXCEPT !.phase = "delete"]
        /\ UNCHANGED <<holder, main>>
    BY <1>6, <2>1, <1>d DEF CleanupLocalUserToken
  <2>3. Quiet /\ registered' = registered
    BY <1>1, <2>2 DEF Quiet
  <2>4. CASE secret[u] = None
    <3>1. /\ call'.todo = call.todo \ {u} /\ call'.sweep = call.sweep
          /\ call'.users = call.users /\ call'.extra = call.extra
      BY <2>2, <2>4, <1>d, NextUserCall
    <3>2. extra[u] = "none" => registered[u] = None
      BY <1>0, <1>1, <1>4, <2>2, <2>3 DEF TypeOK
    <3>3. Settled(u)'
      BY <1>1, <1>2, <1>4, <2>2, <2>3, <2>4, <3>2 DEF Settled
    <3>4. ASSUME NEW v \in Users \ {u}, main' = "idle" \/ Handled(v)' PROVE Settled(v)'
      <4>1. Settled(v)
        BY <1>4, <2>2, <2>3, <3>1, <3>4 DEF Handled
      <4> QED BY <1>1, <1>a, <2>2, <2>3, <4>1, StillSettled
    <3> QED BY <1>1, <1>4, <2>3, <3>1, <3>3, <3>4
  <2>5. CASE secret[u] # None
    <3>1. /\ call'.todo = call.todo /\ call'.sweep = call.sweep
          /\ call'.users = call.users /\ call'.extra = call.extra
      BY <1>0, <2>2, <2>5 DEF Locals
    <3>2. ASSUME NEW v \in Users, main' = "idle" \/ Handled(v)' PROVE Settled(v)'
      <4>1. Settled(v)
        BY <1>4, <2>2, <2>3, <3>1, <3>2 DEF Handled
      <4> QED BY <1>1, <1>a, <2>2, <2>3, <4>1, StillSettled
    <3> QED BY <1>1, <1>4, <2>3, <3>1, <3>2
  <2> QED BY <2>4, <2>5
<1> QED BY <1>5, <1>6

\* Every step keeps what is settled settled, or queues the CR.
LEMMA NextSettled ==
  TypeInv /\ OrphanInv /\ CallInv /\ EntryOK /\ SettledInv /\ [Next]_vars => SettledInv'
<1> SUFFICES ASSUME TypeInv, OrphanInv, CallInv, EntryOK, SettledInv, [Next]_vars
             PROVE  SettledInv'
  OBVIOUS
<1>0. call \in Locals /\ TypeOK /\ CallOK
  BY DEF TypeInv, TypeOK, Locals
<1>q. ASSUME ~Quiet' PROVE SettledInv'
  BY <1>q DEF SettledInv
<1>u. ASSUME UNCHANGED <<crState, spec, extra, secret, registered, left, holder, call, main, queued>>,
             \A v \in Users : Armed(v)' => Armed(v)
      PROVE  SettledInv'
  <2>1. Quiet' => Quiet
    BY <1>u DEF Quiet
  <2>2. ASSUME NEW v \in Users, Settled(v) PROVE Settled(v)'
    BY <1>u, <2>2, StillSettled
  <2>3. ASSUME NEW v \in Users PROVE Handled(v)' <=> Handled(v)
    BY <1>u DEF Handled
  <2> QED BY <1>u, <2>1, <2>2, <2>3 DEF SettledInv
<1>1. ASSUME NEW u \in Users, ReconcileLocalUser(u) PROVE SettledInv'
  BY <1>1, ReconcileLocalUserSettles
<1>2. CASE IssueTokenRegister
  <2> DEFINE u == call.cur
  <2> SUFFICES ASSUME Quiet' PROVE SettledInv'
    BY <1>q
  <2>1. /\ call.phase = "register" /\ u \in Users /\ call.id \in TokenIds
        /\ UNCHANGED <<crState, spec, extra, secret, left>>
    BY <1>2, <1>0 DEF IssueTokenRegister, CallOK
  <2>2. /\ Return(holder, TRUE) /\ UNCHANGED <<timers, entry>>
        /\ registered' \in {registered, [registered EXCEPT ![u] = call.id]}
    BY <1>2 DEF IssueTokenRegister, Quiet
  <2>3. Quiet /\ main = "idle" /\ holder = "renewal" /\ holder' = "free"
    BY <2>1, <2>2, QuietBefore DEF Return
  <2>4. call.users = spec /\ \A v \in Users : Settled(v)
    BY <2>3 DEF SettledInv
  <2>5. spec[u].on /\ spec[u] # None
    BY <2>1, <2>4 DEF CallInv, PhaseOK
  <2>6. ASSUME NEW v \in Users PROVE Settled(v)'
    <3>1. registered[v] # None => registered'[v] # None
      BY <1>0, <2>1, <2>2, ConstantsAssumption DEF TypeOK
    <3>2. v # u => registered'[v] = registered[v]
      BY <1>0, <2>2 DEF TypeOK
    <3>3. Armed(v)' <=> Armed(v)
      BY <2>2 DEF Armed
    <3>4. CASE v = u
      BY <2>1, <2>4, <2>5, <3>1, <3>3, <3>4 DEF Settled
    <3>5. CASE v # u
      BY <2>1, <2>4, <3>2, <3>3, <3>5, StillSettled
    <3> QED BY <3>4, <3>5
  <2> QED BY <2>3, <2>6 DEF SettledInv
<1>3. CASE CleanupLocalUserToken \/ CleanupLocalUserSecret
  BY <1>3, CleanupLocalUserSettles
<1>4. CASE CleanupLocalUsersList
  <2> SUFFICES ASSUME Quiet' PROVE SettledInv'
    BY <1>q
  <2>0. /\ call.phase = "users" /\ ~call.sweep /\ call.todo = {}
        /\ UNCHANGED <<crState, spec, extra, secret, registered, left, timers, entry>>
    BY <1>4 DEF CleanupLocalUsersList, cluster
  <2>a. ASSUME NEW v \in Users PROVE Armed(v)' <=> Armed(v)
    BY <2>0 DEF Armed
  <2>1. CASE Return(holder, TRUE)
    <3>1. Quiet /\ main = "idle" /\ holder' = "free"
      BY <2>0, <2>1, QuietBefore DEF Return
    <3>2. ASSUME NEW v \in Users PROVE Settled(v)'
      BY <2>0, <2>a, <3>1, StillSettled DEF SettledInv
    <3> QED BY <3>1, <3>2 DEF SettledInv
  <2>2. CASE ~Return(holder, TRUE)
    <3>1. /\ call' = [call EXCEPT !.sweep = TRUE,
                 !.todo = {u \in Users : secret[u] # None /\ call.users[u] = None}]
          /\ UNCHANGED <<holder, main, queued>>
      BY <1>4, <2>2 DEF CleanupLocalUsersList
    <3>2. /\ call'.sweep /\ call'.users = call.users /\ call'.extra = call.extra
          /\ call'.todo = {u \in Users : secret[u] # None /\ call.users[u] = None}
      BY <1>0, <3>1 DEF Locals
    <3>3. Quiet /\ holder # "free"
      BY <2>0, <3>1 DEF Quiet, CallInv, LockOK
    <3>4. /\ call.users = spec /\ call.extra = extra
          /\ \A v \in Users : main = "idle" \/ Handled(v) => Settled(v)
      BY <3>3 DEF SettledInv
    <3>5. ASSUME NEW v \in Users, main' = "idle" \/ Handled(v)' PROVE Settled(v)'
      <4>1. CASE main = "idle" \/ call.users[v] # None
        <5>1. Settled(v)
          BY <2>0, <3>4, <4>1 DEF Handled
        <5> QED BY <2>0, <2>a, <5>1, StillSettled
      <4>2. CASE main # "idle" /\ call.users[v] = None
        <5>1. secret[v] = None /\ spec[v] = None
          BY <3>1, <3>2, <3>4, <3>5, <4>2 DEF Handled
        <5>2. registered[v] = None \/ v \in left
          BY <5>1 DEF OrphanInv, NoOrphanToken
        <5> QED BY <2>0, <5>1, <5>2 DEF Settled
      <4> QED BY <4>1, <4>2
    <3> QED BY <2>0, <3>2, <3>4, <3>5 DEF SettledInv
  <2> QED BY <2>1, <2>2
<1>5. ASSUME NEW u \in Users, CleanupLocalUsersNext(u) PROVE SettledInv'
  <2> SUFFICES ASSUME Quiet' PROVE SettledInv'
    BY <1>q
  <2>1. /\ stopLocalUserTimer(u) /\ call.phase = "users"
        /\ UNCHANGED <<crState, spec, extra, secret, registered, left, holder, main, queued>>
    BY <1>5 DEF CleanupLocalUsersNext, cluster
  <2>2. /\ call'.todo = call.todo /\ call'.sweep = call.sweep
        /\ call'.users = call.users /\ call'.extra = call.extra
    BY <1>0, <1>5 DEF CleanupLocalUsersNext, Locals
  <2>3. Quiet
    BY <2>1 DEF Quiet
  <2>4. ASSUME NEW v \in Users, main' = "idle" \/ Handled(v)' PROVE Settled(v)'
    <3>1. Armed(v)' => Armed(v)
      BY <1>0, <2>1, StopOthers, StillArmed
    <3>2. Settled(v)
      BY <2>1, <2>2, <2>3, <2>4 DEF Handled, SettledInv
    <3> QED BY <2>1, <3>1, <3>2, StillSettled
  <2> QED BY <2>1, <2>2, <2>3, <2>4 DEF SettledInv
<1>6. CASE ReconcileLocalUsersEnd
  <2> SUFFICES ASSUME Quiet' PROVE SettledInv'
    BY <1>q
  <2>1. /\ call.phase = "users" /\ call.sweep /\ call.todo = {} /\ Return(holder, FALSE)
        /\ UNCHANGED <<crState, spec, extra, secret, registered, left, timers, entry>>
    BY <1>6 DEF ReconcileLocalUsersEnd, cluster
  <2>2. Quiet /\ holder' = "free"
    BY <2>1, QuietBefore DEF Return
  <2>3. ASSUME NEW v \in Users PROVE Settled(v)'
    <3>1. Settled(v)
      BY <2>1, <2>2 DEF SettledInv, Handled
    <3>2. Armed(v)' <=> Armed(v)
      BY <2>1 DEF Armed
    <3> QED BY <2>1, <3>1, <3>2, StillSettled
  <2> QED BY <2>2, <2>3 DEF SettledInv
<1>7. ASSUME NEW g \in {"main", "renewal"}, ReconcileLocalUsersBegin(g) PROVE SettledInv'
  <2> SUFFICES ASSUME Quiet' PROVE SettledInv'
    BY <1>q
  <2>0. /\ holder = "free" /\ (g = "main" => main = "localUsers")
        /\ UNCHANGED <<crState, spec, extra, secret, registered, left, timers, entry>>
    BY <1>7 DEF ReconcileLocalUsersBegin, cluster
  <2>a. ASSUME NEW v \in Users PROVE Armed(v)' <=> Armed(v)
    BY <2>0 DEF Armed
  <2>1. CASE Return(g, FALSE) \/ Return(g, TRUE)
    <3>1. g = "renewal" /\ UNCHANGED <<main, queued>> /\ holder' = "free"
      BY <1>7, <2>0, <2>1 DEF ReconcileLocalUsersBegin, Return, Quiet, TypeInv, TypeOK
    <3>2. Quiet /\ main = "idle"
      BY <2>0, <3>1 DEF Quiet, CallInv, LockOK
    <3>3. ASSUME NEW v \in Users PROVE Settled(v)'
      BY <2>0, <2>a, <3>2, StillSettled DEF SettledInv
    <3> QED BY <3>1, <3>3 DEF SettledInv
  <2>2. CASE ~Return(g, FALSE) /\ ~Return(g, TRUE)
    <3>1. /\ call' = [phase |-> "users", cur |-> None, id |-> None,
                      sweep |-> FALSE, users |-> spec, extra |-> extra,
                      todo |-> {u \in Users : spec[u] # None /\ extra[u] = "none"}]
          /\ main' = IF g = "main" THEN "running" ELSE main
          /\ queued' = queued
      BY <1>7, <2>2 DEF ReconcileLocalUsersBegin
    <3>2. ASSUME NEW v \in Users, main' = "idle" \/ Handled(v)' PROVE Settled(v)'
      <4>1. CASE main' = "idle"
        <5>1. Quiet /\ main = "idle"
          BY <2>0, <3>1, <4>1 DEF Quiet
        <5> QED BY <2>0, <2>a, <5>1, StillSettled DEF SettledInv
      <4>2. CASE Handled(v)'
        <5>1. extra[v] # "none"
          BY <3>1, <4>2 DEF Handled
        <5> QED BY <2>0, <5>1 DEF Settled
      <4> QED BY <3>2, <4>1, <4>2
    <3> QED BY <2>0, <3>1, <3>2 DEF SettledInv
  <2> QED BY <2>1, <2>2
<1>8. CASE Reconcile
  BY <1>8, <1>q DEF Reconcile, Quiet
<1>9. CASE CleanupNamespaceTokenTimers \/ RemoveDeletionFinalizer
  BY <1>9, <1>q DEF CleanupNamespaceTokenTimers, RemoveDeletionFinalizer, Quiet
<1>10. CASE \/ \E u \in Users : EditCR(u) \/ ExternalDelete(u)
            \/ ExternalDeleteArgoCDSecret \/ DeleteCR \/ CreateCR \/ Resync
  BY <1>10, <1>q DEF EditCR, ExternalDelete, ExternalDeleteArgoCDSecret, DeleteCR,
     CreateCR, Edited, Resync, Quiet
<1>11. CASE Crash
  BY <1>11, <1>q DEF Crash, Quiet, cluster
<1>12. ASSUME NEW t \in TimerIds, TimerFires(t) \/ TimerCallback(t) PROVE SettledInv'
  <2>1. \A v \in Users : Armed(v)' => Armed(v)
    BY <1>0, <1>12, TimerStepArmsNone
  <2> QED BY <1>12, <1>u, <2>1 DEF TimerFires, TimerCallback, cluster
<1>13. CASE (\E id \in TokenIds : Expire(id)) \/ UNCHANGED vars
  <2>1. \A v \in Users : Armed(v)' => Armed(v)
    BY <1>13 DEF Expire, vars, memory, Armed
  <2> QED BY <1>13, <1>u, <2>1 DEF Expire, vars, cluster, memory
<1> QED
  BY <1>1, <1>2, <1>3, <1>4, <1>5, <1>6, <1>7, <1>8, <1>9, <1>10, <1>11, <1>12, <1>13
     DEF Next, LockedStep, Environment

\* The inductive invariant behind the next three theorems.
AllSettledInv == TypeInv /\ OrphanInv /\ CallInv /\ EntryOK /\ SettledInv

\* It holds of every behaviour.
LEMMA AlwaysSettled == Spec => []AllSettledInv
<1>1. Init => AllSettledInv
  <2> SUFFICES ASSUME Init PROVE AllSettledInv
    OBVIOUS
  <2>1. OrphanInv
    BY DEF Init, NoCall, OrphanInv, NoOrphanToken, OrderOK
  <2>2. CallInv
    BY DEF Init, NoCall, CallInv, LockOK, PhaseOK
  <2>3. EntryOK /\ SettledInv
    BY DEF Init, EntryOK, SettledInv, Quiet
  <2> QED BY InitType, <2>1, <2>2, <2>3 DEF AllSettledInv
<1>2. AllSettledInv /\ [Next]_vars => AllSettledInv'
  BY NextType, NextOrphan, NextCall, NextEntry, NextSettled DEF AllSettledInv
<1> QED BY <1>1, <1>2, PTL DEF Spec

\* At rest the worker is idle with nothing queued, so every user is settled.
LEMMA SettledAtRest ==
  ASSUME AllSettledInv, Quiescent, crState = "present"
  PROVE  \A u \in Users : Settled(u)
BY DEF AllSettledInv, SettledInv, Quiescent, Quiet

\* However calls of the worker and of renewal goroutines interleave with edits,
\* deletions, failing calls and crashes, once nothing is left to do every user
\* the CR asks for has a Secret with the lifetime and autoRenew value of the CR,
\* and a token in argocd-secret.
THEOREM IssuedAtRest == Spec => []IssuedWhenQuiescent
<1>1. AllSettledInv => IssuedWhenQuiescent
  BY SettledAtRest DEF IssuedWhenQuiescent, Wanted, Settled
<1> QED BY <1>1, AlwaysSettled, PTL

\* Once nothing is left to do, a user disabled in or removed from the CR has no
\* token Argo CD would accept, unless it was left there on purpose.
THEOREM RevokedAtRest == Spec => []RevokedWhenQuiescent
<1>1. AllSettledInv => RevokedWhenQuiescent
  BY SettledAtRest DEF RevokedWhenQuiescent, Settled
<1> QED BY <1>1, AlwaysSettled, PTL

\* Once nothing is left to do, no timer is armed for the Secret of a user whom
\* reconcileLocalUser has a reason to stop it for, or who is not in the CR.
THEOREM TimersAskedForAtRest == Spec => []TimerOnlyIfAskedFor
<1>1. AllSettledInv => TimerOnlyIfAskedFor
  BY SettledAtRest DEF TimerOnlyIfAskedFor, Wanted, Settled
<1> QED BY <1>1, AlwaysSettled, PTL

-----------------------------------------------------------------------------
(* What holds as long as no call fails.                                    *)

\* issueToken has given u a new Secret, and is about to register its token.
Registering(u) == call.phase = "register" /\ call.cur = u

\* Without argocd-secret no token is registered; between the writes of
\* issueToken the Secret has the token about to be registered; otherwise, until
\* a call fails, a user's Secret has the token that is registered.
SyncInv ==
  /\ ~argocdSecret => \A u \in Users : registered[u] = None
  /\ call.phase = "register" /\ secret[call.cur] # None => secret[call.cur].id = call.id
  /\ faults = 0 =>
       \A u \in Users :
         secret[u] # None /\ registered[u] # None /\ ~Registering(u)
           => registered[u] = secret[u].id

\* What a user has may go away at any time, and no step but those of issueToken
\* puts anything in its place.
Dwindles ==
  /\ \A v \in Users : secret'[v] \in {secret[v], None}
  /\ \A v \in Users : registered'[v] \in {registered[v], None}
  /\ \/ call' = call
     \/ call'.phase # "register" /\ (call.phase # "register" \/ faults' # 0)
  /\ faults' = 0 => faults = 0

\* Bounds are used up and never given back.
LEMMA FaultsGrow ==
  ASSUME TypeOK
  PROVE  /\ UNCHANGED bounds => (faults' = 0 => faults = 0)
         /\ Faulty => faults' # 0
BY DEF TypeOK, Faulty, bounds

\* A token issued gets an id that nothing names yet, and the others keep theirs.
LEMMA IssueTokenSecretEffect ==
  ASSUME TypeInv, NEW u \in Users, NEW c \in LocalUserSpec, IssueTokenSecret(u, c)
  PROVE  \E id \in TokenIds :
           /\ secret'[u].id = id /\ secret'[u].renew = c.renew
           /\ secret'[u].life = NormalLifetime(c.life)
           /\ \A v \in Users \ {u} : secret'[v] = secret[v]
           /\ registered' = registered /\ argocdSecret' = argocdSecret
           /\ \A v \in Users : secret[v] # None /\ secret[v].id \in expired
                                => secret[v].id \in expired'
           /\ \/ /\ call' = [call EXCEPT !.phase = "register", !.cur = u, !.id = id]
                 /\ UNCHANGED bounds
              \/ Faulty /\ Return(holder, TRUE)
<1> DEFINE i == CHOOSE j \in TokenIds \ UsedIds : TRUE
           new == [id |-> i, renew |-> c.renew, life |-> NormalLifetime(c.life)]
<1>1. /\ i \in TokenIds /\ secret' = [secret EXCEPT ![u] = new]
      /\ expired' = expired \cap UsedIds
      /\ registered' = registered /\ argocdSecret' = argocdSecret
      /\ \/ /\ call' = [call EXCEPT !.phase = "register", !.cur = u, !.id = i]
            /\ UNCHANGED bounds
         \/ Faulty /\ Return(holder, TRUE)
  BY DEF IssueTokenSecret
<1>2. secret'[u] = new /\ \A v \in Users \ {u} : secret'[v] = secret[v]
  BY <1>1 DEF TypeInv, TypeOK
<1>3. \A v \in Users : secret[v] # None => secret[v].id \in UsedIds
  BY DEF UsedIds
<1>4. new.id = i /\ new.renew = c.renew /\ new.life = NormalLifetime(c.life)
  OBVIOUS
<1> i \in TokenIds
  BY <1>1
<1> HIDE DEF i, new
<1> WITNESS i \in TokenIds
<1> QED BY <1>1, <1>2, <1>3, <1>4

\* A token kept keeps its id and its lifetime.
LEMMA KeepTokenEffect ==
  ASSUME TypeInv, NEW u \in Users, NEW c \in LocalUserSpec, secret[u] # None,
         KeepToken(u, c)
  PROVE  /\ secret[u] \in LocalUserSecret /\ secret'[u] # None
         /\ secret'[u].id = secret[u].id /\ secret'[u].life = secret[u].life
         /\ secret'[u].renew = c.renew
         /\ \A v \in Users \ {u} : secret'[v] = secret[v]
         /\ UNCHANGED <<registered, argocdSecret, expired>>
         /\ \/ call' = [call EXCEPT !.todo = @ \ {u}] /\ UNCHANGED bounds
            \/ Faulty /\ Return(holder, TRUE)
<1>1. /\ secret[u] \in LocalUserSecret
      /\ secret' = [secret EXCEPT ![u] = [secret[u] EXCEPT !.renew = c.renew]]
  BY DEF KeepToken, TypeInv, TypeOK
<1>2. /\ secret'[u] = [secret[u] EXCEPT !.renew = c.renew]
      /\ \A v \in Users \ {u} : secret'[v] = secret[v]
  BY <1>1 DEF TypeInv, TypeOK
<1>3. secret'[u] \in LocalUserSecret
  BY <1>1, <1>2 DEF LocalUserSecret, LocalUserSpec
<1>4. /\ secret'[u].id = secret[u].id /\ secret'[u].life = secret[u].life
      /\ secret'[u].renew = c.renew
  BY <1>1, <1>2 DEF LocalUserSecret
<1> QED BY <1>1, <1>2, <1>3, <1>4, ConstantsAssumption DEF KeepToken

\* reconcileLocalUser either leaves the Secrets, the tokens and the clock alone
\* (and may stop a timer), or issues a token, or keeps the one there is.
LEMMA ReconcileLocalUserCases ==
  ASSUME TypeInv, CallInv, NEW u \in Users, ReconcileLocalUser(u)
  PROVE  LET c == call.users[u] IN
         /\ c \in LocalUserSpec /\ call.phase = "users" /\ ~call.sweep /\ u \in call.todo
         /\ \/ /\ UNCHANGED <<secret, registered, argocdSecret, expired>>
               /\ UNCHANGED bounds \/ Faulty
               /\ \/ StopTimerIf(ReasonToStopTimer(c), u) /\ Return(holder, TRUE)
                  \/ /\ stopLocalUserTimer(u)
                     /\ call' = [call EXCEPT !.phase = "unregister", !.cur = u]
            \/ /\ StopTimerIf(ReasonToStopTimer(c), u) /\ c.on
               /\ IssueTokenSecret(u, c)
            \/ /\ secret[u] # None /\ c.on /\ ~DeleteAndCreateNewToken(u, c)
               /\ KeepToken(u, c)
<1>1. call.users[u] \in LocalUserSpec /\ call.phase = "users" /\ ~call.sweep /\ u \in call.todo
  BY DEF TypeInv, TypeOK, CallOK, ReconcileLocalUser
<1> QED
  BY <1>1 DEF ReconcileLocalUser, DeleteAndCreateNewToken, cluster

\* Steps that only take away, or touch neither Secrets nor tokens.
LEMMA NextDwindles ==
  ASSUME TypeInv, CallInv,
         \/ \E t \in TimerIds : TimerFires(t) \/ TimerCallback(t)
         \/ ReconcileLocalUsersBegin("main") \/ ReconcileLocalUsersBegin("renewal")
         \/ CleanupLocalUserToken \/ CleanupLocalUserSecret \/ CleanupLocalUsersList
         \/ \E u \in Users : CleanupLocalUsersNext(u)
         \/ ReconcileLocalUsersEnd \/ Reconcile \/ CleanupNamespaceTokenTimers
         \/ RemoveDeletionFinalizer \/ Environment \/ UNCHANGED vars
  PROVE  /\ Dwindles /\ expired \subseteq expired'
         /\ SyncInv => (~argocdSecret' => \A v \in Users : registered'[v] = None)
<1>0. call \in Locals /\ TypeOK /\ CallOK
  BY DEF TypeInv, TypeOK, Locals
<1>r. ASSUME NEW g, NEW f, Return(g, f) PROVE call'.phase = "idle"
  BY <1>r DEF Return, NoCall
<1>n. ASSUME call' = NextUser PROVE call'.phase = "users"
  BY <1>n, NextUserCall
<1>1. CASE \/ \E t \in TimerIds : TimerFires(t) \/ TimerCallback(t)
           \/ CleanupNamespaceTokenTimers
           \/ Resync \/ UNCHANGED vars
           \/ \E id \in TokenIds : Expire(id)
  <2>1. UNCHANGED <<secret, registered, argocdSecret, call, faults>>
    BY <1>1 DEF TimerFires, TimerCallback, CleanupNamespaceTokenTimers, Resync, Expire,
       vars, cluster, memory, bounds
  <2>2. expired \subseteq expired'
    BY <1>1 DEF TimerFires, TimerCallback, CleanupNamespaceTokenTimers, Resync, Expire, vars
  <2> QED BY <1>0, <2>1, <2>2 DEF Dwindles, SyncInv
<1>2. ASSUME NEW g \in {"main", "renewal"}, ReconcileLocalUsersBegin(g)
      PROVE  /\ Dwindles /\ expired \subseteq expired'
             /\ SyncInv => (~argocdSecret' => \A v \in Users : registered'[v] = None)
  <2>1. call.phase # "register"
    BY <1>2 DEF ReconcileLocalUsersBegin, CallInv, LockOK
  <2>2. call'.phase # "register"
    <3>1. CASE Return(g, FALSE) \/ Return(g, TRUE)
      BY <1>r, <3>1
    <3>2. CASE ~Return(g, FALSE) /\ ~Return(g, TRUE)
      <4>1. call' = [phase |-> "users", cur |-> None, id |-> None,
                     sweep |-> FALSE, users |-> spec, extra |-> extra,
                     todo |-> {u \in Users : spec[u] # None /\ extra[u] = "none"}]
        BY <1>2, <3>2 DEF ReconcileLocalUsersBegin
      <4> QED BY <4>1
    <3> QED BY <3>1, <3>2
  <2>3. UNCHANGED cluster /\ UNCHANGED expired /\ (UNCHANGED bounds \/ Faulty)
    BY <1>2 DEF ReconcileLocalUsersBegin
  <2> QED BY <1>0, <2>1, <2>2, <2>3, FaultsGrow DEF Dwindles, cluster, SyncInv
<1>3. CASE CleanupLocalUserToken
  <2>1. call.phase # "register" /\ call.cur \in Users
    BY <1>0, <1>3 DEF CleanupLocalUserToken, CallOK
  <2>2. call'.phase # "register"
    <3>1. CASE call' = [call EXCEPT !.phase = "delete"]
      BY <1>0, <3>1 DEF Locals
    <3> QED BY <1>3, <1>r, <1>n, <3>1 DEF CleanupLocalUserToken
  <2>3. /\ secret' = secret /\ argocdSecret' = argocdSecret /\ expired' = expired
        /\ registered' = registered \/ registered' = [registered EXCEPT ![call.cur] = None]
        /\ UNCHANGED bounds \/ Faulty
    BY <1>3 DEF CleanupLocalUserToken
  <2>4. \A v \in Users : registered'[v] \in {registered[v], None}
    BY <1>0, <2>1, <2>3 DEF TypeOK
  <2> QED BY <1>0, <2>1, <2>2, <2>3, <2>4, FaultsGrow DEF Dwindles, SyncInv
<1>4. CASE CleanupLocalUserSecret
  <2>1. call.phase # "register" /\ call.cur \in Users /\ call'.phase # "register"
    BY <1>0, <1>4, <1>r, <1>n DEF CleanupLocalUserSecret, CallOK
  <2>2. /\ UNCHANGED <<registered, argocdSecret, expired>>
        /\ secret' = secret \/ secret' = [secret EXCEPT ![call.cur] = None]
        /\ UNCHANGED bounds \/ Faulty
    BY <1>4 DEF CleanupLocalUserSecret
  <2>3. \A v \in Users : secret'[v] \in {secret[v], None}
    BY <1>0, <2>1, <2>2 DEF TypeOK
  <2> QED BY <1>0, <2>1, <2>2, <2>3, FaultsGrow DEF Dwindles, SyncInv
<1>5. CASE CleanupLocalUsersList \/ ReconcileLocalUsersEnd
            \/ \E u \in Users : CleanupLocalUsersNext(u)
  <2>1. call.phase # "register"
    BY <1>5 DEF CleanupLocalUsersList, ReconcileLocalUsersEnd, CleanupLocalUsersNext
  <2>2. call'.phase # "register"
    <3>1. CASE \E u \in Users : call' = [call EXCEPT !.phase = "unregister", !.cur = u]
      BY <1>0, <3>1 DEF Locals
    <3>2. CASE call' = [call EXCEPT !.sweep = TRUE,
                   !.todo = {u \in Users : secret[u] # None /\ call.users[u] = None}]
      BY <1>0, <2>1, <3>2 DEF Locals
    <3> QED
      BY <1>5, <1>r, <3>1, <3>2
         DEF CleanupLocalUsersList, ReconcileLocalUsersEnd, CleanupLocalUsersNext
  <2>3. UNCHANGED cluster /\ UNCHANGED expired /\ (UNCHANGED bounds \/ Faulty)
    BY <1>5 DEF CleanupLocalUsersList, ReconcileLocalUsersEnd, CleanupLocalUsersNext
  <2> QED BY <1>0, <2>1, <2>2, <2>3, FaultsGrow DEF Dwindles, cluster, SyncInv
<1>6. CASE Reconcile
  <2>1. /\ UNCHANGED <<secret, registered, expired, call>>
        /\ argocdSecret' = argocdSecret \/ argocdSecret'
        /\ UNCHANGED bounds \/ Faulty
    BY <1>6 DEF Reconcile
  <2> QED BY <1>0, <2>1, FaultsGrow DEF Dwindles, SyncInv
<1>7. CASE RemoveDeletionFinalizer
  BY <1>0, <1>7, FaultsGrow DEF RemoveDeletionFinalizer, Dwindles, SyncInv, TypeOK
<1>8. CASE \/ \E u \in Users : EditCR(u)
           \/ DeleteCR \/ CreateCR
  BY <1>0, <1>8 DEF EditCR, DeleteCR, CreateCR, Edited, Dwindles, SyncInv
<1>9. ASSUME NEW u \in Users, ExternalDelete(u)
      PROVE  /\ Dwindles /\ expired \subseteq expired'
             /\ SyncInv => (~argocdSecret' => \A v \in Users : registered'[v] = None)
  BY <1>0, <1>9 DEF ExternalDelete, Dwindles, SyncInv, TypeOK
<1>10. CASE ExternalDeleteArgoCDSecret
  BY <1>0, <1>10 DEF ExternalDeleteArgoCDSecret, Dwindles, SyncInv
<1>11. CASE Crash
  <2>1. call'.phase = "idle" /\ faults' # 0 /\ UNCHANGED cluster /\ expired' = expired
    BY <1>0, <1>11, FaultsGrow DEF Crash, NoCall
  <2> QED BY <2>1 DEF Dwindles, cluster, SyncInv
<1> QED
  BY <1>1, <1>2, <1>3, <1>4, <1>5, <1>6, <1>7, <1>8, <1>9, <1>10, <1>11 DEF Environment

\* Every step keeps the Secrets and argocd-secret in step.
LEMMA NextSync == TypeInv /\ CallInv /\ SyncInv /\ [Next]_vars => SyncInv'
<1> SUFFICES ASSUME TypeInv, CallInv, SyncInv, [Next]_vars PROVE SyncInv'
  OBVIOUS
<1>0. call \in Locals /\ TypeOK /\ CallOK
  BY DEF TypeInv, TypeOK, Locals
<1>d. ASSUME Dwindles, ~argocdSecret' => \A v \in Users : registered'[v] = None
      PROVE  SyncInv'
  <2>1. CASE call' = call
    BY <1>0, <1>d, <2>1 DEF Dwindles, SyncInv, Registering, CallOK
  <2>2. CASE call'.phase # "register" /\ (call.phase # "register" \/ faults' # 0)
    BY <1>d, <2>2 DEF Dwindles, SyncInv, Registering
  <2> QED BY <1>d, <2>1, <2>2 DEF Dwindles
<1>r. ASSUME NEW g, NEW f, Return(g, f) PROVE call'.phase = "idle"
  BY <1>r DEF Return, NoCall
<1>1. ASSUME NEW u \in Users, ReconcileLocalUser(u) PROVE SyncInv'
  <2> DEFINE c == call.users[u]
  <2>0. c \in LocalUserSpec /\ call.phase = "users"
    BY <1>1, ReconcileLocalUserCases
  <2>1. CASE /\ UNCHANGED <<secret, registered, argocdSecret>>
             /\ UNCHANGED bounds \/ Faulty
             /\ \/ Return(holder, TRUE)
                \/ call' = [call EXCEPT !.phase = "unregister", !.cur = u]
    <3>1. call'.phase # "register"
      BY <1>0, <1>r, <2>1 DEF Locals
    <3>2. Dwindles
      BY <1>0, <2>0, <2>1, <3>1, FaultsGrow DEF Dwindles
    <3> QED BY <1>d, <2>1, <3>2 DEF SyncInv
  <2>2. CASE IssueTokenSecret(u, c)
    <3>1. PICK id \in TokenIds :
            /\ secret'[u].id = id
            /\ \A v \in Users \ {u} : secret'[v] = secret[v]
            /\ registered' = registered /\ argocdSecret' = argocdSecret
            /\ \/ /\ call' = [call EXCEPT !.phase = "register", !.cur = u, !.id = id]
                  /\ UNCHANGED bounds
               \/ Faulty /\ Return(holder, TRUE)
      BY <2>0, <2>2, IssueTokenSecretEffect
    <3>2. CASE /\ call' = [call EXCEPT !.phase = "register", !.cur = u, !.id = id]
               /\ UNCHANGED bounds
      <4>1. call'.phase = "register" /\ call'.cur = u /\ call'.id = id
        BY <1>0, <3>2 DEF Locals
      <4>2. faults' = 0 => faults = 0
        BY <1>0, <3>2, FaultsGrow
      <4> QED BY <2>0, <3>1, <4>1, <4>2 DEF SyncInv, Registering
    <3>3. CASE Faulty /\ Return(holder, TRUE)
      BY <1>0, <1>r, <3>1, <3>3, FaultsGrow DEF SyncInv
    <3> QED BY <3>1, <3>2, <3>3
  <2>3. CASE secret[u] # None /\ KeepToken(u, c)
    <3>1. /\ secret'[u] # None /\ secret'[u].id = secret[u].id
          /\ \A v \in Users \ {u} : secret'[v] = secret[v]
          /\ UNCHANGED <<registered, argocdSecret>>
          /\ \/ call' = [call EXCEPT !.todo = @ \ {u}] /\ UNCHANGED bounds
             \/ Faulty /\ Return(holder, TRUE)
      BY <2>0, <2>3, KeepTokenEffect
    <3>2. call'.phase # "register" /\ (faults' = 0 => faults = 0)
      BY <1>0, <1>r, <2>0, <3>1, FaultsGrow DEF Locals
    <3> QED BY <2>0, <2>3, <3>1, <3>2 DEF SyncInv, Registering
  <2> QED BY <1>1, <2>1, <2>2, <2>3, ReconcileLocalUserCases
<1>2. CASE IssueTokenRegister
  <2>1. call.phase = "register" /\ call.cur \in Users /\ UNCHANGED <<secret, argocdSecret>>
    BY <1>0, <1>2 DEF IssueTokenRegister, CallOK
  <2>2. CASE /\ argocdSecret /\ registered' = [registered EXCEPT ![call.cur] = call.id]
             /\ call' = NextUser /\ UNCHANGED bounds
    <3>1. call'.phase = "users" /\ (faults' = 0 => faults = 0)
      BY <1>0, <2>2, NextUserCall, FaultsGrow
    <3>2. /\ registered'[call.cur] = call.id
          /\ \A v \in Users \ {call.cur} : registered'[v] = registered[v]
      BY <1>0, <2>1, <2>2 DEF TypeOK
    <3> QED BY <2>1, <2>2, <3>1, <3>2 DEF SyncInv, Registering
  <2>3. CASE /\ ~argocdSecret /\ Return(holder, TRUE) /\ UNCHANGED <<registered, bounds>>
    <3>1. call'.phase = "idle"
      BY <1>r, <2>3
    <3> QED BY <2>1, <2>3, <3>1 DEF SyncInv
  <2>4. CASE Faulty /\ Return(holder, TRUE) /\ argocdSecret
    BY <1>0, <1>r, <2>1, <2>4, FaultsGrow DEF SyncInv
  <2> QED BY <1>2, <2>2, <2>3, <2>4 DEF IssueTokenRegister
<1> QED
  BY <1>1, <1>2, <1>d, NextDwindles DEF Next, LockedStep

\* As long as no call has failed, reconcileLocalUsers never leaves a user with a
\* Secret whose token is not the one argocd-secret has, whatever edits,
\* deletions by others and timers come between the two writes of issueToken.
THEOREM TokensInSync == Spec => []InSyncUntilFault
<1>1. Init => TypeInv /\ CallInv /\ SyncInv
  <2> SUFFICES ASSUME Init PROVE CallInv /\ SyncInv
    BY InitType
  <2>1. CallInv
    BY DEF Init, NoCall, CallInv, LockOK, PhaseOK
  <2>2. SyncInv
    BY DEF Init, NoCall, SyncInv
  <2> QED BY <2>1, <2>2
<1>2. TypeInv /\ CallInv /\ SyncInv /\ [Next]_vars => (TypeInv /\ CallInv /\ SyncInv)'
  BY NextType, NextCall, NextSync
<1>3. CallInv /\ SyncInv => InSyncUntilFault
  BY DEF CallInv, PhaseOK, SyncInv, Registering, InSyncUntilFault, InSyncOnSuccess,
     Reconciled
<1> QED BY <1>1, <1>2, <1>3, PTL DEF Spec

-----------------------------------------------------------------------------
(* Renewals are scheduled.                                                 *)

\* The timer in the map tells the truth about u's token: it is armed for that
\* token, or the token has expired.
TimerTells(u) ==
  IF timers[entry[u]].st = "armed" THEN timers[entry[u]].id = secret[u].id
  ELSE secret[u].id \in expired

\* u has a token that will expire, and a timer in the map.
Scheduled(u) ==
  /\ secret[u] # None /\ registered[u] # None /\ ~Registering(u)
  /\ secret[u].life # "0h" /\ entry[u] # None

\* The running call is done with u, whose token is to be renewed.
Renewable(u) ==
  /\ call.users[u] # None /\ call.extra[u] = "none" /\ (call.sweep \/ u \notin call.todo)
  /\ call.users[u].on /\ call.users[u].renew /\ Finite(call.users[u].life)

\* Between the writes of issueToken the Secret says what the CR says, and a
\* token not to be renewed has no timer.
IssueOK ==
  /\ call.phase = "register" /\ ~call.users[call.cur].renew => entry[call.cur] = None
  /\ call.phase = "register" /\ secret[call.cur] # None =>
       /\ secret[call.cur].renew = call.users[call.cur].renew
       /\ secret[call.cur].life = NormalLifetime(call.users[call.cur].life)

ScheduleInv ==
  /\ IssueOK
  /\ \A u \in Users : secret[u] # None /\ ~secret[u].renew => entry[u] = None
  /\ faults = 0 =>
       \A u \in Users :
         /\ Scheduled(u) => TimerTells(u)
         /\ Renewable(u) => entry[u] # None /\ timers[entry[u]].st \in {"armed", "waiting"}

\* Every step keeps the timers in step with the Secrets.
LEMMA NextScheduled ==
  TypeInv /\ CallInv /\ EntryOK /\ SyncInv /\ ScheduleInv /\ [Next]_vars => ScheduleInv'
<1> SUFFICES ASSUME TypeInv, CallInv, EntryOK, SyncInv, ScheduleInv, [Next]_vars
             PROVE  ScheduleInv'
  OBVIOUS
<1>0. call \in Locals /\ TypeOK /\ CallOK
  BY DEF TypeInv, TypeOK, Locals
<1>r. ASSUME NEW g, NEW f, Return(g, f)
      PROVE  call'.phase = "idle" /\ \A v \in Users : ~Renewable(v)'
  <2>1. call' = NoCall
    BY <1>r DEF Return
  <2> QED BY <2>1 DEF NoCall, Renewable
\* Nothing is issued, and the timers stay, or stop and are gone from the map.
<1>d. ASSUME Dwindles, expired \subseteq expired',
             \A v \in Users : TimerUntouched(v) \/ entry'[v] = None,
             \A v \in Users : Renewable(v)' => Renewable(v) /\ TimerUntouched(v)
      PROVE  ScheduleInv'
  <2>1. IssueOK'
    <3>1. CASE call' = call
      BY <1>0, <1>d, <3>1 DEF Dwindles, ScheduleInv, IssueOK, CallOK, TimerUntouched
    <3>2. CASE call'.phase # "register"
      BY <3>2 DEF IssueOK
    <3> QED BY <1>d, <3>1, <3>2 DEF Dwindles
  <2>2. ASSUME NEW v \in Users, secret'[v] # None, ~secret'[v].renew PROVE entry'[v] = None
    BY <1>d, <2>2 DEF Dwindles, ScheduleInv, TimerUntouched
  <2>3. ASSUME NEW v \in Users, faults' = 0, secret'[v] # None, registered'[v] # None,
               ~Registering(v)', secret'[v].life # "0h", entry'[v] # None
        PROVE  TimerTells(v)'
    <3>1. secret'[v] = secret[v] /\ registered'[v] = registered[v] /\ TimerUntouched(v)
      BY <1>d, <2>3 DEF Dwindles
    <3>2. faults = 0 /\ ~Registering(v)
      BY <1>d, <2>3 DEF Dwindles, Registering
    <3>3. TimerTells(v)
      BY <2>3, <3>1, <3>2 DEF ScheduleInv, Scheduled, TimerUntouched
    <3> QED BY <1>d, <2>3, <3>1, <3>3 DEF TimerTells, TimerUntouched
  <2>4. ASSUME NEW v \in Users, faults' = 0, Renewable(v)'
        PROVE  entry'[v] # None /\ timers'[entry'[v]].st \in {"armed", "waiting"}
    <3>1. Renewable(v) /\ TimerUntouched(v) /\ faults = 0
      BY <1>d, <2>4 DEF Dwindles
    <3> QED BY <3>1 DEF ScheduleInv, Scheduled, TimerUntouched
  <2> QED BY <2>1, <2>2, <2>3, <2>4 DEF ScheduleInv, Scheduled
<1>1. ASSUME NEW u \in Users, ReconcileLocalUser(u) PROVE ScheduleInv'
  <2> DEFINE c == call.users[u]
  <2>0. /\ c \in LocalUserSpec /\ call.phase = "users" /\ ~call.sweep /\ u \in call.todo
        /\ ~Renewable(u)
    BY <1>1, ReconcileLocalUserCases DEF Renewable
  <2>1. CASE /\ UNCHANGED <<secret, registered, argocdSecret, expired>>
             /\ UNCHANGED bounds \/ Faulty
             /\ \/ StopTimerIf(ReasonToStopTimer(c), u) /\ Return(holder, TRUE)
                \/ /\ stopLocalUserTimer(u)
                   /\ call' = [call EXCEPT !.phase = "unregister", !.cur = u]
    <3>1. call'.phase # "register"
      BY <1>0, <1>r, <2>1 DEF Locals
    <3>2. Dwindles
      BY <1>0, <2>0, <2>1, <3>1, FaultsGrow DEF Dwindles
    <3>3. /\ \A v \in Users \ {u} : TimerUntouched(v)
          /\ TimerUntouched(u) \/ entry'[u] = None
      BY <1>0, <2>1, StopIfOthers, StopOthers
    <3>4. \A v \in Users : Renewable(v)' => Renewable(v)
      <4>1. CASE Return(holder, TRUE)
        BY <1>r, <4>1
      <4>2. CASE call' = [call EXCEPT !.phase = "unregister", !.cur = u]
        <5>1. /\ call'.todo = call.todo /\ call'.sweep = call.sweep
              /\ call'.users = call.users /\ call'.extra = call.extra
          BY <1>0, <4>2 DEF Locals
        <5> QED BY <5>1 DEF Renewable
      <4> QED BY <2>1, <4>1, <4>2
    <3> QED BY <1>d, <2>0, <2>1, <3>2, <3>3, <3>4
  <2>2. CASE /\ StopTimerIf(ReasonToStopTimer(c), u) /\ c.on
             /\ IssueTokenSecret(u, c)
    <3>1. PICK id \in TokenIds :
            /\ secret'[u].id = id /\ secret'[u].renew = c.renew
            /\ secret'[u].life = NormalLifetime(c.life)
            /\ \A v \in Users \ {u} : secret'[v] = secret[v]
            /\ registered' = registered /\ argocdSecret' = argocdSecret
            /\ \A v \in Users : secret[v] # None /\ secret[v].id \in expired
                                 => secret[v].id \in expired'
            /\ \/ /\ call' = [call EXCEPT !.phase = "register", !.cur = u, !.id = id]
                  /\ UNCHANGED bounds
               \/ Faulty /\ Return(holder, TRUE)
      BY <2>0, <2>2, IssueTokenSecretEffect
    <3>2. /\ \A v \in Users \ {u} : TimerUntouched(v)
          /\ ~c.renew => entry'[u] = None
      BY <1>0, <2>2, StopIfOthers DEF ReasonToStopTimer
    <3>3. \A v \in Users : secret'[v] # None /\ ~secret'[v].renew => entry'[v] = None
      BY <3>1, <3>2 DEF ScheduleInv, Scheduled, TimerUntouched
    <3>4. CASE /\ call' = [call EXCEPT !.phase = "register", !.cur = u, !.id = id]
               /\ UNCHANGED bounds
      <4>1. /\ call'.phase = "register" /\ call'.cur = u /\ call'.id = id
            /\ call'.todo = call.todo /\ call'.sweep = call.sweep
            /\ call'.users = call.users /\ call'.extra = call.extra
        BY <1>0, <3>4 DEF Locals
      <4>2. faults' = 0 => faults = 0
        BY <1>0, <3>4, FaultsGrow
      <4>3. IssueOK'
        BY <3>1, <3>2, <4>1 DEF IssueOK
      <4>4. ASSUME NEW v \in Users, faults' = 0, secret'[v] # None, registered'[v] # None,
                   ~Registering(v)', secret'[v].life # "0h", entry'[v] # None
            PROVE  TimerTells(v)'
        <5>1. v # u
          BY <4>1, <4>4 DEF Registering
        <5>2. TimerTells(v) /\ secret'[v] = secret[v] /\ secret[v] # None /\ TimerUntouched(v)
          BY <2>0, <3>1, <3>2, <4>2, <4>4, <5>1 DEF ScheduleInv, Scheduled, Registering, TimerUntouched
        <5> QED BY <3>1, <4>4, <5>2 DEF TimerTells, TimerUntouched
      <4>5. ASSUME NEW v \in Users, faults' = 0, Renewable(v)'
            PROVE  entry'[v] # None /\ timers'[entry'[v]].st \in {"armed", "waiting"}
        <5>1. Renewable(v) /\ v # u
          BY <2>0, <4>1, <4>5 DEF Renewable
        <5> QED BY <3>2, <4>2, <4>5, <5>1 DEF ScheduleInv, Scheduled, TimerUntouched
      <4> QED BY <3>3, <4>3, <4>4, <4>5 DEF ScheduleInv, Scheduled
    <3>5. CASE Faulty /\ Return(holder, TRUE)
      <4>1. call'.phase = "idle" /\ faults' # 0
        BY <1>0, <1>r, <3>5, FaultsGrow
      <4> QED BY <3>3, <4>1 DEF ScheduleInv, Scheduled, IssueOK
    <3> QED BY <3>1, <3>4, <3>5
  <2>3. CASE /\ secret[u] # None /\ c.on /\ ~DeleteAndCreateNewToken(u, c)
             /\ KeepToken(u, c)
    <3>1. /\ secret[u] \in LocalUserSecret /\ secret'[u] # None
          /\ secret'[u].id = secret[u].id /\ secret'[u].life = secret[u].life
          /\ secret'[u].renew = c.renew
          /\ \A v \in Users \ {u} : secret'[v] = secret[v]
          /\ UNCHANGED <<registered, argocdSecret, expired>>
          /\ \/ call' = [call EXCEPT !.todo = @ \ {u}] /\ UNCHANGED bounds
             \/ Faulty /\ Return(holder, TRUE)
      BY <2>0, <2>3, KeepTokenEffect
    <3>2. /\ registered[u] # None /\ secret[u].life = NormalLifetime(c.life)
          /\ c.renew /\ secret[u].life # "0h" => secret[u].id \notin expired
      BY <2>3 DEF DeleteAndCreateNewToken
    <3>3. /\ \A v \in Users \ {u} : TimerUntouched(v)
          /\ \/ TimerUntouched(u) \/ entry'[u] = None
             \/ /\ c.renew /\ entry'[u] # None
                /\ timers'[entry'[u]].st = "armed" /\ timers'[entry'[u]].id = secret[u].id
          /\ ~c.renew => entry'[u] = None
          /\ call'.phase = "users" /\ c.renew /\ Finite(c.life) =>
               \/ TimerUntouched(u) /\ entry[u] # None
               \/ /\ entry'[u] # None
                  /\ timers'[entry'[u]].st = "armed" /\ timers'[entry'[u]].id = secret[u].id
      <4>1. CASE StopTimerIf(ReasonToStopTimer(c), u)
        <5>1. call'.phase = "users" /\ c.renew /\ Finite(c.life)
                => entry[u] # None \/ startOrRestartLocalUserTimer(u, secret[u].id)
          BY <1>r, <2>3 DEF KeepToken
        <5>2. CASE ~startOrRestartLocalUserTimer(u, secret[u].id)
          <6>1. c.renew /\ Finite(c.life) => ~ReasonToStopTimer(c)
            BY <2>3 DEF ReasonToStopTimer, Finite
          <6>2. ~c.renew => ReasonToStopTimer(c)
            BY DEF ReasonToStopTimer
          <6> QED BY <1>0, <4>1, <5>1, <5>2, <6>1, <6>2, StopIfOthers
        <5>3. CASE ~(call'.phase = "users" /\ c.renew /\ Finite(c.life))
          <6>2. ~c.renew => ReasonToStopTimer(c)
            BY DEF ReasonToStopTimer
          <6> QED BY <1>0, <4>1, <5>3, <6>2, StopIfOthers
        <5>4. CASE call'.phase = "users" /\ c.renew /\ Finite(c.life) /\ entry[u] # None
          <6>1. ~ReasonToStopTimer(c)
            BY <2>3, <5>4 DEF ReasonToStopTimer, Finite
          <6> QED BY <1>0, <4>1, <5>4, <6>1, StopIfOthers
        <5>5. CASE call'.phase = "users" /\ startOrRestartLocalUserTimer(u, secret[u].id)
                   /\ c.renew /\ Finite(c.life)
          <6>0. secret[u].id \in TokenIds
            BY <3>1 DEF LocalUserSecret
          <6>1. /\ entry'[u] \in TimerIds /\ \A v \in Users \ {u} : TimerUntouched(v)
                /\ timers'[entry'[u]] = [user |-> u, id |-> secret[u].id, st |-> "armed",
                                         stopped |-> FALSE]
            BY <1>0, <5>5, <6>0, StartOthers
          <6> QED BY <5>5, <6>1, ConstantsAssumption
        <5> QED BY <5>1, <5>2, <5>3, <5>4, <5>5
      <4>2. CASE c.renew /\ Finite(c.life) /\ startOrRestartLocalUserTimer(u, secret[u].id)
        <5>0. secret[u].id \in TokenIds
          BY <3>1 DEF LocalUserSecret
        <5>1. /\ entry'[u] \in TimerIds /\ \A v \in Users \ {u} : TimerUntouched(v)
              /\ timers'[entry'[u]] = [user |-> u, id |-> secret[u].id, st |-> "armed",
                                       stopped |-> FALSE]
          BY <1>0, <4>2, <5>0, StartOthers
        <5> QED BY <4>2, <5>1, ConstantsAssumption
      <4> QED BY <2>3, <4>1, <4>2 DEF KeepToken
    <3>4. \A v \in Users : secret'[v] # None /\ ~secret'[v].renew => entry'[v] = None
      BY <3>1, <3>3 DEF ScheduleInv, Scheduled, TimerUntouched
    <3>5. CASE Faulty /\ Return(holder, TRUE)
      <4>1. call'.phase = "idle" /\ faults' # 0
        BY <1>0, <1>r, <3>5, FaultsGrow
      <4> QED BY <3>4, <4>1 DEF ScheduleInv, Scheduled, IssueOK
    <3>6. CASE call' = [call EXCEPT !.todo = @ \ {u}] /\ UNCHANGED bounds
      <4>1. /\ call'.phase = "users" /\ call'.todo = call.todo \ {u}
            /\ call'.sweep = call.sweep /\ call'.users = call.users
            /\ call'.extra = call.extra
        BY <1>0, <2>0, <3>6 DEF Locals
      <4>2. faults' = 0 => faults = 0
        BY <1>0, <3>6, FaultsGrow
      <4>3. ASSUME NEW v \in Users, faults' = 0, secret'[v] # None, registered'[v] # None,
                   secret'[v].life # "0h", entry'[v] # None
            PROVE  TimerTells(v)'
        <5>0. ~Registering(v)
          BY <2>0 DEF Registering
        <5>1. CASE TimerUntouched(v)
          <6>1. TimerTells(v)
            BY <2>3, <3>1, <4>2, <4>3, <5>0, <5>1 DEF ScheduleInv, Scheduled, TimerUntouched
          <6>2. secret'[v].id = secret[v].id
            BY <3>1
          <6> QED BY <3>1, <4>3, <5>1, <6>1, <6>2 DEF TimerTells, TimerUntouched
        <5>2. CASE ~TimerUntouched(v)
          BY <3>1, <3>3, <4>3, <5>2 DEF TimerTells
        <5> QED BY <5>1, <5>2
      <4>4. ASSUME NEW v \in Users, faults' = 0, Renewable(v)'
            PROVE  entry'[v] # None /\ timers'[entry'[v]].st \in {"armed", "waiting"}
        <5>1. CASE v # u
          <6>1. Renewable(v)
            BY <4>1, <4>4, <5>1 DEF Renewable
          <6> QED BY <3>3, <4>2, <4>4, <5>1, <6>1 DEF ScheduleInv, Scheduled, TimerUntouched
        <5>2. CASE v = u
          <6>1. c.renew /\ Finite(c.life)
            BY <4>1, <4>4, <5>2 DEF Renewable
          <6>2. secret[u].life # "0h" /\ secret[u].id \notin expired
            BY <3>2, <6>1 DEF NormalLifetime, Finite
          <6>3. CASE TimerUntouched(u) /\ entry[u] # None
            <7>1. ~Registering(u)
              BY <2>0 DEF Registering
            <7>2. TimerTells(u)
              BY <2>3, <3>2, <4>2, <4>4, <6>2, <6>3, <7>1 DEF ScheduleInv, Scheduled
            <7> QED BY <5>2, <6>2, <6>3, <7>2 DEF TimerTells, TimerUntouched
          <6> QED BY <3>3, <4>1, <5>2, <6>1, <6>3
        <5> QED BY <5>1, <5>2
      <4> QED BY <3>4, <4>1, <4>3, <4>4 DEF ScheduleInv, Scheduled, IssueOK
    <3> QED BY <3>1, <3>5, <3>6
  <2> QED BY <1>1, <2>1, <2>2, <2>3, ReconcileLocalUserCases
<1>2. CASE IssueTokenRegister
  <2>d. PICK u : u = call.cur
    OBVIOUS
  <2> DEFINE c == call.users[u]
  <2>0. /\ call.phase = "register" /\ u \in Users /\ call.id \in TokenIds
        /\ UNCHANGED <<secret, argocdSecret, expired>>
    BY <1>0, <1>2, <2>d DEF IssueTokenRegister, CallOK
  <2>1. CASE Return(holder, TRUE) /\ UNCHANGED <<timers, entry>>
    <3>1. call'.phase = "idle" /\ \A v \in Users : ~Renewable(v)'
      BY <1>r, <2>1
    <3>2. faults' = 0 => \A v \in Users : registered'[v] = None
      BY <1>0, <1>2, <3>1, NextUserCall, FaultsGrow DEF IssueTokenRegister, SyncInv
    <3>3. IssueOK' /\ \A v \in Users : secret'[v] # None /\ ~secret'[v].renew => entry'[v] = None
      BY <2>0, <2>1, <3>1 DEF ScheduleInv, Scheduled, IssueOK
    <3> QED BY <3>1, <3>2, <3>3 DEF ScheduleInv, Scheduled
  <2>2. CASE /\ registered' = [registered EXCEPT ![u] = call.id]
             /\ IF c.renew /\ Finite(c.life) THEN startOrRestartLocalUserTimer(u, call.id)
                ELSE UNCHANGED <<timers, entry>>
             /\ call' = NextUser /\ UNCHANGED bounds
    <3>1. /\ call'.phase = "users" /\ call'.todo = call.todo \ {u}
          /\ call'.sweep = call.sweep /\ call'.users = call.users
          /\ call'.extra = call.extra /\ (faults' = 0 => faults = 0)
      BY <1>0, <2>2, <2>d, NextUserCall, FaultsGrow
    <3>2. \A v \in Users \ {u} : registered'[v] = registered[v]
      BY <1>0, <2>0, <2>2 DEF TypeOK
    <3>3. /\ \A v \in Users \ {u} : TimerUntouched(v)
          /\ \/ /\ c.renew /\ Finite(c.life) /\ entry'[u] # None
                /\ timers'[entry'[u]].st = "armed" /\ timers'[entry'[u]].id = call.id
             \/ TimerUntouched(u) /\ ~(c.renew /\ Finite(c.life))
      <4>1. CASE c.renew /\ Finite(c.life)
        <5>1. /\ entry'[u] \in TimerIds /\ \A v \in Users \ {u} : TimerUntouched(v)
              /\ timers'[entry'[u]] = [user |-> u, id |-> call.id, st |-> "armed",
                                       stopped |-> FALSE]
          BY <1>0, <2>0, <2>2, <4>1, StartOthers
        <5> QED BY <4>1, <5>1, ConstantsAssumption
      <4>2. CASE ~(c.renew /\ Finite(c.life))
        BY <2>2, <4>2 DEF TimerUntouched
      <4> QED BY <4>1, <4>2
    <3>4. secret[u] # None => /\ secret[u].renew = c.renew /\ secret[u].id = call.id
                              /\ secret[u].life = NormalLifetime(c.life)
      BY <2>0, <2>d DEF ScheduleInv, Scheduled, IssueOK, SyncInv
    <3>5. \A v \in Users : secret'[v] # None /\ ~secret'[v].renew => entry'[v] = None
      BY <2>0, <3>3, <3>4 DEF ScheduleInv, Scheduled, TimerUntouched
    <3>6. ASSUME NEW v \in Users, faults' = 0, secret'[v] # None, registered'[v] # None,
                 secret'[v].life # "0h", entry'[v] # None
          PROVE  TimerTells(v)'
      <4>1. CASE v # u
        <5>1. TimerTells(v) /\ TimerUntouched(v)
          BY <2>0, <2>d, <3>1, <3>2, <3>3, <3>6, <4>1 DEF ScheduleInv, Scheduled, Registering, TimerUntouched
        <5> QED BY <2>0, <3>6, <5>1 DEF TimerTells, TimerUntouched
      <4>2. CASE v = u
        <5>1. Finite(c.life)
          BY <2>0, <3>4, <3>6, <4>2 DEF NormalLifetime
        <5>2. c.renew
          BY <2>0, <2>d, <3>3, <3>6, <4>2 DEF ScheduleInv, Scheduled, IssueOK, TimerUntouched
        <5> QED BY <2>0, <3>3, <3>4, <3>6, <4>2, <5>1, <5>2 DEF TimerTells
      <4> QED BY <4>1, <4>2
    <3>7. ASSUME NEW v \in Users, faults' = 0, Renewable(v)'
          PROVE  entry'[v] # None /\ timers'[entry'[v]].st \in {"armed", "waiting"}
      <4>1. CASE v # u
        <5>1. Renewable(v)
          BY <3>1, <3>7, <4>1 DEF Renewable
        <5> QED BY <3>1, <3>3, <3>7, <4>1, <5>1 DEF ScheduleInv, Scheduled, TimerUntouched
      <4>2. CASE v = u
        BY <3>1, <3>3, <3>7, <4>2 DEF Renewable
      <4> QED BY <4>1, <4>2
    <3> QED BY <3>1, <3>5, <3>6, <3>7 DEF ScheduleInv, Scheduled, IssueOK
  <2> QED BY <1>2, <2>d, <2>1, <2>2 DEF IssueTokenRegister
<1>3. ASSUME NEW u \in Users, CleanupLocalUsersNext(u) PROVE ScheduleInv'
  <2>1. Dwindles /\ expired \subseteq expired'
    BY <1>3, NextDwindles
  <2>2. entry'[u] = None /\ \A v \in Users \ {u} : TimerUntouched(v)
    BY <1>0, <1>3, StopOthers DEF CleanupLocalUsersNext
  <2>3. /\ call'.todo = call.todo /\ call'.sweep = call.sweep
        /\ call'.users = call.users /\ call'.extra = call.extra
    BY <1>0, <1>3 DEF CleanupLocalUsersNext, Locals
  <2>4. ~Renewable(u)
    BY <1>3 DEF CleanupLocalUsersNext, CallInv, PhaseOK, Renewable
  <2>5. \A v \in Users : Renewable(v)' => Renewable(v)
    BY <2>3 DEF Renewable
  <2> QED BY <1>d, <2>1, <2>2, <2>4, <2>5
<1>4. ASSUME NEW t \in TimerIds, TimerFires(t) \/ TimerCallback(t) PROVE ScheduleInv'
  <2>0. UNCHANGED <<secret, registered, call, expired, faults, entry>>
    BY <1>4 DEF TimerFires, TimerCallback, cluster, bounds
  <2>1. IssueOK' /\ \A v \in Users : secret'[v] # None /\ ~secret'[v].renew => entry'[v] = None
    BY <1>0, <2>0 DEF ScheduleInv, Scheduled, IssueOK
  <2>2. ASSUME NEW v \in Users, faults' = 0, secret'[v] # None, registered'[v] # None,
               ~Registering(v)', secret'[v].life # "0h", entry'[v] # None
        PROVE  TimerTells(v)'
    <3>1. TimerTells(v) /\ entry[v] \in TimerIds /\ ~timers[entry[v]].stopped
      BY <1>0, <2>0, <2>2 DEF ScheduleInv, Scheduled, Registering, TypeOK, EntryOK
    <3>2. CASE entry[v] # t
      <4>1. timers'[entry[v]] = timers[entry[v]]
        BY <1>0, <1>4, <3>1, <3>2, TimerStep
      <4> QED BY <2>0, <3>1, <4>1 DEF TimerTells
    <3>3. CASE entry[v] = t
      <4>1. timers'[t].st # "armed" /\ (timers[t].st = "armed" => timers[t].id \in expired)
        BY <1>0, <1>4, TimerStep
      <4> QED BY <2>0, <3>1, <3>3, <4>1 DEF TimerTells
    <3> QED BY <3>2, <3>3
  <2>3. ASSUME NEW v \in Users, faults' = 0, Renewable(v)'
        PROVE  entry'[v] # None /\ timers'[entry'[v]].st \in {"armed", "waiting"}
    <3>1. Renewable(v)
      BY <2>0, <2>3 DEF Renewable
    <3>2. holder # "free"
      BY <3>1 DEF Renewable, CallInv, LockOK, NoCall
    <3>3. entry[v] # None /\ timers[entry[v]].st \in {"armed", "waiting"}
      BY <2>0, <2>3, <3>1 DEF ScheduleInv, Scheduled
    <3>4. entry[v] \in TimerIds
      BY <1>0, <3>3 DEF TypeOK
    <3> QED BY <1>0, <1>4, <2>0, <3>2, <3>3, <3>4, TimerStep
  <2> QED BY <2>1, <2>2, <2>3 DEF ScheduleInv, Scheduled
<1>5. CASE CleanupNamespaceTokenTimers
  <2>1. Dwindles /\ expired \subseteq expired'
    BY <1>5, NextDwindles
  <2>2. call = NoCall /\ call' = call /\ \A v \in Users : entry'[v] = None
    BY <1>5 DEF CleanupNamespaceTokenTimers, CallInv, LockOK
  <2>3. \A v \in Users : ~Renewable(v)'
    BY <2>2 DEF Renewable, NoCall
  <2> QED BY <1>d, <2>1, <2>2, <2>3
<1>6. CASE Crash
  <2>1. Dwindles /\ expired \subseteq expired'
    BY <1>6, NextDwindles DEF Environment
  <2>2. call' = NoCall /\ \A v \in Users : entry'[v] = None
    BY <1>6 DEF Crash
  <2>3. \A v \in Users : ~Renewable(v)'
    BY <2>2 DEF Renewable, NoCall
  <2> QED BY <1>d, <2>1, <2>2, <2>3
<1>7. CASE NoTimerStep
  <2>1. Dwindles /\ expired \subseteq expired'
    BY <1>7, NextDwindles DEF NoTimerStep, Environment
  <2>2. \A v \in Users : TimerUntouched(v)
    BY <1>7, NoTimerStepKeeps DEF TimerUntouched
  <2>3. \A v \in Users : Renewable(v)' => Renewable(v)
    <3>1. CASE call' = call
      BY <3>1 DEF Renewable
    <3>2. CASE \E g, f : Return(g, f)
      BY <1>r, <3>2
    <3>3. CASE \E g \in {"main", "renewal"} : ReconcileLocalUsersBegin(g)
      <4>1. PICK g \in {"main", "renewal"} : ReconcileLocalUsersBegin(g)
        BY <3>3
      <4>2. CASE ~Return(g, FALSE) /\ ~Return(g, TRUE)
        <5>1. call' = [phase |-> "users", cur |-> None, id |-> None,
                       sweep |-> FALSE, users |-> spec, extra |-> extra,
                       todo |-> {u \in Users : spec[u] # None /\ extra[u] = "none"}]
          BY <4>1, <4>2 DEF ReconcileLocalUsersBegin
        <5> QED BY <5>1 DEF Renewable
      <4> QED BY <3>2, <4>2
    <3>4. CASE call.phase \in {"unregister", "delete"} /\ call' = NextUser
      <4>1. /\ call'.todo = call.todo \ {call.cur} /\ call'.sweep = call.sweep
            /\ call'.users = call.users /\ call'.extra = call.extra
        BY <3>4, NextUserCall
      <4>2. call.users[call.cur] = None \/ ~call.users[call.cur].on
        BY <3>4 DEF CallInv, PhaseOK
      <4> QED BY <4>1, <4>2 DEF Renewable
    <3>5. CASE call' = [call EXCEPT !.phase = "delete"]
      <4>1. /\ call'.todo = call.todo /\ call'.sweep = call.sweep
            /\ call'.users = call.users /\ call'.extra = call.extra
        BY <1>0, <3>5 DEF Locals
      <4> QED BY <4>1 DEF Renewable
    <3>6. CASE /\ call.todo = {}
               /\ call' = [call EXCEPT !.sweep = TRUE,
                    !.todo = {u \in Users : secret[u] # None /\ call.users[u] = None}]
      <4>1. call'.users = call.users /\ call'.extra = call.extra
        BY <1>0, <3>6 DEF Locals
      <4> QED BY <3>6, <4>1 DEF Renewable
    <3> QED
      BY <1>7, <3>1, <3>2, <3>3, <3>4, <3>5, <3>6
         DEF NoTimerStep, CleanupLocalUserToken, CleanupLocalUserSecret,
         CleanupLocalUsersList, ReconcileLocalUsersEnd, Reconcile,
         RemoveDeletionFinalizer, EditCR, ExternalDelete, ExternalDeleteArgoCDSecret,
         DeleteCR, CreateCR, Edited, Expire, Resync, vars, memory
  <2> QED BY <1>d, <2>1, <2>2, <2>3
<1> QED
  BY <1>1, <1>2, <1>3, <1>4, <1>5, <1>6, <1>7 DEF Next, LockedStep, Environment, NoTimerStep

\* As long as no call has failed, reconcileLocalUsers never leaves a token to be
\* renewed without a timer that is still to call back: the entry of a timer that
\* has fired is never mistaken for a scheduled renewal.
THEOREM RenewalsScheduled == Spec => []ScheduledUntilFault
<1> DEFINE Inv == TypeInv /\ CallInv /\ EntryOK /\ SyncInv /\ ScheduleInv
<1>1. Init => Inv
  <2> SUFFICES ASSUME Init PROVE CallInv /\ EntryOK /\ SyncInv /\ ScheduleInv
    BY InitType
  <2>1. CallInv
    BY DEF Init, NoCall, CallInv, LockOK, PhaseOK
  <2>2. EntryOK /\ SyncInv
    BY DEF Init, NoCall, EntryOK, SyncInv
  <2>3. ScheduleInv
    BY DEF Init, NoCall, ScheduleInv, Scheduled, IssueOK, Renewable
  <2> QED BY <2>1, <2>2, <2>3
<1>2. Inv /\ [Next]_vars => Inv'
  BY NextType, NextCall, NextEntry, NextSync, NextScheduled
<1>3. Inv => ScheduledUntilFault
  BY DEF ScheduleInv, Scheduled, Renewable, ScheduledUntilFault, RenewalScheduledOnSuccess, Reconciled
<1> QED BY <1>1, <1>2, <1>3, PTL DEF Spec

-----------------------------------------------------------------------------
(* No timer without a Secret, as long as nobody deletes the CR or a Secret. *)

\* A user with a timer armed has a Secret; so has the user whose token is about
\* to be registered; and the timer has been stopped of a user who is cleaned up.
BackedInv ==
  /\ \A u \in Users : Armed(u) => secret[u] # None
  /\ call.phase = "register" => secret[call.cur] # None
  /\ call.phase \in {"unregister", "delete"} => entry[call.cur] = None

\* A step that arms no timer, takes no Secret away and enters no phase of a call
\* that asks for something.
LEMMA StillBacked ==
  ASSUME BackedInv, \A u \in Users : Armed(u)' => Armed(u), UNCHANGED secret,
         (call' = call /\ entry' = entry) \/ call'.phase \in {"idle", "users"}
  PROVE  BackedInv'
BY DEF BackedInv

\* reconcileLocalUser arms a timer only for a Secret that is there.
LEMMA ReconcileLocalUserBacked ==
  ASSUME TypeInv, CallInv, EntryOK, BackedInv, NEW u \in Users, ReconcileLocalUser(u)
  PROVE  BackedInv'
<1> DEFINE c == call.users[u]
<1>0. TypeOK /\ call \in Locals
  BY DEF TypeInv, TypeOK, Locals
<1>1. /\ c \in LocalUserSpec /\ call.phase = "users"
      /\ \/ /\ UNCHANGED secret
            /\ \/ StopTimerIf(ReasonToStopTimer(c), u) /\ Return(holder, TRUE)
               \/ /\ stopLocalUserTimer(u)
                  /\ call' = [call EXCEPT !.phase = "unregister", !.cur = u]
         \/ StopTimerIf(ReasonToStopTimer(c), u) /\ IssueTokenSecret(u, c)
         \/ secret[u] # None /\ KeepToken(u, c)
  BY ReconcileLocalUserCases
<1> HIDE DEF c
<1>s. ASSUME StopTimerIf(ReasonToStopTimer(c), u) \/ stopLocalUserTimer(u), NEW v \in Users,
             Armed(v)'
      PROVE  Armed(v)
  BY <1>0, <1>s, StopIfOthers, StopOthers, StillArmed
<1>r. ASSUME Return(holder, TRUE) PROVE call'.phase = "idle"
  BY <1>r DEF Return, NoCall
<1>2. CASE UNCHANGED secret /\ StopTimerIf(ReasonToStopTimer(c), u) /\ Return(holder, TRUE)
  BY <1>2, <1>s, <1>r, StillBacked
<1>3. CASE /\ UNCHANGED secret /\ stopLocalUserTimer(u)
           /\ call' = [call EXCEPT !.phase = "unregister", !.cur = u]
  <2>1. call'.phase = "unregister" /\ call'.cur = u /\ entry'[u] = None
    BY <1>0, <1>3, StopOthers DEF Locals
  <2> QED BY <1>3, <1>s, <2>1 DEF BackedInv
<1>4. CASE StopTimerIf(ReasonToStopTimer(c), u) /\ IssueTokenSecret(u, c)
  <2>1. PICK id \in TokenIds :
          /\ secret'[u].id = id
          /\ \A v \in Users \ {u} : secret'[v] = secret[v]
          /\ \/ call' = [call EXCEPT !.phase = "register", !.cur = u, !.id = id]
             \/ Return(holder, TRUE)
    BY <1>1, <1>4, IssueTokenSecretEffect
  <2>2. secret'[u] # None
    <3>1. secret' \in [Users -> LocalUserSecret \cup {None}]
          /\ \E i \in TokenIds : secret'[u] = [id |-> i, renew |-> c.renew,
                                               life |-> NormalLifetime(c.life)]
      BY <1>0, <1>1, <1>4 DEF IssueTokenSecret, TypeOK, LocalUserSecret, LocalUserSpec,
         NormalLifetime, Finite
    <3>2. secret'[u] \in LocalUserSecret
      BY <1>1, <3>1 DEF LocalUserSecret, LocalUserSpec, NormalLifetime, Finite
    <3> QED BY <3>2, ConstantsAssumption
  <2>3. \A v \in Users : Armed(v)' => secret'[v] # None
    BY <1>4, <1>s, <2>1, <2>2 DEF BackedInv
  <2>4. \/ call'.phase = "register" /\ call'.cur = u
        \/ call'.phase = "idle"
    BY <1>0, <1>r, <2>1 DEF Locals
  <2> QED BY <2>2, <2>3, <2>4 DEF BackedInv
<1>5. CASE secret[u] # None /\ KeepToken(u, c)
  <2>1. /\ secret'[u] # None /\ \A v \in Users \ {u} : secret'[v] = secret[v]
        /\ call' = [call EXCEPT !.todo = @ \ {u}] \/ Return(holder, TRUE)
    BY <1>1, <1>5, KeepTokenEffect
  <2>2. call'.phase \in {"idle", "users"}
    BY <1>0, <1>1, <1>r, <2>1 DEF Locals
  <2>3. ASSUME NEW v \in Users \ {u}, Armed(v)' PROVE Armed(v)
    <3>1. secret[u].id \in TokenIds
      BY <1>0, <1>5 DEF TypeOK, LocalUserSecret
    <3>2. startOrRestartLocalUserTimer(u, secret[u].id) \/ StopTimerIf(ReasonToStopTimer(c), u)
      BY <1>5 DEF KeepToken
    <3>3. TimerUntouched(v)
      BY <1>0, <3>1, <3>2, StartOthers, StopIfOthers
    <3> QED BY <1>0, <2>3, <3>3, StillArmed
  <2> QED BY <2>1, <2>2, <2>3 DEF BackedInv
<1> QED BY <1>1, <1>2, <1>3, <1>4, <1>5

\* No step arms a timer without a Secret, or takes the Secret of an armed one away.
LEMMA NextBacked ==
  TypeInv /\ CallInv /\ EntryOK /\ BackedInv /\ Undisturbed /\ Undisturbed' /\ [Next]_vars
    => BackedInv'
<1> SUFFICES ASSUME TypeInv, CallInv, EntryOK, BackedInv, Undisturbed, Undisturbed',
                    [Next]_vars
             PROVE  BackedInv'
  OBVIOUS
<1>0. TypeOK /\ call \in Locals /\ CallOK
  BY DEF TypeInv, TypeOK, Locals
<1>r. ASSUME NEW g, NEW f, Return(g, f) PROVE call'.phase = "idle"
  BY <1>r DEF Return, NoCall
<1>n. ASSUME call' = NextUser PROVE call'.phase = "users"
  BY <1>n, NextUserCall
<1>a. ASSUME UNCHANGED <<timers, entry>>, NEW u \in Users, Armed(u)' PROVE Armed(u)
  BY <1>a DEF Armed
<1>1. ASSUME NEW t \in TimerIds, TimerFires(t) \/ TimerCallback(t) PROVE BackedInv'
  <2>1. UNCHANGED <<secret, call, entry>>
    BY <1>1 DEF TimerFires, TimerCallback, cluster
  <2> QED BY <1>0, <1>1, <2>1, TimerStepArmsNone, StillBacked
<1>2. CASE ReconcileLocalUsersBegin("main") \/ ReconcileLocalUsersBegin("renewal")
  <2>1. UNCHANGED <<secret, timers, entry>>
    BY <1>2 DEF ReconcileLocalUsersBegin, cluster
  <2>2. call'.phase \in {"idle", "users"}
    BY <1>2 DEF ReconcileLocalUsersBegin, Return, NoCall
  <2> QED BY <1>a, <2>1, <2>2, StillBacked
<1>3. ASSUME NEW u \in Users, ReconcileLocalUser(u) PROVE BackedInv'
  BY <1>3, ReconcileLocalUserBacked
<1>4. CASE IssueTokenRegister
  <2>1. UNCHANGED secret /\ call.phase = "register" /\ secret[call.cur] # None
    BY <1>4 DEF IssueTokenRegister, BackedInv
  <2>2. call'.phase \in {"idle", "users"}
    BY <1>4, <1>r, <1>n DEF IssueTokenRegister
  <2>3. call.cur \in Users /\ call.id \in TokenIds
    BY <1>0, <2>1 DEF CallOK
  <2>4. ASSUME NEW v \in Users \ {call.cur}, Armed(v)' PROVE Armed(v)
    <3>1. startOrRestartLocalUserTimer(call.cur, call.id) \/ UNCHANGED <<timers, entry>>
      BY <1>4 DEF IssueTokenRegister
    <3>2. CASE startOrRestartLocalUserTimer(call.cur, call.id)
      BY <1>0, <2>3, <2>4, <3>2, StartOthers, StillArmed
    <3> QED BY <1>a, <2>4, <3>1, <3>2
  <2> QED BY <2>1, <2>2, <2>4 DEF BackedInv
<1>5. CASE CleanupLocalUserToken
  <2>1. UNCHANGED <<secret, timers, entry>> /\ call.phase = "unregister"
    BY <1>5 DEF CleanupLocalUserToken
  <2>2. call'.phase \in {"idle", "users"} \/ (call'.phase = "delete" /\ call'.cur = call.cur)
    BY <1>0, <1>5, <1>r, <1>n DEF CleanupLocalUserToken, Locals
  <2> QED BY <1>a, <2>1, <2>2 DEF BackedInv
<1>6. CASE CleanupLocalUserSecret
  <2>1. UNCHANGED <<timers, entry>> /\ call.phase = "delete" /\ call.cur \in Users
    BY <1>0, <1>6 DEF CleanupLocalUserSecret, CallOK
  <2>2. call'.phase \in {"idle", "users"}
    BY <1>6, <1>r, <1>n DEF CleanupLocalUserSecret
  <2>3. ~Armed(call.cur)
    BY <2>1 DEF BackedInv, Armed
  <2>4. \A v \in Users \ {call.cur} : secret'[v] = secret[v]
    BY <1>0, <1>6, <2>1 DEF CleanupLocalUserSecret, TypeOK
  <2> QED BY <1>a, <2>1, <2>2, <2>3, <2>4 DEF BackedInv
<1>7. CASE CleanupLocalUsersList \/ ReconcileLocalUsersEnd
  <2>1. UNCHANGED <<secret, timers, entry>>
    BY <1>7 DEF CleanupLocalUsersList, ReconcileLocalUsersEnd, cluster
  <2>2. call'.phase \in {"idle", "users"}
    BY <1>0, <1>7, <1>r DEF CleanupLocalUsersList, ReconcileLocalUsersEnd, Locals
  <2> QED BY <1>a, <2>1, <2>2, StillBacked
<1>8. ASSUME NEW u \in Users, CleanupLocalUsersNext(u) PROVE BackedInv'
  <2>1. UNCHANGED secret /\ stopLocalUserTimer(u)
        /\ call' = [call EXCEPT !.phase = "unregister", !.cur = u]
    BY <1>8 DEF CleanupLocalUsersNext, cluster
  <2>2. call'.phase = "unregister" /\ call'.cur = u /\ entry'[u] = None
    BY <1>0, <2>1, StopOthers DEF Locals
  <2>3. \A v \in Users : Armed(v)' => Armed(v)
    BY <1>0, <2>1, StopOthers, StillArmed
  <2> QED BY <2>1, <2>2, <2>3 DEF BackedInv
<1>9. CASE CleanupNamespaceTokenTimers \/ Crash
  <2>1. UNCHANGED secret /\ entry' = [u \in Users |-> None]
    BY <1>9 DEF CleanupNamespaceTokenTimers, Crash, cluster
  <2>2. call' = call \/ call'.phase = "idle"
    BY <1>9 DEF CleanupNamespaceTokenTimers, Crash, NoCall
  <2>3. call.phase \in {"unregister", "delete"} => call.cur \in Users
    BY <1>0 DEF CallOK
  <2> QED BY <2>1, <2>2, <2>3 DEF BackedInv, Armed
<1>10. CASE \/ Reconcile \/ RemoveDeletionFinalizer
            \/ \E u \in Users : EditCR(u) \/ ExternalDelete(u)
            \/ ExternalDeleteArgoCDSecret \/ DeleteCR \/ CreateCR
            \/ \E id \in TokenIds : Expire(id)
            \/ Resync \/ UNCHANGED vars
  <2>1. UNCHANGED <<timers, entry, call>>
    BY <1>10 DEF Reconcile, RemoveDeletionFinalizer, EditCR, ExternalDelete, Edited,
       ExternalDeleteArgoCDSecret, DeleteCR, CreateCR, Expire, Resync, vars, memory
  <2>2. UNCHANGED secret
    BY <1>10 DEF Reconcile, RemoveDeletionFinalizer, EditCR, ExternalDelete, Edited,
       ExternalDeleteArgoCDSecret, DeleteCR, CreateCR, Expire, Resync, vars, cluster,
       Undisturbed
  <2> QED BY <1>a, <2>1, <2>2, StillBacked
<1> QED
  BY <1>1, <1>2, <1>3, <1>4, <1>5, <1>6, <1>7, <1>8, <1>9, <1>10
     DEF Next, LockedStep, Environment

\* As long as nobody deletes the CR or a Secret and no lifetime is spelled 0h,
\* once nothing is left to do a timer is armed only for a token that expires and
\* is to be renewed: disabling or removing a user, or switching the renewal off,
\* stops the timer, however calls have failed and whenever the operator crashed.
THEOREM TimersRenewableAtRest == Spec => TimerOnlyIfRenewable
<1> DEFINE Renewable1 ==
             Quiescent =>
               \A u \in Users :
                 extra[u] = "none" /\ Armed(u)
                   => Wanted(u) /\ spec[u].renew /\ Finite(spec[u].life)
<1>1. Init => BackedInv
  BY DEF Init, BackedInv, Armed, NoCall
<1>2. AllSettledInv /\ BackedInv /\ Undisturbed /\ Undisturbed' /\ [Next]_vars => BackedInv'
  BY NextBacked DEF AllSettledInv
<1>3. AllSettledInv /\ BackedInv /\ Undisturbed => Renewable1
  <2> SUFFICES ASSUME AllSettledInv, BackedInv, Undisturbed, Quiescent, NEW u \in Users,
                      extra[u] = "none", Armed(u)
               PROVE  Wanted(u) /\ spec[u].renew /\ Finite(spec[u].life)
    OBVIOUS
  <2>1. secret[u] # None /\ crState = "present" /\ (spec[u] # None => spec[u].life # "zero")
    BY DEF BackedInv, Undisturbed
  <2>2. Settled(u)
    BY <2>1, SettledAtRest
  <2>3. spec[u] # None => spec[u] \in LocalUserSpec
    BY DEF AllSettledInv, TypeInv, TypeOK
  <2> QED BY <2>1, <2>2, <2>3 DEF Settled, Wanted, Finite, LocalUserSpec, Lifetimes
<1> QED BY <1>1, <1>2, <1>3, AlwaysSettled, PTL DEF Spec, TimerOnlyIfRenewable
=============================================================================
