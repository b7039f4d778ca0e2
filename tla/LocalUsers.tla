----------------------------- MODULE LocalUsers -----------------------------
(***************************************************************************)
(* API tokens of Argo CD local users (controllers/argocd/localusers.go):   *)
(* issuing, renewing and revoking them, for one ArgoCD CR.                 *)
(*                                                                         *)
(* A token lives in two Secrets that no transaction spans: the user's own  *)
(* "<user>-local-user" Secret (secret) and the accounts.<user>.tokens key  *)
(* of argocd-secret (registered), which is what Argo CD accepts.  Three    *)
(* kinds of goroutine act on them, serialised by LocalUsers.lock:          *)
(*   - the controller's worker, reconciling the CR (main);                 *)
(*   - time.AfterFunc callbacks of the renewal timers (timers);            *)
(*   - the goroutines those callbacks spawn (renewals).                    *)
(* The lock is held across API calls, so what interleaves with a holder is *)
(* the rest of the world: edits of the CR, a kubectl delete of a Secret,   *)
(* the clock, failing calls and a crash of the operator.                   *)
(***************************************************************************)
EXTENDS Naturals, FiniteSets

CONSTANTS
  Users,        \* names a CR may list under spec.localUsers
  TokenIds,     \* the uuids of tokens; one is recycled when nothing names it
  TimerIds,     \* tokenRenewalTimer objects; recycled like the uuids
  Configs,      \* the LocalUserSpecs an edit may write
  ExtraConfigs, \* the extraConfig "accounts.<user>" values an edit may write
  None,         \* absence: of a Secret, a key, a map entry, a spec entry
  MaxEdits,     \* bound: edits and deletions of the CR
  MaxExternalDeletes, \* bound: Secrets deleted behind the operator's back
  MaxFaults,    \* bound: failing API calls and operator crashes
  MaxWaiting,   \* bound: timer callbacks waiting for the lock
  MaxRenewals   \* bound: renewal goroutines not yet holding the lock

\* spec.tokenLifetime: "none" is "" or "0"; "zero" is a zero duration spelled
\* otherwise ("0h"); "d1", "d2" are two positive durations; "bad" does not
\* parse or is negative.
Lifetimes == {"none", "zero", "d1", "d2", "bad"}
Finite(life) == life \in {"d1", "d2"}

\* Bug variant: the lifetime is stored as it is spelled.
UnnormalisedLifetime(life) == life

\* What tokenLifetime is normalised to before it is stored and compared.
NormalLifetime(life) == IF Finite(life) THEN life ELSE "0h"

LocalUserSpec == [on : BOOLEAN,        \* enabled and apiKey, both true
                  renew : BOOLEAN,     \* autoRenewToken
                  life : Lifetimes]
LocalUserSecret == [id : TokenIds, renew : BOOLEAN, life : {"0h", "d1", "d2"}]
TokenRenewalTimer == [user : Users \cup {None}, id : TokenIds \cup {None},
                      st : {"free", "armed", "waiting", "done"},
                      stopped : BOOLEAN]

ASSUME ConstantsAssumption ==
  /\ None \notin Users \cup TokenIds \cup TimerIds \cup LocalUserSpec
                   \cup LocalUserSecret
  /\ Configs \subseteq LocalUserSpec
  /\ ExtraConfigs \subseteq {"none", "login", "apiKey"}
  /\ "none" \in ExtraConfigs
  /\ {MaxEdits, MaxExternalDeletes, MaxFaults, MaxWaiting, MaxRenewals}
       \subseteq Nat

VARIABLES
  crState,    \* "present", "terminating" (deletionTimestamp set) or "absent"
  spec,       \* spec.localUsers, by name
  extra,      \* spec.extraConfig["accounts.<user>"]
  secret,     \* the user Secrets
  argocdSecret, \* does argocd-secret exist?
  registered, \* its accounts.<user>.tokens: the token's id
  expired,    \* ids of tokens whose expAt has passed
  timers,     \* timer objects, also those no longer in the map
  entry,      \* LocalUsers.tokenRenewalTimers
  holder,     \* who owns LocalUsers.lock: "free", "main" or "renewal"
  call,       \* locals of the reconcileLocalUsers call that owns the lock
  main,       \* what the controller's worker is doing
  queued,     \* is the CR in the controller's work queue?
  renewals,   \* goroutines spawned by a timer, waiting for the lock
  left,       \* history: tokens deliberately left without their Secret
  edits, deletes, faults  \* used-up bounds

cluster == <<crState, spec, extra, secret, argocdSecret, registered, left>>
memory  == <<timers, entry, holder, call, main, queued, renewals>>
bounds  == <<edits, deletes, faults>>
vars    == <<cluster, expired, memory, bounds>>

FreeTimer == [user |-> None, id |-> None, st |-> "free", stopped |-> FALSE]
NoCall == [phase |-> "idle", todo |-> {}, cur |-> None, id |-> None,
           sweep |-> FALSE, users |-> [u \in Users |-> None],
           extra |-> [u \in Users |-> "none"]]

TypeOK ==
  /\ crState \in {"present", "terminating", "absent"}
  /\ spec \in [Users -> LocalUserSpec \cup {None}]
  /\ extra \in [Users -> {"none", "login", "apiKey"}]
  /\ secret \in [Users -> LocalUserSecret \cup {None}]
  /\ argocdSecret \in BOOLEAN
  /\ registered \in [Users -> TokenIds \cup {None}]
  /\ expired \subseteq TokenIds
  /\ timers \in [TimerIds -> TokenRenewalTimer]
  /\ entry \in [Users -> TimerIds \cup {None}]
  /\ holder \in {"free", "main", "renewal"}
  /\ call \in [phase : {"idle", "users", "register", "unregister", "delete"},
               todo : SUBSET Users, cur : Users \cup {None},
               id : TokenIds \cup {None}, sweep : BOOLEAN,
               users : [Users -> LocalUserSpec \cup {None}],
               extra : [Users -> {"none", "login", "apiKey"}]]
  /\ main \in {"idle", "cleanupTimers", "finalize", "localUsers", "running"}
  /\ queued \in BOOLEAN
  /\ renewals \in Nat
  /\ left \subseteq Users
  /\ edits \in Nat /\ deletes \in Nat /\ faults \in Nat

Init ==
  /\ crState = "present"
  /\ spec \in [Users -> Configs \cup {None}]
  /\ extra \in [Users -> ExtraConfigs]
  /\ secret = [u \in Users |-> None]
  /\ argocdSecret = FALSE
  /\ registered = [u \in Users |-> None]
  /\ expired = {}
  /\ timers = [t \in TimerIds |-> FreeTimer]
  /\ entry = [u \in Users |-> None]
  /\ holder = "free" /\ call = NoCall
  /\ main = "idle" /\ queued = TRUE /\ renewals = 0
  /\ left = {}
  /\ edits = 0 /\ deletes = 0 /\ faults = 0

-----------------------------------------------------------------------------
(* Renewal timers.                                                         *)

\* Bug variant: the entry leaves the map, but its timer goes on.
UnstoppedTimers(u) == timers

\* timers once the timer in the map for u is stopped.  Stop() disarms a timer
\* that has not fired; a callback already waiting for the lock will see stopped.
StoppedTimers(u) ==
  IF entry[u] = None THEN timers
  ELSE [timers EXCEPT ![entry[u]] =
          IF @.st = "waiting" THEN [@ EXCEPT !.stopped = TRUE] ELSE FreeTimer]

stopLocalUserTimer(u) ==
  /\ timers' = StoppedTimers(u)
  /\ entry' = [entry EXCEPT ![u] = None]

StopTimerIf(b, u) ==
  IF b THEN stopLocalUserTimer(u) ELSE UNCHANGED <<timers, entry>>

\* The timer fires when the token it was armed for (id) has expired.
startOrRestartLocalUserTimer(u, id) ==
  LET free == {t \in TimerIds : StoppedTimers(u)[t] = FreeTimer}
      t == CHOOSE f \in free : TRUE IN
    /\ free # {}
    /\ timers' = [StoppedTimers(u) EXCEPT
                    ![t] = [user |-> u, id |-> id, st |-> "armed",
                            stopped |-> FALSE]]
    /\ entry' = [entry EXCEPT ![u] = t]

\* The runtime starts the AfterFunc callback in a goroutine of its own.
TimerFires(t) ==
  /\ timers[t].st = "armed"
  /\ timers[t].id \in expired
  /\ Cardinality({w \in TimerIds : timers[w].st = "waiting"}) < MaxWaiting
  /\ timers' = [timers EXCEPT ![t] = [@ EXCEPT !.st = "waiting", !.id = None]]
  /\ UNCHANGED <<cluster, expired, entry, holder, call, main, queued,
                 renewals, bounds>>

\* The callback takes the lock, returns if its timer was stopped meanwhile,
\* and otherwise spawns a goroutine that calls reconcileLocalUsers.  The map
\* keeps its entry for the timer that has fired.
TimerCallback(t) ==
  /\ timers[t].st = "waiting"
  /\ holder = "free"
  /\ \/ /\ timers[t].stopped
        /\ timers' = [timers EXCEPT ![t] = FreeTimer]
        /\ UNCHANGED renewals
     \/ /\ ~timers[t].stopped
        /\ renewals < MaxRenewals
        /\ renewals' = renewals + 1
        /\ timers' = [timers EXCEPT ![t].st = "done"]
  /\ UNCHANGED <<cluster, expired, entry, holder, call, main, queued, bounds>>

-----------------------------------------------------------------------------
(* reconcileLocalUsers: the lock, the fresh copy of the CR, both loops.    *)

\* A call by goroutine g ends.  An error makes the controller requeue the CR;
\* the renewal goroutine only logs it.
Return(g, failed) ==
  /\ holder' = "free"
  /\ call' = NoCall
  /\ main' = IF g = "main" THEN "idle" ELSE main
  /\ queued' = (queued \/ (failed /\ g = "main"))

\* An API call that fails, for want of the server or by a conflict.
Faulty ==
  /\ faults < MaxFaults
  /\ faults' = faults + 1
  /\ UNCHANGED <<edits, deletes>>

ReconcileLocalUsersBegin(g) ==
  /\ holder = "free"
  /\ IF g = "main" THEN main = "localUsers" /\ UNCHANGED renewals
                   ELSE renewals > 0 /\ renewals' = renewals - 1
  /\ \/ /\ crState = "absent"            \* NotFound: no more work to do
        /\ Return(g, FALSE)
        /\ UNCHANGED bounds
     \/ /\ crState # "absent"
        /\ holder' = g
        /\ main' = IF g = "main" THEN "running" ELSE main
        /\ call' = [phase |-> "users", cur |-> None, id |-> None,
                    sweep |-> FALSE, users |-> spec, extra |-> extra,
                    todo |-> {u \in Users : spec[u] # None /\ extra[u] = "none"}]
        /\ UNCHANGED <<queued, bounds>>
     \/ Faulty /\ Return(g, TRUE)
  /\ UNCHANGED <<cluster, expired, timers, entry>>

\* The user being reconciled is done: on to the next one of either loop.
NextUser == [call EXCEPT !.phase = "users", !.todo = @ \ {call.cur},
                         !.cur = None, !.id = None]

UsedIds ==
  {secret[u].id : u \in {v \in Users : secret[v] # None}}
    \cup {registered[u] : u \in Users}
    \cup {timers[t].id : t \in TimerIds}

\* Bug variant: autoRenewToken going false is overlooked.
ReasonToStopTimerNotRenew(c) == ~c.on \/ c.life = "none"

\* reconcileLocalUser: why the timer is stopped, whatever happens next.
ReasonToStopTimer(c) == ~c.on \/ ~c.renew \/ c.life = "none"

\* Bug variant: argocd-secret is not looked at.
IgnoreArgoCDSecret(u, c) ==
  secret[u] # None =>
    \/ secret[u].life # NormalLifetime(c.life)
    \/ c.renew /\ secret[u].life # "0h" /\ secret[u].id \in expired

\* Bug variant: the expiry is not looked at.
IgnoreExpiry(u, c) ==
  secret[u] # None =>
    secret[u].life # NormalLifetime(c.life) \/ registered[u] = None

\* reconcileLocalUser: must u get a (new) token?  expAt is 0 in the Secret
\* exactly when its lifetime is "0h", so the test for an invalid expAt is part
\* of the comparison of lifetimes.
DeleteAndCreateNewToken(u, c) ==
  secret[u] # None =>
    \/ secret[u].life # NormalLifetime(c.life)
    \/ c.renew /\ secret[u].life # "0h" /\ secret[u].id \in expired
    \/ registered[u] = None

\* reconcileLocalUser, u enabled: the first half of issueToken, up to the
\* write of the user Secret.  Its event puts the CR in the work queue.
IssueTokenSecret(u, c) ==
  LET id == CHOOSE i \in TokenIds \ UsedIds : TRUE IN
    /\ TokenIds \ UsedIds # {}
    /\ secret' = [secret EXCEPT ![u] = [id |-> id, renew |-> c.renew,
                                        life |-> NormalLifetime(c.life)]]
    /\ expired' = expired \cap UsedIds
    /\ left' = left \ {u}
    /\ UNCHANGED <<crState, spec, extra, argocdSecret, registered, renewals>>
    /\ \/ /\ call' = [call EXCEPT !.phase = "register", !.cur = u, !.id = id]
          /\ queued' = TRUE
          /\ UNCHANGED <<holder, main, bounds>>
       \/ Faulty /\ Return(holder, TRUE)  \* written, but the reply was lost

\* Bug variant: a renewal that is switched on is recorded, not scheduled.
KeepTokenUnscheduled(u, c) ==
  /\ secret' = [secret EXCEPT ![u].renew = c.renew]
  /\ queued' = (queued \/ secret' # secret)
  /\ StopTimerIf(ReasonToStopTimer(c), u)
  /\ call' = [call EXCEPT !.todo = @ \ {u}]
  /\ UNCHANGED <<crState, spec, extra, argocdSecret, registered, left, expired,
                 renewals, holder, main, bounds>>

\* reconcileLocalUser, the token is good: record a changed autoRenewToken,
\* then see to it that the renewal is scheduled.
KeepToken(u, c) ==
  /\ secret' = [secret EXCEPT ![u].renew = c.renew]
  /\ \/ /\ queued' = (queued \/ secret' # secret)
        /\ IF c.renew /\ Finite(c.life) /\ entry[u] = None
           THEN startOrRestartLocalUserTimer(u, secret[u].id)
           ELSE StopTimerIf(ReasonToStopTimer(c), u)
        /\ call' = [call EXCEPT !.todo = @ \ {u}]
        /\ UNCHANGED <<holder, main, bounds>>
     \/ /\ secret' # secret       \* written, but the reply was lost
        /\ Faulty /\ Return(holder, TRUE)
        /\ StopTimerIf(ReasonToStopTimer(c), u)
  /\ UNCHANGED <<crState, spec, extra, argocdSecret, registered, left, expired,
                 renewals>>

ReconcileLocalUser(u) ==
  /\ call.phase = "users" /\ ~call.sweep /\ u \in call.todo
  /\ LET c == call.users[u] IN
     \/ /\ c.life = "bad"
        /\ StopTimerIf(ReasonToStopTimer(c), u)
        /\ Return(holder, TRUE)
        /\ UNCHANGED <<cluster, expired, renewals, bounds>>
     \/ /\ c.life # "bad"
        /\ Faulty               \* reading or writing the user Secret fails
        /\ StopTimerIf(ReasonToStopTimer(c), u)
        /\ Return(holder, TRUE)
        /\ UNCHANGED <<cluster, expired, renewals>>
     \/ /\ c.life # "bad" /\ ~c.on
        /\ stopLocalUserTimer(u)
        /\ call' = [call EXCEPT !.phase = "unregister", !.cur = u]
        /\ UNCHANGED <<cluster, expired, holder, main, queued, renewals, bounds>>
     \/ /\ c.life # "bad" /\ c.on /\ ~argocdSecret
        /\ StopTimerIf(ReasonToStopTimer(c), u)
        /\ Return(holder, TRUE)     \* no signing key, no tokens to look at
        /\ UNCHANGED <<cluster, expired, renewals, bounds>>
     \/ /\ c.life # "bad" /\ c.on /\ argocdSecret
        /\ DeleteAndCreateNewToken(u, c) = TRUE
        /\ StopTimerIf(ReasonToStopTimer(c), u)
        /\ IssueTokenSecret(u, c)
     \/ /\ c.life # "bad" /\ c.on /\ argocdSecret
        /\ ~DeleteAndCreateNewToken(u, c)
        /\ KeepToken(u, c)

\* Bug variant: the token is added to argocd-secret only when none is there.
IssueTokenRegisterOnce ==
  /\ call.phase = "register"
  /\ registered' = [registered EXCEPT ![call.cur] =
                      IF @ = None THEN call.id ELSE @]
  /\ IF call.users[call.cur].renew /\ Finite(call.users[call.cur].life)
     THEN startOrRestartLocalUserTimer(call.cur, call.id)
     ELSE UNCHANGED <<timers, entry>>
  /\ call' = NextUser
  /\ queued' = TRUE
  /\ UNCHANGED <<crState, spec, extra, secret, argocdSecret, left, expired,
                 renewals, holder, main, bounds>>

\* The second half of issueToken, and the timer its callers then start.
IssueTokenRegister ==
  /\ call.phase = "register"
  /\ LET u == call.cur
         c == call.users[u] IN
     \/ /\ argocdSecret
        /\ registered' = [registered EXCEPT ![u] = call.id]
        /\ IF c.renew /\ Finite(c.life)
           THEN startOrRestartLocalUserTimer(u, call.id)
           ELSE UNCHANGED <<timers, entry>>
        /\ call' = NextUser
        /\ queued' = TRUE
        /\ UNCHANGED <<holder, main, bounds>>
     \/ /\ ~argocdSecret
        /\ Return(holder, TRUE)
        /\ UNCHANGED <<registered, timers, entry, bounds>>
     \/ /\ Faulty /\ Return(holder, TRUE)
        /\ argocdSecret
        /\ registered' \in {registered, [registered EXCEPT ![u] = call.id]}
        /\ UNCHANGED <<timers, entry>>
  /\ UNCHANGED <<crState, spec, extra, secret, argocdSecret, left, expired,
                 renewals>>

\* Bug variant: a failing update of argocd-secret is logged, and the Secret
\* deleted all the same.
CleanupLocalUserTokenBestEffort ==
  /\ call.phase = "unregister"
  /\ \/ /\ registered' = [registered EXCEPT ![call.cur] = None]
        /\ UNCHANGED bounds
     \/ Faulty /\ UNCHANGED registered
  /\ call' = IF secret[call.cur] = None THEN NextUser
             ELSE [call EXCEPT !.phase = "delete"]
  /\ queued' = TRUE
  /\ UNCHANGED <<crState, spec, extra, secret, argocdSecret, left, expired,
                 timers, entry, renewals, holder, main>>

\* cleanupLocalUser: first the token's entry in argocd-secret ...
CleanupLocalUserToken ==
  /\ call.phase = "unregister"
  /\ LET u == call.cur
         gone == IF call.extra[u] = "apiKey" THEN registered
                 ELSE [registered EXCEPT ![u] = None] IN
     \/ /\ argocdSecret \/ call.extra[u] = "apiKey"
        /\ registered' = gone
        /\ call' = IF secret[u] = None THEN NextUser
                   ELSE [call EXCEPT !.phase = "delete"]
        /\ queued' = (queued \/ registered' # registered)
        /\ UNCHANGED <<holder, main, bounds>>
     \/ /\ ~argocdSecret /\ call.extra[u] # "apiKey"
        /\ Return(holder, TRUE)
        /\ UNCHANGED <<registered, bounds>>
     \/ /\ Faulty /\ Return(holder, TRUE)
        /\ registered' \in {registered, gone}
  /\ UNCHANGED <<crState, spec, extra, secret, argocdSecret, left, expired,
                 timers, entry, renewals>>

\* ... then the user Secret.
CleanupLocalUserSecret ==
  /\ call.phase = "delete"
  /\ LET u == call.cur IN
     \/ /\ secret' = [secret EXCEPT ![u] = None]
        /\ left' = IF call.extra[u] = "apiKey" THEN left \cup {u} ELSE left
        /\ call' = NextUser
        /\ queued' = TRUE
        /\ UNCHANGED <<holder, main, bounds>>
     \/ /\ Faulty /\ Return(holder, TRUE)
        /\ \/ UNCHANGED <<secret, left>>
           \/ /\ secret' = [secret EXCEPT ![u] = None]
              /\ left' = IF call.extra[u] = "apiKey" THEN left \cup {u} ELSE left
  /\ UNCHANGED <<crState, spec, extra, argocdSecret, registered, expired, timers,
                 entry, renewals>>

\* Bug variant: the search for the user among the CR's is negated.
CleanupLocalUsersListFound ==
  /\ call.phase = "users" /\ ~call.sweep /\ call.todo = {}
  /\ call' = [call EXCEPT !.sweep = TRUE,
                !.todo = {u \in Users : secret[u] # None /\ call.users[u] # None}]
  /\ UNCHANGED <<cluster, expired, timers, entry, renewals, holder, main, queued,
                 bounds>>

\* cleanupLocalUsers: list the user Secrets once the users of the CR are done.
CleanupLocalUsersList ==
  /\ call.phase = "users" /\ ~call.sweep /\ call.todo = {}
  /\ \/ /\ call' = [call EXCEPT !.sweep = TRUE,
                      !.todo = {u \in Users : secret[u] # None /\ call.users[u] = None}]
        /\ UNCHANGED <<holder, main, queued, bounds>>
     \/ Faulty /\ Return(holder, TRUE)
  /\ UNCHANGED <<cluster, expired, timers, entry, renewals>>

\* Bug variant: the timer of a removed user is stopped, its token stays.
CleanupLocalUsersNextTimer(u) ==
  /\ call.phase = "users" /\ call.sweep /\ u \in call.todo
  /\ stopLocalUserTimer(u)
  /\ call' = [call EXCEPT !.todo = @ \ {u}]
  /\ UNCHANGED <<cluster, expired, holder, main, queued, renewals, bounds>>

\* cleanupLocalUsers: a Secret whose user is not in the CR.
CleanupLocalUsersNext(u) ==
  /\ call.phase = "users" /\ call.sweep /\ u \in call.todo
  /\ stopLocalUserTimer(u)
  /\ call' = [call EXCEPT !.phase = "unregister", !.cur = u]
  /\ UNCHANGED <<cluster, expired, holder, main, queued, renewals, bounds>>

ReconcileLocalUsersEnd ==
  /\ call.phase = "users" /\ call.sweep /\ call.todo = {}
  /\ Return(holder, FALSE)
  /\ UNCHANGED <<cluster, expired, timers, entry, renewals, bounds>>

-----------------------------------------------------------------------------
(* The controller's worker: Reconcile, as far as local users go.           *)

\* The worker takes the CR off the queue.  On the way to reconcileLocalUsers it
\* creates argocd-secret if it is not there; any step before may fail.
Reconcile ==
  /\ main = "idle" /\ queued
  /\ \/ /\ crState = "present"
        /\ argocdSecret' = TRUE
        /\ main' = "localUsers" /\ queued' = FALSE
        /\ UNCHANGED bounds
     \/ /\ crState = "terminating"
        /\ main' = "cleanupTimers" /\ queued' = FALSE
        /\ UNCHANGED <<argocdSecret, bounds>>
     \/ /\ crState = "absent"
        /\ queued' = FALSE
        /\ UNCHANGED <<argocdSecret, main, bounds>>
     \/ Faulty /\ UNCHANGED <<argocdSecret, main, queued>>
  /\ UNCHANGED <<crState, spec, extra, secret, registered, left, expired, timers,
                 entry, holder, call, renewals>>

\* Bug variant: the lock is not released.
CleanupNamespaceTokenTimersLocked ==
  /\ main = "cleanupTimers" /\ holder = "free"
  /\ timers' = [t \in TimerIds |-> FreeTimer]
  /\ entry' = [u \in Users |-> None]
  /\ main' = "finalize" /\ holder' = "main"
  /\ UNCHANGED <<cluster, expired, call, queued, renewals, bounds>>

CleanupNamespaceTokenTimers ==
  /\ main = "cleanupTimers" /\ holder = "free"
  /\ timers' = [t \in TimerIds |->
                  IF \A u \in Users : entry[u] # t THEN timers[t]
                  ELSE IF timers[t].st = "waiting"
                       THEN [timers[t] EXCEPT !.stopped = TRUE] ELSE FreeTimer]
  /\ entry' = [u \in Users |-> None]
  /\ main' = "finalize"
  /\ UNCHANGED <<cluster, expired, holder, call, queued, renewals, bounds>>

\* removeDeletionFinalizer; the CR and, by their owner references, both
\* Secrets go with it, even under a renewal that is about to register a token.
RemoveDeletionFinalizer ==
  /\ main = "finalize"
  /\ main' = "idle"
  /\ \/ /\ crState' = "absent"
        /\ secret' = [u \in Users |-> None]
        /\ argocdSecret' = FALSE
        /\ registered' = [u \in Users |-> None]
        /\ left' = IF call.phase = "register" THEN {call.cur} ELSE {}
        /\ UNCHANGED <<queued, bounds>>
     \/ /\ Faulty /\ queued' = TRUE
        /\ UNCHANGED <<crState, secret, argocdSecret, registered, left>>
  /\ UNCHANGED <<spec, extra, expired, timers, entry, holder, call, renewals>>

-----------------------------------------------------------------------------
(* The rest of the world.                                                  *)

Edited ==
  /\ edits < MaxEdits
  /\ edits' = edits + 1
  /\ queued' = TRUE
  /\ UNCHANGED <<secret, argocdSecret, registered, left, expired, timers, entry,
                 holder, call, main, renewals, deletes, faults>>

EditCR(u) ==
  /\ crState = "present"
  /\ \E c \in Configs \cup {None}, x \in ExtraConfigs :
       /\ spec' = [spec EXCEPT ![u] = c]
       /\ extra' = [extra EXCEPT ![u] = x]
  /\ UNCHANGED crState
  /\ Edited

DeleteCR ==
  /\ crState = "present"
  /\ crState' = "terminating"
  /\ UNCHANGED <<spec, extra>>
  /\ Edited

\* The CR is created again; deletions bound how often.
CreateCR ==
  /\ crState = "absent"
  /\ crState' = "present"
  /\ queued' = TRUE
  /\ UNCHANGED <<spec, extra, secret, argocdSecret, registered, left, expired, timers,
                 entry, holder, call, main, renewals, edits, deletes, faults>>

\* kubectl delete of a user Secret; its owner reference queues the CR.
ExternalDelete(u) ==
  /\ deletes < MaxExternalDeletes
  /\ deletes' = deletes + 1
  /\ secret[u] # None
  /\ secret' = [secret EXCEPT ![u] = None]
  /\ left' = left \cup {u}
  /\ queued' = TRUE
  /\ UNCHANGED <<crState, spec, extra, argocdSecret, registered, expired, timers,
                 entry, holder, call, main, renewals, edits, faults>>

\* kubectl delete of argocd-secret, with every token in it.
ExternalDeleteArgoCDSecret ==
  /\ deletes < MaxExternalDeletes
  /\ deletes' = deletes + 1
  /\ argocdSecret
  /\ argocdSecret' = FALSE
  /\ registered' = [u \in Users |-> None]
  /\ queued' = TRUE
  /\ UNCHANGED <<crState, spec, extra, secret, left, expired, timers, entry,
                 holder, call, main, renewals, edits, faults>>

\* The clock passes the expAt of a token.
Expire(id) ==
  /\ id \notin expired
  /\ \/ \E u \in Users : secret[u] # None /\ secret[u].id = id /\ secret[u].life # "0h"
     \/ \E t \in TimerIds : timers[t].id = id
  /\ expired' = expired \cup {id}
  /\ UNCHANGED <<cluster, memory, bounds>>

\* The manager's periodic resync puts every CR in the work queue.
Resync ==
  /\ crState # "absent" /\ ~queued
  /\ queued' = TRUE
  /\ UNCHANGED <<cluster, expired, timers, entry, holder, call, main, renewals, bounds>>

\* The operator restarts: its memory is lost, every CR is queued anew.
Crash ==
  /\ Faulty
  /\ timers' = [t \in TimerIds |-> FreeTimer]
  /\ entry' = [u \in Users |-> None]
  /\ holder' = "free" /\ call' = NoCall
  /\ main' = "idle" /\ renewals' = 0
  /\ queued' = (crState # "absent")
  /\ UNCHANGED <<cluster, expired>>

-----------------------------------------------------------------------------
LockedStep ==
  \/ \E u \in Users : ReconcileLocalUser(u)
  \/ IssueTokenRegister
  \/ CleanupLocalUserToken
  \/ CleanupLocalUserSecret
  \/ CleanupLocalUsersList
  \/ \E u \in Users : CleanupLocalUsersNext(u)
  \/ ReconcileLocalUsersEnd

Environment ==
  \/ \E u \in Users : EditCR(u) \/ ExternalDelete(u)
  \/ ExternalDeleteArgoCDSecret
  \/ DeleteCR
  \/ CreateCR
  \/ \E id \in TokenIds : Expire(id)
  \/ Resync
  \/ Crash

Next ==
  \/ \E t \in TimerIds : TimerFires(t) \/ TimerCallback(t)
  \/ ReconcileLocalUsersBegin("main")
  \/ ReconcileLocalUsersBegin("renewal")
  \/ LockedStep
  \/ Reconcile
  \/ CleanupNamespaceTokenTimers
  \/ RemoveDeletionFinalizer
  \/ Environment

Spec == Init /\ [][Next]_vars

(***************************************************************************)
(* Fairness.  Goroutines that can run are run (weak fairness); a goroutine *)
(* that waits for the mutex gets it although others compete for it (strong *)
(* fairness: Go's sync.Mutex hands over to the longest waiter once it has  *)
(* waited 1ms); the manager resyncs its caches forever.  Nothing is        *)
(* assumed of users, of the clock or of faults.                            *)
(***************************************************************************)
Fairness ==
  /\ WF_vars(LockedStep)
  /\ WF_vars(Reconcile)
  /\ WF_vars(RemoveDeletionFinalizer)
  /\ WF_vars(Resync)
  /\ SF_vars(CleanupNamespaceTokenTimers)
  /\ SF_vars(ReconcileLocalUsersBegin("main"))
  /\ SF_vars(ReconcileLocalUsersBegin("renewal"))
  /\ \A t \in TimerIds : WF_vars(TimerFires(t)) /\ SF_vars(TimerCallback(t))

FairSpec == Spec /\ Fairness

-----------------------------------------------------------------------------
(* Properties.                                                             *)

\* Every Secret, key and timer that the CR's events and the timers will touch
\* has been dealt with: nothing is running, queued or about to run.
Quiescent ==
  /\ holder = "free" /\ main = "idle" /\ ~queued /\ renewals = 0
  /\ \A t \in TimerIds : timers[t].st # "waiting"

\* The CR asks for an API token for u (and u is not a legacy extraConfig user).
Wanted(u) ==
  /\ crState = "present" /\ extra[u] = "none"
  /\ spec[u] # None /\ spec[u].on /\ spec[u].life # "bad"

\* A timer that can still call back and was not stopped is the one in the map:
\* stop/start/cleanup never lose track of a live timer, so a token is never
\* renewed by a timer nobody can stop.
NoLeakedTimer ==
  \A t \in TimerIds :
    timers[t].st \in {"armed", "waiting"} /\ ~timers[t].stopped
      => timers[t].user \in Users /\ entry[timers[t].user] = t

\* cleanupLocalUser removes the token before the Secret, and issueToken writes
\* the Secret before the token: however calls fail and whenever the operator
\* crashes, a token Argo CD accepts has a user Secret by which
\* cleanupLocalUsers will find it, unless it was left on purpose (legacy
\* extraConfig user) or the Secret was deleted by someone else.
NoOrphanToken ==
  \A u \in Users : registered[u] # None /\ secret[u] = None => u \in left

\* Once the dust settles, a user whose token the CR does not ask for has none:
\* disabling or removing a user revokes the token despite failed calls and
\* crashes.
RevokedWhenQuiescent ==
  Quiescent /\ crState = "present" =>
    \A u \in Users :
      extra[u] = "none" /\ (spec[u] = None \/ ~spec[u].on) /\ u \notin left
        => registered[u] = None

\* Once the dust settles, every user the CR asks for has a Secret of the right
\* lifetime and autoRenew value and some token registered.
IssuedWhenQuiescent ==
  Quiescent =>
    \A u \in Users : Wanted(u) =>
      /\ secret[u] # None /\ registered[u] # None
      /\ secret[u].life = NormalLifetime(spec[u].life)
      /\ secret[u].renew = spec[u].renew

\* The running reconcileLocalUsers has dealt with u's entry of the CR, without
\* an error, and u is to have a token.
Reconciled(u) ==
  call.sweep /\ call.users[u] # None /\ call.extra[u] = "none" /\ call.users[u].on

\* reconcileLocalUser does not return without an error while the token handed
\* to the user in the Secret is another than the one Argo CD accepts.
InSyncOnSuccess ==
  \A u \in Users :
    Reconciled(u) /\ secret[u] # None /\ registered[u] # None
      => registered[u] = secret[u].id

\* reconcileLocalUser does not return without an error while a token that is to
\* be renewed has no timer that will do so.
RenewalScheduledOnSuccess ==
  \A u \in Users :
    Reconciled(u) /\ call.users[u].renew /\ Finite(call.users[u].life)
      => entry[u] # None /\ timers[entry[u]].st \in {"armed", "waiting"}

\* As long as no call has failed, the two writes of issueToken leave the user
\* with the token that Argo CD accepts, in whichever order edits of the CR,
\* timers and deletions by others come.
InSyncUntilFault == faults = 0 => InSyncOnSuccess

\* As long as no call has failed, no renewal is missed: reconcileLocalUser
\* never mistakes a timer that has fired for one that is still to come.
ScheduledUntilFault == faults = 0 => RenewalScheduledOnSuccess

\* A timer in the map that has not fired.
Armed(u) == entry[u] # None /\ timers[entry[u]].st = "armed"

\* Once the dust settles, a user who holds a Secret has a timer armed only if
\* the CR gives reconcileLocalUser no reason to stop it: the user is there and
\* on, the token is to be renewed and its lifetime is not the infinite one.
TimerOnlyIfAskedFor ==
  Quiescent /\ crState = "present" =>
    \A u \in Users :
      extra[u] = "none" /\ secret[u] # None /\ Armed(u)
        => Wanted(u) /\ spec[u].renew /\ spec[u].life # "none"

\* No lifetime is spelled 0h, nobody has deleted the CR, and nobody else a
\* Secret: in each of these cases a timer may be left that nothing stops.
Undisturbed ==
  /\ crState = "present" /\ deletes = 0
  /\ \A u \in Users : spec[u] # None => spec[u].life # "zero"

\* "Ensure the timer is stopped for all cases where it should be stopped": as
\* long as that is so, once the dust settles only tokens that expire and are to
\* be renewed have a timer armed, whether or not the user still has a Secret.
TimerOnlyIfRenewable ==
  []Undisturbed =>
    [](Quiescent =>
         \A u \in Users :
           extra[u] = "none" /\ Armed(u)
             => Wanted(u) /\ spec[u].renew /\ Finite(spec[u].life))

\* An expired token to be renewed is renewed, whatever failed before: by the
\* timer, or else at the latest by the reconciliation of the next resync.
ExpiredIsRenewed ==
  \A u \in Users :
    (Wanted(u) /\ spec[u].renew /\ secret[u] # None /\ secret[u].id \in expired)
      ~> (secret[u] = None \/ secret[u].id \notin expired
            \/ ~Wanted(u) \/ ~spec[u].renew)

\* Disabling or removing a user eventually revokes the token (unless the CR
\* takes it back, or the token was left on purpose).
RemovedIsRevoked ==
  \A u \in Users :
    (crState = "present" /\ extra[u] = "none" /\ (spec[u] = None \/ ~spec[u].on))
      ~> (registered[u] = None \/ u \in left \/ extra[u] # "none" \/ Wanted(u))

\* Deletion of the CR completes, however busy the renewal goroutines are.
DeletionCompletes == (crState = "terminating") ~> (crState = "absent")
=============================================================================
