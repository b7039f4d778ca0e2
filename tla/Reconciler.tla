----------------------------- MODULE Reconciler -----------------------------
(***************************************************************************)
(* The worker that reconciles one ArgoCD resource, the handler of its      *)
(* events, the API server and the people who use it: Reconcile,            *)
(* internalReconcile and setResourceWatches of src/controllers/argocd. A   *)
(* pass calls the functions of a plan one after another. The plan, for     *)
(* each set of options and facts, is a parameter.                          *)
(***************************************************************************)
EXTENDS Resources

(* A scene is a part of the operator:                                      *)
(*   objects     the objects that the plan is about                        *)
(*   watched     those of which a change is followed by a pass             *)
(*   owned       those that the garbage collector deletes after the ArgoCD *)
(*               resource                                                  *)
(*   clusterWide those that the deletion of the resource takes along       *)
(*   plan        what a pass calls, for each set of options and facts      *)
(*   order       where these calls are in the plan of the whole operator   *)
(*   cleanup     what the handler calls when notifications are disabled    *)
(*   specs       the sets of options that the resource may have            *)
(*   facts       the sets of facts that may hold of the cluster            *)
(*   volatile    facts that change while the operator runs, not unnoticed  *)
(*   legacy      objects that an earlier version may have left             *)
(*   edits       how often the resource is edited, at most                 *)
(*   budget      how often something else goes wrong                       *)
CONSTANT Scene

(* A plan lists calls for every set of options and facts; a call that is   *)
(* about no object of the scene is a check, which can only fail.           *)
PlansAre(part, plan) ==
  \A on \in part.specs, known \in part.facts :
    /\ on \cup known \in DOMAIN plan
    /\ Len(plan[on \cup known]) \in Nat
    /\ DOMAIN plan[on \cup known] = 1..Len(plan[on \cup known])
    /\ \A i \in DOMAIN plan[on \cup known] :
         LET r == plan[on \cup known][i]
         IN \/ r.obj \in part.objects
            \/ r.fails /\ ~r.logged

ASSUME PlanAssumption ==
  \A s \in DOMAIN Scene :
    LET part == Scene[s]
    IN /\ part.budget \in Nat /\ part.legacy \subseteq part.objects
       /\ PlansAre(part, part.plan) /\ PlansAre(part, part.cleanup)

(* What a call that is about a watched object looks at is watched too. *)
ASSUME WatchAssumption ==
  \A s \in DOMAIN Scene :
    LET part == Scene[s]
    IN \A on \in part.specs, known \in part.facts :
         \A i \in DOMAIN part.plan[on \cup known] :
           LET r == part.plan[on \cup known][i]
           IN r.obj \in part.watched => LooksAt(r) \cap part.objects \subseteq part.watched

VARIABLES
  scene,    \* the part of the operator at hand
  spec,     \* the ArgoCD resource: options, generation, phase
  facts,    \* what holds of the cluster and of the operator's environment
  live,     \* the objects that exist
  pass,     \* the call the pass is at (0: there is no pass), the resource
            \* as the pass has read it, the changes it has made
  lost,     \* objects of which the last pass logged an error, and went on
  queued,   \* the resource is in the work queue
  events,   \* changes of the resource that have not been delivered
  informed, \* the resource as last delivered
  handler,  \* the call the handler is at (0: it is idle)
  budget

vars == <<scene, spec, facts, live, pass, lost, queued, events, informed, handler,
          budget>>

This == Scene[scene]
Resting == [at |-> 0, seen |-> <<>>, done |-> {}]

Calls(options) == This.plan[options \cup facts]
PassCalls == Calls(pass.seen.on)
CleanupCalls == This.cleanup[informed.on \cup facts]

Generations ==
  [on : This.specs, rev : Nat, phase : {"present", "deleting", "gone"}]
Changes == {"create", "update", "delete"} \X This.objects

TypeOK ==
  /\ scene \in DOMAIN Scene
  /\ spec \in Generations
  /\ facts \in This.facts
  /\ DOMAIN live \subseteq This.objects
  /\ pass \in [at : Nat, seen : Generations \cup {<<>>}, done : SUBSET Changes]
  /\ pass.at > 0 => pass.seen \in Generations /\ pass.seen.phase = "present"
  /\ lost \subseteq This.objects
  /\ queued \in BOOLEAN
  /\ events \in Seq(Generations)
  /\ informed \in Generations
  /\ handler \in Nat
  /\ budget \in Nat

Init ==
  /\ scene \in DOMAIN Scene
  /\ \E on \in This.specs : spec = [on |-> on, rev |-> 1, phase |-> "present"]
  /\ facts \in This.facts
  /\ \E objs \in SUBSET This.legacy : live = [o \in objs |-> <<>>]
  /\ pass = Resting /\ lost = {}
  /\ queued = TRUE
  /\ events = <<>> /\ informed = spec /\ handler = 0
  /\ budget = This.budget
-----------------------------------------------------------------------------
(* Bug variant: a change that happens during a pass is not looked at again. *)
NoticedWhenIdle(objs) ==
  queued' = (queued \/ (pass.at = 0 /\ objs \cap This.watched # {}))

(* An object has changed: a watched one puts the resource into the queue.  *)
Noticed(objs) == queued' = (queued \/ objs \cap This.watched # {})

(* Bug variant: the deletion timestamp is not looked at. *)
StartPassWhileDeleting ==
  /\ pass.at = 0 /\ queued
  /\ pass' = [at |-> 1, seen |-> spec, done |-> {}]
  /\ queued' = FALSE /\ lost' = {}
  /\ UNCHANGED <<scene, spec, facts, live, events, informed, handler, budget>>

StartPass ==
  /\ pass.at = 0 /\ queued /\ spec.phase = "present"
  /\ pass' = [at |-> 1, seen |-> spec, done |-> {}]
  /\ queued' = FALSE /\ lost' = {}
  /\ UNCHANGED <<scene, spec, facts, live, events, informed, handler, budget>>

PassOutcome(r) == Outcome(r, pass.seen.rev, live, pass.done)

(* The next call of the pass does its work. *)
Call ==
  /\ pass.at > 0 /\ pass.at \in DOMAIN PassCalls
  /\ LET r == PassCalls[pass.at]
         outcome == PassOutcome(r)
     IN /\ outcome # "error"
        /\ live' = Applied(r, pass.seen.rev, live, outcome)
        /\ pass' = [at |-> pass.at + 1, seen |-> pass.seen,
                    done |-> Remembered(r, outcome, pass.done)]
        /\ IF outcome = "none" THEN UNCHANGED queued ELSE Noticed({r.obj})
  /\ UNCHANGED <<scene, spec, facts, lost, events, informed, handler, budget>>

(* Bug variant: the error is logged, and the pass not tried again. *)
CallFailsForGood ==
  /\ pass.at > 0 /\ pass.at \in DOMAIN PassCalls
  /\ PassOutcome(PassCalls[pass.at]) # "none"
  /\ budget > 0 /\ budget' = budget - 1
  /\ pass' = Resting
  /\ UNCHANGED <<scene, spec, facts, live, lost, queued, events, informed, handler>>

(* The next call fails: the configuration is refused, or, at the cost of   *)
(* the budget, the API server does not answer. The error ends the pass,    *)
(* unless the caller only logs it.                                         *)
CallFails ==
  /\ pass.at > 0 /\ pass.at \in DOMAIN PassCalls
  /\ LET r == PassCalls[pass.at]
         outcome == PassOutcome(r)
     IN /\ outcome # "none"
        /\ \/ outcome = "error" /\ UNCHANGED budget
           \/ outcome # "error" /\ budget > 0 /\ budget' = budget - 1
        /\ IF r.logged
           THEN /\ pass' = [pass EXCEPT !.at = @ + 1]
                /\ lost' = lost \cup {r.obj}
                /\ UNCHANGED queued
           ELSE pass' = Resting /\ queued' = TRUE /\ UNCHANGED lost
  /\ UNCHANGED <<scene, spec, facts, live, events, informed, handler>>

EndPass ==
  /\ pass.at > 0 /\ pass.at \notin DOMAIN PassCalls
  /\ pass' = Resting
  /\ UNCHANGED <<scene, spec, facts, live, lost, queued, events, informed, handler,
                 budget>>
-----------------------------------------------------------------------------
(* A pass for a resource that is being deleted removes the cluster-wide    *)
(* objects and then the finalizer; it may fail half-way.                   *)
Without(objs) == [o \in DOMAIN live \ objs |-> live[o]]

Finalize ==
  /\ pass.at = 0 /\ queued /\ spec.phase = "deleting"
  /\ \/ /\ live' = Without(This.clusterWide)
        /\ spec' = [spec EXCEPT !.phase = "gone"]
        /\ UNCHANGED budget
     \/ /\ budget > 0 /\ budget' = budget - 1
        /\ \E objs \in SUBSET (This.clusterWide \cap DOMAIN live) : live' = Without(objs)
        /\ UNCHANGED spec
  /\ UNCHANGED <<scene, facts, pass, lost, queued, events, informed, handler>>

(* The resource is not found. *)
Forget ==
  /\ pass.at = 0 /\ queued /\ spec.phase = "gone"
  /\ queued' = FALSE
  /\ UNCHANGED <<scene, spec, facts, live, pass, lost, events, informed, handler,
                 budget>>

(* The garbage collector deletes what the resource owned, in any order;    *)
(* nobody looks at the objects meanwhile.                                  *)
CollectGarbage ==
  /\ spec.phase = "gone" /\ DOMAIN live \cap This.owned # {}
  /\ live' = Without(This.owned)
  /\ UNCHANGED <<scene, spec, facts, pass, lost, queued, events, informed, handler,
                 budget>>
-----------------------------------------------------------------------------
(* Events of the resource are delivered in order. The predicate of the     *)
(* watch deletes the resources of notifications when they are disabled,    *)
(* and only then lets the resource into the queue.                         *)
Disables(old, new) == "notifications" \in old \ new

Deliver ==
  /\ events # <<>> /\ handler = 0
  /\ informed' = Head(events) /\ events' = Tail(events)
  /\ IF Disables(informed.on, Head(events).on)
     THEN handler' = 1 /\ UNCHANGED queued
     ELSE queued' = TRUE /\ UNCHANGED handler
  /\ UNCHANGED <<scene, spec, facts, live, pass, lost, budget>>

HandlerCall ==
  /\ handler \in DOMAIN CleanupCalls
  /\ LET r == CleanupCalls[handler]
         outcome == Outcome(r, informed.rev, live, {})
     IN /\ outcome # "error"
        /\ live' = Applied(r, informed.rev, live, outcome)
        /\ IF outcome = "none" THEN UNCHANGED queued ELSE Noticed({r.obj})
  /\ handler' = handler + 1
  /\ UNCHANGED <<scene, spec, facts, pass, lost, events, informed, budget>>

(* The handler is done, or has met an error, which it logs. *)
HandlerEnds ==
  /\ handler > 0
  /\ \/ handler \notin DOMAIN CleanupCalls /\ UNCHANGED budget
     \/ /\ handler \in DOMAIN CleanupCalls
        /\ Outcome(CleanupCalls[handler], informed.rev, live, {}) # "none"
        /\ budget > 0 /\ budget' = budget - 1
  /\ handler' = 0 /\ queued' = TRUE
  /\ UNCHANGED <<scene, spec, facts, live, pass, lost, events, informed>>
-----------------------------------------------------------------------------
Disturb == budget > 0 /\ budget' = budget - 1

Edit ==
  /\ spec.phase = "present" /\ spec.rev <= This.edits
  /\ \E on \in This.specs :
       spec' = [on |-> on, rev |-> spec.rev + 1, phase |-> "present"]
  /\ events' = Append(events, spec')
  /\ UNCHANGED <<scene, facts, live, pass, lost, queued, informed, handler,
                 budget>>

Delete ==
  /\ spec.phase = "present"
  /\ spec' = [spec EXCEPT !.phase = "deleting"]
  /\ events' = Append(events, spec')
  /\ UNCHANGED <<scene, facts, live, pass, lost, queued, informed, handler, budget>>

(* Someone deletes an object, or writes other values to its fields, save   *)
(* those that the API server lets nobody change.                           *)
Unchangeable(o) ==
  CASE o[1] = "RoleBinding" -> {"roleRef"}
    [] o[1] = "Deployment" -> {"selector"}
    [] OTHER -> {}

Interfere(o) ==
  /\ Disturb /\ o \in DOMAIN live
  /\ \/ live' = Without({o})
     \/ live' = [live EXCEPT ![o] =
                   [f \in DOMAIN @ |->
                      IF f \in Unchangeable(o) THEN @[f] ELSE <<"foreign", 0>>]]
  /\ Noticed({o})
  /\ UNCHANGED <<scene, spec, facts, pass, lost, events, informed, handler>>

FactsChange ==
  /\ Disturb
  /\ facts' \in This.facts /\ facts' \ This.volatile = facts \ This.volatile
  /\ facts' # facts
  /\ queued' = TRUE
  /\ UNCHANGED <<scene, spec, live, pass, lost, events, informed, handler>>

(* A new process lists all resources; its environment may be another. *)
Restart ==
  /\ Disturb
  /\ facts' \in This.facts
  /\ pass' = Resting /\ handler' = 0
  /\ queued' = TRUE /\ events' = <<>> /\ informed' = spec
  /\ UNCHANGED <<scene, spec, live, lost>>
-----------------------------------------------------------------------------
Worker == StartPass \/ Call \/ CallFails \/ EndPass \/ Finalize \/ Forget
Informer == Deliver \/ HandlerCall \/ HandlerEnds

Environment ==
  \/ Edit \/ Delete \/ FactsChange \/ Restart
  \/ \E o \in This.objects : Interfere(o)

Next == Worker \/ Informer \/ CollectGarbage \/ Environment

Spec == Init /\ [][Next]_vars

(* The worker, the event handler and the garbage collector do not stop.    *)
Fairness == WF_vars(Worker) /\ WF_vars(Informer) /\ WF_vars(CollectGarbage)
FairSpec == Spec /\ Fairness
-----------------------------------------------------------------------------
(* Nothing is left to do for the resource. *)
AtRest == pass.at = 0 /\ ~queued /\ events = <<>> /\ handler = 0

(* No call of a pass would change a watched object, save one of which the  *)
(* last pass logged an error.                                              *)
Consistent(wish, world) ==
  LET part == Scene[wish.scene]
      calls == part.plan[wish.spec.on \cup wish.facts]
  IN \A i \in DOMAIN calls :
       calls[i].obj \in part.watched \ world.lost
         => Outcome(calls[i], wish.spec.rev, world.live, {}) = "none"

Wish == [scene |-> scene, spec |-> spec, facts |-> facts]
World == [live |-> live, lost |-> lost]

(* The operator is never at rest while a pass would still change           *)
(* something: no change of the ArgoCD resource, of an object or of a fact  *)
(* is overlooked, whatever the pass was doing at the time                  *)
(* (setResourceWatches, Reconcile).                                        *)
ConsistentAtRest ==
  AtRest /\ spec.phase = "present" => Consistent(Wish, World)

Promise == INSTANCE LevelTriggered WITH
  wish <- Wish, world <- World,
  resting <- AtRest /\ spec.phase = "present"

(* The operator does what a level-triggered controller promises.           *)
LevelTriggeredSpec == Promise!Spec
=============================================================================
