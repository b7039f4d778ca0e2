-------------------------- MODULE ReconcilerProofs --------------------------
(***************************************************************************)
(* Proofs about Reconciler, for every scene that satisfies its             *)
(* assumptions.                                                            *)
(***************************************************************************)
EXTENDS Reconciler, TLAPS

-----------------------------------------------------------------------------
(* What a call does, and on what it depends.                               *)

(* A call that leaves things alone has returned early, or found the object *)
(* as it should be.                                                        *)
Content(r, rev, live0) ==
  /\ ~r.doomed /\ ~r.fails /\ ~r.late
  /\ Differing(r, rev, live0[r.obj]) = {}

LEMMA NoneMeans ==
  ASSUME NEW r, NEW rev, NEW live0, NEW done
  PROVE  Outcome(r, rev, live0, done) = "none" <=>
           \/ Skipped(r, live0, done)
           \/ r.obj \notin DOMAIN live0 /\ ~r.wanted
           \/ r.obj \in DOMAIN live0 /\ Content(r, rev, live0)
<1> DEFINE exists == r.obj \in DOMAIN live0
           differing == Differing(r, rev, live0[r.obj])
<1>1. CASE Skipped(r, live0, done)
  BY <1>1 DEF Outcome
<1>2. CASE ~Skipped(r, live0, done) /\ ~exists
  BY <1>2 DEF Outcome
<1>3. CASE ~Skipped(r, live0, done) /\ exists
  <2>1. CASE differing = {}
    BY <1>3, <2>1 DEF Outcome, Content
  <2>2. CASE differing # {}
    BY <1>3, <2>2 DEF Outcome, Content
  <2> QED BY <2>1, <2>2
<1> QED BY <1>1, <1>2, <1>3

LEMMA OutcomeType ==
  ASSUME NEW r, NEW rev, NEW live0, NEW done
  PROVE  /\ Outcome(r, rev, live0, done) \in {"none", "delete", "error", "create", "update"}
         /\ Outcome(r, rev, live0, done) = "delete" => r.obj \in DOMAIN live0
         /\ Outcome(r, rev, live0, done) = "update" => r.obj \in DOMAIN live0
         /\ Outcome(r, rev, live0, done) = "create" => ~r.fails
  BY DEF Outcome

(* What a call does to the objects stays within the scene. *)
LEMMA AppliedType ==
  ASSUME NEW r, NEW rev, NEW live0, NEW done, NEW objs,
         DOMAIN live0 \subseteq objs, r.obj \in objs \/ r.fails
  PROVE  LET outcome == Outcome(r, rev, live0, done)
         IN /\ DOMAIN Applied(r, rev, live0, outcome) \subseteq objs
            /\ outcome \in {"create", "update", "delete"} => r.obj \in objs
<1> DEFINE outcome == Outcome(r, rev, live0, done)
<1>1. outcome \in {"none", "delete", "error", "create", "update"}
  BY OutcomeType
<1>2. outcome \in {"create", "update", "delete"} => r.obj \in objs
  BY OutcomeType
<1> HIDE DEF outcome
<1>3. DOMAIN Applied(r, rev, live0, outcome) \subseteq objs
  BY <1>1, <1>2 DEF Applied
<1> QED BY <1>2, <1>3 DEF outcome

(* A call changes its own object only. *)
LEMMA AppliedElsewhere ==
  ASSUME NEW r, NEW rev, NEW live0, NEW outcome, NEW o, o # r.obj,
         outcome = "update" => r.obj \in DOMAIN live0
  PROVE  /\ o \in DOMAIN Applied(r, rev, live0, outcome) <=> o \in DOMAIN live0
         /\ o \in DOMAIN live0 => Applied(r, rev, live0, outcome)[o] = live0[o]
  BY DEF Applied

(* Whether a call has something to do depends on the objects it looks at,  *)
(* and on the changes made to them.                                        *)
Agree(live1, live2, objs) ==
  \A o \in objs : /\ o \in DOMAIN live1 <=> o \in DOMAIN live2
                  /\ o \in DOMAIN live1 => live1[o] = live2[o]

LEMMA SkippedFrame ==
  ASSUME NEW r, NEW live1, NEW live2, NEW done, NEW objs, NEW W,
         DOMAIN live1 \subseteq objs, DOMAIN live2 \subseteq objs,
         LooksAt(r) \cap objs \subseteq W, Agree(live1, live2, W),
         done \subseteq {"create", "update", "delete"} \X objs,
         \A c \in done : c[2] \notin W
  PROVE  Skipped(r, live1, done) <=> Skipped(r, live2, {})
<1>1. r.unless \cap DOMAIN live1 # {} <=> r.unless \cap DOMAIN live2 # {}
  BY DEF Agree, LooksAt
<1>2. r.follows # <<>> => r.follows \notin done
  <2> SUFFICES ASSUME r.follows # <<>>, r.follows \in done PROVE FALSE
    OBVIOUS
  <2>1. r.follows[2] \in objs /\ r.follows[2] \notin W
    OBVIOUS
  <2> QED BY <2>1 DEF LooksAt
<1>3. r.defers # <<>> => <<"delete", r.defers[1]>> \notin done
  <2> SUFFICES ASSUME r.defers # <<>>, <<"delete", r.defers[1]>> \in done PROVE FALSE
    OBVIOUS
  <2>1. r.defers[1] \in objs /\ r.defers[1] \notin W
    OBVIOUS
  <2> QED BY <2>1 DEF LooksAt
<1>4. r.awaits \subseteq DOMAIN live1 <=> r.awaits \subseteq DOMAIN live2
  BY DEF Agree, LooksAt
<1> QED BY <1>1, <1>2, <1>3, <1>4 DEF Skipped

LEMMA OutcomeFrame ==
  ASSUME NEW r, NEW rev, NEW live1, NEW live2, NEW done, NEW objs, NEW W,
         DOMAIN live1 \subseteq objs, DOMAIN live2 \subseteq objs,
         LooksAt(r) \cap objs \subseteq W, Agree(live1, live2, W),
         done \subseteq {"create", "update", "delete"} \X objs,
         \A c \in done : c[2] \notin W, r.obj \in W,
         Outcome(r, rev, live1, done) = "none"
  PROVE  Outcome(r, rev, live2, {}) = "none"
<1>1. Skipped(r, live1, done) <=> Skipped(r, live2, {})
  BY SkippedFrame
<1>2. r.obj \in DOMAIN live1 <=> r.obj \in DOMAIN live2
  BY DEF Agree
<1>3. r.obj \in DOMAIN live1 => live1[r.obj] = live2[r.obj]
  BY DEF Agree
<1>4. \/ Skipped(r, live1, done)
      \/ r.obj \notin DOMAIN live1 /\ ~r.wanted
      \/ r.obj \in DOMAIN live1 /\ Content(r, rev, live1)
  BY NoneMeans
<1>5. \/ Skipped(r, live2, {})
      \/ r.obj \notin DOMAIN live2 /\ ~r.wanted
      \/ r.obj \in DOMAIN live2 /\ Content(r, rev, live2)
  BY <1>1, <1>2, <1>3, <1>4 DEF Content
<1> QED BY <1>5, NoneMeans
-----------------------------------------------------------------------------
(* What the assumptions say of the plans at hand. *)
LEMMA PlanFacts ==
  ASSUME scene \in DOMAIN Scene, facts \in This.facts, NEW on \in This.specs
  PROVE  /\ Len(Calls(on)) \in Nat
         /\ DOMAIN Calls(on) = 1..Len(Calls(on))
         /\ \A i \in DOMAIN Calls(on) :
              /\ Calls(on)[i].obj \in This.objects
                   \/ (Calls(on)[i].fails /\ ~Calls(on)[i].logged)
              /\ Calls(on)[i].obj \in This.watched =>
                   LooksAt(Calls(on)[i]) \cap This.objects \subseteq This.watched
<1>1. PlansAre(This, This.plan)
  BY PlanAssumption DEF This
<1>2. /\ Len(Calls(on)) \in Nat
      /\ DOMAIN Calls(on) = 1..Len(Calls(on))
      /\ \A i \in DOMAIN Calls(on) :
           Calls(on)[i].obj \in This.objects
             \/ (Calls(on)[i].fails /\ ~Calls(on)[i].logged)
  BY <1>1 DEF PlansAre, Calls
<1>3. \A i \in DOMAIN Calls(on) :
        Calls(on)[i].obj \in This.watched =>
          LooksAt(Calls(on)[i]) \cap This.objects \subseteq This.watched
  BY WatchAssumption DEF This, Calls
<1> QED BY <1>2, <1>3

LEMMA CleanupFacts ==
  ASSUME TypeOK
  PROVE  \A i \in DOMAIN CleanupCalls :
           CleanupCalls[i].obj \in This.objects \/ CleanupCalls[i].fails
<1>1. PlansAre(This, This.cleanup)
  BY PlanAssumption DEF This, TypeOK
<1>2. informed.on \in This.specs /\ facts \in This.facts
  BY DEF TypeOK, Generations
<1> QED BY <1>1, <1>2 DEF PlansAre, CleanupCalls

(* The conjuncts of TypeOK that a step leaves alone. *)
LEMMA SameScene ==
  ASSUME UNCHANGED scene
  PROVE  This' = This /\ Generations' = Generations /\ Changes' = Changes
  BY DEF This, Generations, Changes

LEMMA TypeInit == Init => TypeOK
<1> SUFFICES ASSUME Init PROVE TypeOK
  OBVIOUS
<1>1. scene \in DOMAIN Scene /\ facts \in This.facts
  BY DEF Init
<1>2. spec \in Generations
  BY DEF Init, Generations
<1>3. DOMAIN live \subseteq This.legacy
  BY DEF Init
<1>4. budget \in Nat
  BY PlanAssumption DEF Init, This
<1>5. pass \in [at : Nat, seen : Generations \cup {<<>>}, done : SUBSET Changes]
      /\ pass.at = 0
  BY DEF Init, Resting
<1>6. This.legacy \subseteq This.objects
  BY PlanAssumption DEF Init, This
<1> QED BY <1>1, <1>2, <1>3, <1>4, <1>5, <1>6 DEF Init, TypeOK

LEMMA TypeCall == TypeOK /\ Call => TypeOK'
<1> SUFFICES ASSUME TypeOK, Call PROVE TypeOK'
  OBVIOUS
<1> DEFINE r == PassCalls[pass.at]
           outcome == Outcome(r, pass.seen.rev, live, pass.done)
<1>1. pass.at > 0 /\ pass.at \in DOMAIN PassCalls
  BY DEF Call
<1>2. pass.seen.on \in This.specs
  BY <1>1 DEF TypeOK, Generations
<1>3. r.obj \in This.objects \/ r.fails
  BY <1>1, <1>2, PlanFacts DEF TypeOK, PassCalls
<1>4. /\ DOMAIN Applied(r, pass.seen.rev, live, outcome) \subseteq This.objects
      /\ outcome \in {"create", "update", "delete"} => r.obj \in This.objects
  BY <1>3, AppliedType DEF TypeOK
<1>5. outcome # "error" /\ live' = Applied(r, pass.seen.rev, live, outcome)
  BY DEF Call, PassOutcome
<1>6. outcome \in {"none", "delete", "error", "create", "update"}
  BY OutcomeType
<1>7. /\ pass' = [at |-> pass.at + 1, seen |-> pass.seen,
                   done |-> Remembered(r, outcome, pass.done)]
      /\ IF outcome = "none" THEN UNCHANGED queued ELSE Noticed({r.obj})
  BY DEF Call, PassOutcome
<1> HIDE DEF r, outcome
<1>8. UNCHANGED <<scene, spec, facts, lost, events, informed, handler, budget>>
  BY DEF Call
<1>9. /\ pass' \in [at : Nat, seen : Generations \cup {<<>>}, done : SUBSET Changes]
      /\ pass'.seen = pass.seen
  <2>1. outcome # "none" => <<outcome, r.obj>> \in Changes
    BY <1>4, <1>5, <1>6 DEF Changes
  <2>2. Remembered(r, outcome, pass.done) \in SUBSET Changes
    BY <2>1 DEF TypeOK, Remembered
  <2> QED BY <1>7, <2>2 DEF TypeOK
<1>10. queued' \in BOOLEAN
  BY <1>7 DEF TypeOK, Noticed
<1> QED
  BY <1>1, <1>4, <1>5, <1>8, <1>9, <1>10, SameScene DEF TypeOK

LEMMA TypeCallFails == TypeOK /\ CallFails => TypeOK'
<1> SUFFICES ASSUME TypeOK, CallFails PROVE TypeOK'
  OBVIOUS
<1> DEFINE r == PassCalls[pass.at]
<1>1. pass.at > 0 /\ pass.at \in DOMAIN PassCalls
  BY DEF CallFails
<1>2. pass.seen.on \in This.specs
  BY <1>1 DEF TypeOK, Generations
<1>3. r.logged => r.obj \in This.objects
  BY <1>1, <1>2, PlanFacts DEF TypeOK, PassCalls
<1>4. /\ \/ UNCHANGED budget
         \/ budget > 0 /\ budget' = budget - 1
      /\ IF r.logged
         THEN /\ pass' = [pass EXCEPT !.at = @ + 1]
              /\ lost' = lost \cup {r.obj} /\ UNCHANGED queued
         ELSE pass' = Resting /\ queued' = TRUE /\ UNCHANGED lost
      /\ UNCHANGED <<scene, spec, facts, live, events, informed, handler>>
  BY DEF CallFails
<1> HIDE DEF r
<1>5. budget' \in Nat
  BY <1>4 DEF TypeOK
<1>6. CASE r.logged
  <2>1. /\ pass' \in [at : Nat, seen : Generations \cup {<<>>}, done : SUBSET Changes]
        /\ pass'.seen = pass.seen
    BY <1>4, <1>6 DEF TypeOK
  <2> QED BY <1>1, <1>3, <1>4, <1>5, <1>6, <2>1, SameScene DEF TypeOK
<1>7. CASE ~r.logged
  <2>1. /\ pass' \in [at : Nat, seen : Generations \cup {<<>>}, done : SUBSET Changes]
        /\ pass'.at = 0
    BY <1>4, <1>7 DEF Resting
  <2> QED BY <1>4, <1>5, <1>7, <2>1, SameScene DEF TypeOK
<1> QED BY <1>6, <1>7

LEMMA TypeHandlerCall == TypeOK /\ HandlerCall => TypeOK'
<1> SUFFICES ASSUME TypeOK, HandlerCall PROVE TypeOK'
  OBVIOUS
<1> DEFINE r == CleanupCalls[handler]
           outcome == Outcome(r, informed.rev, live, {})
<1>1. r.obj \in This.objects \/ r.fails
  BY CleanupFacts DEF HandlerCall
<1>2. DOMAIN Applied(r, informed.rev, live, outcome) \subseteq This.objects
  BY <1>1, AppliedType DEF TypeOK
<1>3. DOMAIN live' \subseteq This.objects
  BY <1>2 DEF HandlerCall
<1>4. queued' \in BOOLEAN
  BY DEF HandlerCall, Noticed, TypeOK
<1>5. /\ handler' = handler + 1
      /\ UNCHANGED <<scene, spec, facts, pass, lost, events, informed, budget>>
  BY DEF HandlerCall
<1> QED BY <1>3, <1>4, <1>5, SameScene DEF TypeOK

LEMMA TypeDeliver == TypeOK /\ Deliver => TypeOK'
<1> SUFFICES ASSUME TypeOK, Deliver PROVE TypeOK'
  OBVIOUS
<1>1. Head(events) \in Generations /\ Tail(events) \in Seq(Generations)
  BY DEF TypeOK, Deliver
<1>2. /\ informed' = Head(events) /\ events' = Tail(events)
      /\ UNCHANGED <<scene, spec, facts, live, pass, lost, budget>>
  BY DEF Deliver
<1>3. \/ handler' = 1 /\ UNCHANGED queued
      \/ queued' = TRUE /\ UNCHANGED handler
  BY DEF Deliver
<1>4. queued' \in BOOLEAN /\ handler' \in Nat
  <2>1. CASE handler' = 1 /\ UNCHANGED queued
    BY <2>1 DEF TypeOK
  <2>2. CASE queued' = TRUE /\ UNCHANGED handler
    BY <2>2 DEF TypeOK
  <2> QED BY <1>3, <2>1, <2>2
<1> QED BY <1>1, <1>2, <1>4, SameScene DEF TypeOK

LEMMA TypeWorker ==
  TypeOK /\ (StartPass \/ EndPass \/ Finalize \/ Forget \/ CollectGarbage) => TypeOK'
<1> SUFFICES ASSUME TypeOK PROVE
      StartPass \/ EndPass \/ Finalize \/ Forget \/ CollectGarbage => TypeOK'
  OBVIOUS
<1>1. CASE StartPass
  <2>1. pass' \in [at : Nat, seen : Generations \cup {<<>>}, done : SUBSET Changes]
        /\ pass'.seen = spec
    BY <1>1 DEF StartPass, TypeOK
  <2> QED BY <1>1, <2>1, SameScene DEF StartPass, TypeOK
<1>2. CASE EndPass
  <2>1. pass' \in [at : Nat, seen : Generations \cup {<<>>}, done : SUBSET Changes]
        /\ pass'.at = 0
    BY <1>2 DEF EndPass, Resting
  <2> QED BY <1>2, <2>1, SameScene DEF EndPass, TypeOK
<1>3. CASE Finalize
  <2>1. spec' \in Generations
    BY <1>3 DEF Finalize, TypeOK, Generations
  <2>2. DOMAIN live' \subseteq This.objects
    BY <1>3 DEF Finalize, TypeOK, Without
  <2>3. budget' \in Nat
    BY <1>3 DEF Finalize, TypeOK
  <2> QED BY <1>3, <2>1, <2>2, <2>3, SameScene DEF Finalize, TypeOK
<1>4. CASE Forget
  BY <1>4, SameScene DEF Forget, TypeOK
<1>5. CASE CollectGarbage
  <2>1. DOMAIN live' \subseteq This.objects
    BY <1>5 DEF CollectGarbage, TypeOK, Without
  <2> QED BY <1>5, <2>1, SameScene DEF CollectGarbage, TypeOK
<1> QED BY <1>1, <1>2, <1>3, <1>4, <1>5

LEMMA TypeEnvironment == TypeOK /\ (HandlerEnds \/ Environment) => TypeOK'
<1> SUFFICES ASSUME TypeOK PROVE HandlerEnds \/ Environment => TypeOK'
  OBVIOUS
<1>0. Disturb => budget' \in Nat
  BY DEF Disturb, TypeOK
<1>1. CASE HandlerEnds
  <2>1. budget' \in Nat
    BY <1>1 DEF HandlerEnds, TypeOK
  <2> QED BY <1>1, <2>1, SameScene DEF HandlerEnds, TypeOK
<1>2. CASE Edit
  <2>1. spec' \in Generations
    <3>1. PICK on \in This.specs :
            spec' = [on |-> on, rev |-> spec.rev + 1, phase |-> "present"]
      BY <1>2 DEF Edit
    <3> QED BY <3>1 DEF TypeOK, Generations
  <2>2. events' \in Seq(Generations)
    BY <1>2, <2>1 DEF Edit, TypeOK
  <2> QED BY <1>2, <2>1, <2>2, SameScene DEF Edit, TypeOK
<1>3. CASE Delete
  <2>1. spec' \in Generations
    BY <1>3 DEF Delete, TypeOK, Generations
  <2>2. events' \in Seq(Generations)
    BY <1>3, <2>1 DEF Delete, TypeOK
  <2> QED BY <1>3, <2>1, <2>2, SameScene DEF Delete, TypeOK
<1>4. CASE FactsChange
  BY <1>0, <1>4, SameScene DEF FactsChange, TypeOK
<1>5. CASE Restart
  <2>1. pass' \in [at : Nat, seen : Generations \cup {<<>>}, done : SUBSET Changes]
        /\ pass'.at = 0
    BY <1>5 DEF Restart, Resting
  <2> QED BY <1>0, <1>5, <2>1, SameScene DEF Restart, TypeOK
<1>6. ASSUME NEW o \in This.objects, Interfere(o) PROVE TypeOK'
  <2>1. DOMAIN live' \subseteq This.objects
    BY <1>6 DEF Interfere, TypeOK, Without
  <2>2. queued' \in BOOLEAN
    BY <1>6 DEF Interfere, Noticed, TypeOK
  <2> QED BY <1>0, <1>6, <2>1, <2>2, SameScene DEF Interfere, TypeOK
<1> QED BY <1>1, <1>2, <1>3, <1>4, <1>5, <1>6 DEF Environment

LEMMA TypeStep == TypeOK /\ [Next]_vars => TypeOK'
<1> SUFFICES ASSUME TypeOK, [Next]_vars PROVE TypeOK'
  OBVIOUS
<1>1. CASE Next
  BY <1>1, TypeCall, TypeCallFails, TypeHandlerCall, TypeDeliver, TypeWorker,
     TypeEnvironment DEF Next, Worker, Informer
<1>2. CASE UNCHANGED vars
  BY <1>2, SameScene DEF vars, TypeOK
<1> QED BY <1>1, <1>2

(* The state keeps its shape: no pass, handler or restart leaves behind a  *)
(* pass for a resource that was already being deleted when it was read, or *)
(* an object that is not of the scene.                                     *)
THEOREM TypeCorrect == Spec => []TypeOK
  BY TypeInit, TypeStep, PTL DEF Spec
-----------------------------------------------------------------------------
(* The invariant behind ConsistentAtRest. As long as nothing has put the   *)
(* resource into the queue again, the pass works on the resource as it is, *)
(* has changed no watched object, and would find all that it has dealt     *)
(* with as it should be, were it to start over.                            *)
Undisturbed == ~queued /\ events = <<>> /\ handler = 0 /\ spec.phase = "present"

Content0(i) ==
  Calls(spec.on)[i].obj \in This.watched \ lost =>
    Outcome(Calls(spec.on)[i], spec.rev, live, {}) = "none"

SoFar ==
  pass.at > 0 /\ Undisturbed =>
    /\ pass.seen = spec
    /\ \A c \in pass.done : c[2] \notin This.watched
    /\ \A j \in DOMAIN Calls(spec.on) : j < pass.at => Content0(j)

Rested ==
  pass.at = 0 /\ Undisturbed => \A i \in DOMAIN Calls(spec.on) : Content0(i)

PassInv == TypeOK /\ SoFar /\ Rested

LEMMA ConsistentMeans ==
  Consistent(Wish, World) <=> \A i \in DOMAIN Calls(spec.on) : Content0(i)
  BY DEF Consistent, Wish, World, Content0, Calls, This

LEMMA RestedMeans == Rested <=> ConsistentAtRest
  BY ConsistentMeans DEF Rested, ConsistentAtRest, AtRest, Undisturbed

LEMMA PassInvInit == Init => PassInv
  BY TypeInit DEF Init, PassInv, SoFar, Rested, Undisturbed, Resting

(* A step that leaves the watched objects alone leaves a call that had     *)
(* nothing to do with nothing to do.                                       *)
LEMMA StillContent ==
  ASSUME TypeOK, TypeOK', UNCHANGED <<scene, spec, facts>>,
         lost \subseteq lost', Agree(live, live', This.watched),
         NEW i \in DOMAIN Calls(spec.on), Content0(i)
  PROVE  Content0(i)'
<1> DEFINE r == Calls(spec.on)[i]
<1>1. Calls(spec.on)' = Calls(spec.on) /\ This' = This
  BY DEF Calls, This
<1>2. SUFFICES ASSUME r.obj \in This.watched \ lost'
               PROVE  Outcome(r, spec.rev, live', {}) = "none"
  BY <1>1 DEF Content0
<1>3. spec.on \in This.specs
  BY DEF TypeOK, Generations
<1>4. LooksAt(r) \cap This.objects \subseteq This.watched
  BY <1>2, <1>3, PlanFacts DEF TypeOK
<1>5. Outcome(r, spec.rev, live, {}) = "none"
  BY <1>2 DEF Content0
<1>6. DOMAIN live \subseteq This.objects /\ DOMAIN live' \subseteq This.objects
  BY <1>1 DEF TypeOK
<1>7. r.obj \in This.watched
  BY <1>2
<1> HIDE DEF r
<1> QED BY <1>4, <1>5, <1>6, <1>7, OutcomeFrame

LEMMA SoFarCall == PassInv /\ TypeOK' /\ Call => SoFar' /\ Rested'
<1> SUFFICES ASSUME PassInv, TypeOK', Call PROVE SoFar' /\ Rested'
  OBVIOUS
<1> DEFINE r == PassCalls[pass.at]
           outcome == Outcome(r, pass.seen.rev, live, pass.done)
<1>1. /\ pass.at \in Nat /\ pass.at > 0 /\ pass.at \in DOMAIN PassCalls
      /\ live' = Applied(r, pass.seen.rev, live, outcome)
      /\ UNCHANGED <<scene, spec, facts, lost, events, informed, handler, budget>>
  BY DEF Call, PassOutcome, PassInv, TypeOK
<1>2. /\ pass' = [at |-> pass.at + 1, seen |-> pass.seen,
                   done |-> Remembered(r, outcome, pass.done)]
      /\ IF outcome = "none" THEN UNCHANGED queued ELSE Noticed({r.obj})
  BY DEF Call, PassOutcome
<1>3. pass'.at = pass.at + 1 /\ pass'.seen = pass.seen
  BY <1>2 DEF PassInv, TypeOK
<1>4. Rested'
  BY <1>1, <1>3 DEF Rested
<1>5. SUFFICES ASSUME Undisturbed' PROVE SoFar'
  BY <1>4 DEF SoFar
<1>6. This' = This /\ Calls(spec.on)' = Calls(spec.on)
  BY <1>1 DEF This, Calls
<1>7. Undisturbed
  BY <1>1, <1>2, <1>5 DEF Undisturbed, Noticed, PassInv, TypeOK
<1>8. /\ pass.seen = spec /\ PassCalls = Calls(spec.on)
      /\ \A c \in pass.done : c[2] \notin This.watched
      /\ \A j \in DOMAIN Calls(spec.on) : j < pass.at => Content0(j)
  BY <1>1, <1>7 DEF PassInv, SoFar, PassCalls
<1>9. spec.on \in This.specs /\ scene \in DOMAIN Scene /\ facts \in This.facts
  BY DEF PassInv, TypeOK, Generations
<1>10. r = Calls(spec.on)[pass.at] /\ pass.at \in DOMAIN Calls(spec.on)
  BY <1>1, <1>8
<1>11. r.obj \in This.watched => LooksAt(r) \cap This.objects \subseteq This.watched
  BY <1>9, <1>10, PlanFacts
<1>12. outcome = "update" => r.obj \in DOMAIN live
  BY OutcomeType
<1>13. DOMAIN live \subseteq This.objects /\ pass.done \subseteq Changes
  BY DEF PassInv, TypeOK
<1>14. \A j \in DOMAIN Calls(spec.on) : j < pass.at + 1 => j < pass.at \/ j = pass.at
  <2>1. DOMAIN Calls(spec.on) = 1..Len(Calls(spec.on)) /\ Len(Calls(spec.on)) \in Nat
    BY <1>9, PlanFacts
  <2> QED BY <1>1, <2>1
<1>15. CASE outcome = "none"
  <2>1. live' = live
    BY <1>1, <1>15 DEF Applied
  <2>2. r.obj \in This.watched => Outcome(r, spec.rev, live, {}) = "none"
    <3> SUFFICES ASSUME r.obj \in This.watched
                 PROVE  Outcome(r, spec.rev, live, {}) = "none"
      OBVIOUS
    <3>1. Outcome(r, spec.rev, live, pass.done) = "none"
      BY <1>8, <1>15
    <3>2. Agree(live, live, This.watched)
      BY DEF Agree
    <3> HIDE DEF r
    <3> QED BY <1>8, <1>11, <1>13, <3>1, <3>2, OutcomeFrame DEF Changes
  <2>3. Content0(pass.at)
    BY <1>10, <2>2 DEF Content0
  <2>4. \A j \in DOMAIN Calls(spec.on) : j < pass.at + 1 => Content0(j)
    BY <1>8, <1>14, <2>3
  <2>5. \A j \in DOMAIN Calls(spec.on) : Content0(j)' <=> Content0(j)
    BY <1>1, <1>6, <2>1 DEF Content0
  <2>6. pass'.done \subseteq pass.done
    BY <1>2, <1>15 DEF Remembered
  <2> QED BY <1>1, <1>3, <1>6, <1>8, <2>4, <2>5, <2>6 DEF SoFar
<1>16. CASE outcome # "none"
  <2>1. r.obj \notin This.watched
    BY <1>2, <1>5, <1>16 DEF Noticed, Undisturbed
  <2>2. Agree(live, live', This.watched)
    BY <1>1, <1>12, <2>1, AppliedElsewhere DEF Agree
  <2>3. Content0(pass.at)
    BY <1>10, <2>1 DEF Content0
  <2>4. \A j \in DOMAIN Calls(spec.on) : j < pass.at + 1 => Content0(j)
    BY <1>8, <1>14, <2>3
  <2>5. \A j \in DOMAIN Calls(spec.on) : Content0(j) => Content0(j)'
    BY <1>1, <2>2, StillContent DEF PassInv
  <2>6. \A c \in pass'.done : c[2] \notin This.watched
    BY <1>2, <1>8, <1>16, <2>1 DEF Remembered
  <2> QED BY <1>1, <1>3, <1>6, <1>8, <2>4, <2>5, <2>6 DEF SoFar
<1> QED BY <1>15, <1>16

LEMMA SoFarCallFails == PassInv /\ TypeOK' /\ CallFails => SoFar' /\ Rested'
<1> SUFFICES ASSUME PassInv, TypeOK', CallFails PROVE SoFar' /\ Rested'
  OBVIOUS
<1> DEFINE r == PassCalls[pass.at]
<1>1. /\ pass.at \in Nat /\ pass.at > 0 /\ pass.at \in DOMAIN PassCalls
      /\ IF r.logged
         THEN /\ pass' = [pass EXCEPT !.at = @ + 1]
              /\ lost' = lost \cup {r.obj} /\ UNCHANGED queued
         ELSE pass' = Resting /\ queued' = TRUE /\ UNCHANGED lost
      /\ UNCHANGED <<scene, spec, facts, live, events, informed, handler>>
  BY DEF CallFails, PassInv, TypeOK
<1>2. CASE ~r.logged
  BY <1>1, <1>2 DEF SoFar, Rested, Undisturbed
<1>3. CASE r.logged
  <2>1. /\ pass'.at = pass.at + 1 /\ pass'.seen = pass.seen /\ pass'.done = pass.done
    BY <1>1, <1>3 DEF PassInv, TypeOK
  <2>2. Rested'
    BY <1>1, <2>1 DEF Rested
  <2>3. SUFFICES ASSUME Undisturbed' PROVE SoFar'
    BY <2>2 DEF SoFar
  <2>4. Undisturbed
    BY <1>1, <1>3, <2>3 DEF Undisturbed
  <2>5. This' = This /\ Calls(spec.on)' = Calls(spec.on)
    BY <1>1 DEF This, Calls
  <2>6. /\ pass.seen = spec /\ PassCalls = Calls(spec.on)
        /\ \A c \in pass.done : c[2] \notin This.watched
        /\ \A j \in DOMAIN Calls(spec.on) : j < pass.at => Content0(j)
    BY <1>1, <2>4 DEF PassInv, SoFar, PassCalls
  <2>7. spec.on \in This.specs /\ scene \in DOMAIN Scene /\ facts \in This.facts
    BY DEF PassInv, TypeOK, Generations
  <2>8. \A j \in DOMAIN Calls(spec.on) : j < pass.at + 1 => j < pass.at \/ j = pass.at
    <3>1. DOMAIN Calls(spec.on) = 1..Len(Calls(spec.on)) /\ Len(Calls(spec.on)) \in Nat
      BY <2>7, PlanFacts
    <3> QED BY <1>1, <3>1
  <2>9. \A j \in DOMAIN Calls(spec.on) : j = pass.at => Content0(j)'
    <3> SUFFICES ASSUME NEW j \in DOMAIN Calls(spec.on), j = pass.at
                 PROVE  Content0(j)'
      OBVIOUS
    <3>1. Calls(spec.on)[j].obj \in lost'
      BY <1>1, <1>3, <2>6
    <3> QED BY <2>5, <3>1 DEF Content0
  <2>10. \A j \in DOMAIN Calls(spec.on) : Content0(j) => Content0(j)'
    BY <1>1, <1>3, <2>5 DEF Content0
  <2> QED BY <1>1, <2>1, <2>5, <2>6, <2>8, <2>9, <2>10 DEF SoFar
<1> QED BY <1>2, <1>3

LEMMA SoFarEndPass == PassInv /\ EndPass => SoFar' /\ Rested'
<1> SUFFICES ASSUME PassInv, EndPass PROVE SoFar' /\ Rested'
  OBVIOUS
<1>1. /\ pass.at \in Nat /\ pass.at > 0 /\ pass.at \notin DOMAIN PassCalls
      /\ pass'.at = 0
      /\ UNCHANGED <<scene, spec, facts, live, lost, queued, events, informed, handler,
                     budget>>
  BY DEF EndPass, PassInv, TypeOK, Resting
<1>2. SoFar'
  BY <1>1 DEF SoFar
<1>3. SUFFICES ASSUME Undisturbed PROVE Rested'
  BY <1>1, <1>2 DEF Rested, Undisturbed
<1>4. /\ PassCalls = Calls(spec.on)
      /\ \A j \in DOMAIN Calls(spec.on) : j < pass.at => Content0(j)
  BY <1>1, <1>3 DEF PassInv, SoFar, PassCalls
<1>5. spec.on \in This.specs /\ scene \in DOMAIN Scene /\ facts \in This.facts
  BY DEF PassInv, TypeOK, Generations
<1>6. \A j \in DOMAIN Calls(spec.on) : j < pass.at
  <2>1. DOMAIN Calls(spec.on) = 1..Len(Calls(spec.on)) /\ Len(Calls(spec.on)) \in Nat
    BY <1>5, PlanFacts
  <2> QED BY <1>1, <1>4, <2>1
<1>7. This' = This /\ Calls(spec.on)' = Calls(spec.on)
  BY <1>1 DEF This, Calls
<1>8. \A j \in DOMAIN Calls(spec.on) : Content0(j)'
  BY <1>1, <1>4, <1>6, <1>7 DEF Content0
<1> QED BY <1>7, <1>8 DEF Rested

LEMMA SoFarInterfere ==
  ASSUME PassInv, TypeOK', NEW o \in This.objects, Interfere(o)
  PROVE  SoFar' /\ Rested'
<1>1. /\ o \in DOMAIN live
      /\ UNCHANGED <<scene, spec, facts, pass, lost, events, informed, handler>>
      /\ Noticed({o})
  BY DEF Interfere
<1>2. SUFFICES ASSUME Undisturbed' PROVE SoFar' /\ Rested'
  BY DEF SoFar, Rested
<1>3. o \notin This.watched /\ Undisturbed
  BY <1>1, <1>2 DEF Noticed, Undisturbed, PassInv, TypeOK
<1>4. Agree(live, live', This.watched)
  BY <1>3 DEF Interfere, Agree, Without
<1>5. \A j \in DOMAIN Calls(spec.on) : Content0(j) => Content0(j)'
  BY <1>1, <1>4, StillContent DEF PassInv
<1>6. This' = This /\ Calls(spec.on)' = Calls(spec.on)
  BY <1>1 DEF This, Calls
<1>7. SoFar'
  BY <1>1, <1>3, <1>5, <1>6 DEF PassInv, SoFar
<1>8. Rested'
  BY <1>1, <1>3, <1>5, <1>6 DEF PassInv, Rested
<1> QED BY <1>7, <1>8

(* The other steps start a pass, put the resource into the queue or the    *)
(* event of its change under way, or are about a resource that is deleted. *)
LEMMA SoFarOthers ==
  ASSUME PassInv, TypeOK',
         \/ StartPass \/ Finalize \/ Forget \/ CollectGarbage
         \/ Deliver \/ HandlerCall \/ HandlerEnds
         \/ Edit \/ Delete \/ FactsChange \/ Restart
  PROVE  SoFar' /\ Rested'
<1>1. CASE StartPass
  <2>1. /\ pass'.at = 1 /\ pass'.seen = spec /\ pass'.done = {}
        /\ UNCHANGED <<scene, spec, facts>>
    BY <1>1 DEF StartPass
  <2>2. This' = This /\ Calls(spec.on)' = Calls(spec.on)
    BY <2>1 DEF This, Calls
  <2>3. \A j \in DOMAIN Calls(spec.on) : ~(j < 1)
    <3>1. DOMAIN Calls(spec.on) = 1..Len(Calls(spec.on)) /\ Len(Calls(spec.on)) \in Nat
      BY PlanFacts DEF PassInv, TypeOK, Generations
    <3> QED BY <3>1
  <2> QED BY <2>1, <2>2, <2>3 DEF SoFar, Rested
<1>2. CASE Finalize \/ Forget \/ CollectGarbage
  <2>1. spec'.phase # "present" \/ queued'
    BY <1>2 DEF Finalize, Forget, CollectGarbage, PassInv, TypeOK, Generations
  <2> QED BY <2>1 DEF SoFar, Rested, Undisturbed
<1>3. CASE Deliver \/ HandlerCall \/ HandlerEnds
  <2>1. queued' \/ handler' # 0
    BY <1>3 DEF Deliver, HandlerCall, HandlerEnds, PassInv, TypeOK
  <2> QED BY <2>1 DEF SoFar, Rested, Undisturbed
<1>4. CASE Edit \/ Delete
  <2>1. events \in Seq(Generations) /\ events' = Append(events, spec')
        /\ spec' \in Generations
    BY <1>4, SameScene DEF Edit, Delete, PassInv, TypeOK
  <2>2. events' # <<>>
    BY <2>1
  <2> QED BY <2>2 DEF SoFar, Rested, Undisturbed
<1>5. CASE FactsChange \/ Restart
  <2>1. queued'
    BY <1>5 DEF FactsChange, Restart
  <2> QED BY <2>1 DEF SoFar, Rested, Undisturbed
<1> QED BY <1>1, <1>2, <1>3, <1>4, <1>5

LEMMA PassInvStep == PassInv /\ [Next]_vars => PassInv'
<1> SUFFICES ASSUME PassInv, [Next]_vars PROVE PassInv'
  OBVIOUS
<1>1. TypeOK'
  BY TypeStep DEF PassInv
<1>2. CASE Next
  <2>1. CASE Call
    BY <1>1, <2>1, SoFarCall DEF PassInv
  <2>2. CASE CallFails
    BY <1>1, <2>2, SoFarCallFails DEF PassInv
  <2>3. CASE EndPass
    BY <1>1, <2>3, SoFarEndPass DEF PassInv
  <2>4. CASE \E o \in This.objects : Interfere(o)
    BY <1>1, <2>4, SoFarInterfere DEF PassInv
  <2>5. CASE \/ StartPass \/ Finalize \/ Forget \/ CollectGarbage
             \/ Deliver \/ HandlerCall \/ HandlerEnds
             \/ Edit \/ Delete \/ FactsChange \/ Restart
    BY <1>1, <2>5, SoFarOthers DEF PassInv
  <2> QED
    BY <1>2, <2>1, <2>2, <2>3, <2>4, <2>5 DEF Next, Worker, Informer, Environment
<1>3. CASE UNCHANGED vars
  BY <1>1, <1>3 DEF vars, PassInv, SoFar, Rested, Undisturbed, Content0, Calls, This
<1> QED BY <1>2, <1>3

LEMMA PassInvariant == Spec => []PassInv
  BY PassInvInit, PassInvStep, PTL DEF Spec

(* The operator is never at rest while a pass would still change a watched *)
(* object, whatever the plan, and whatever people, the event handler and   *)
(* faults did while the last pass ran (Reconcile, setResourceWatches).     *)
THEOREM NothingOverlooked == Spec => []ConsistentAtRest
<1>1. PassInv => ConsistentAtRest
  BY RestedMeans DEF PassInv
<1> QED BY <1>1, PassInvariant, PTL
-----------------------------------------------------------------------------
(* At rest and without a pass under way. *)
RestingState == AtRest /\ spec.phase = "present"

(* Only the end of a pass brings the operator to rest. *)
LEMMA OnlyEndPassRests ==
  ASSUME PassInv, TypeOK', Next, ~RestingState, RestingState'
  PROVE  EndPass
<1>1. /\ pass'.at = 0 /\ ~queued' /\ events' = <<>> /\ handler' = 0
      /\ spec'.phase = "present"
  BY DEF RestingState, AtRest
<1>2. CASE StartPass \/ Call \/ CallFails
  <2>1. pass.at \in Nat /\ pass \in [at : Nat, seen : Generations \cup {<<>>},
                                     done : SUBSET Changes]
    BY DEF PassInv, TypeOK
  <2>2. pass'.at # 0 \/ queued'
    BY <1>2, <2>1 DEF StartPass, Call, CallFails
  <2> QED BY <1>1, <2>2
<1>3. CASE Finalize \/ Forget \/ CollectGarbage
  BY <1>1, <1>3 DEF Finalize, Forget, CollectGarbage
<1>4. CASE Deliver \/ HandlerCall \/ HandlerEnds
  BY <1>1, <1>4 DEF Deliver, HandlerCall, HandlerEnds, PassInv, TypeOK
<1>5. CASE Edit \/ Delete
  <2>1. events \in Seq(Generations) /\ events' = Append(events, spec')
        /\ spec' \in Generations
    BY <1>5, SameScene DEF Edit, Delete, PassInv, TypeOK
  <2>2. events' # <<>>
    BY <2>1
  <2> QED BY <1>1, <2>2
<1>6. CASE FactsChange \/ Restart
  BY <1>1, <1>6 DEF FactsChange, Restart
<1>7. CASE \E o \in This.objects : Interfere(o)
  <2>1. UNCHANGED <<spec, pass, events, handler>> /\ ~queued
    BY <1>1, <1>7 DEF Interfere, Noticed, PassInv, TypeOK
  <2> QED BY <1>1, <2>1 DEF RestingState, AtRest
<1> QED
  BY <1>2, <1>3, <1>4, <1>5, <1>6, <1>7 DEF Next, Worker, Informer, Environment

(* Only someone else's change of an object nobody watches leaves it there. *)
LEMMA OnlyInterfereKeepsRest ==
  ASSUME PassInv, TypeOK', Next, RestingState, RestingState'
  PROVE  UNCHANGED <<scene, spec, facts>>
<1>1. pass.at = 0 /\ ~queued /\ events = <<>> /\ handler = 0 /\ spec.phase = "present"
  BY DEF RestingState, AtRest
<1>2. ~queued' /\ events' = <<>> /\ handler' = 0
  BY DEF RestingState, AtRest
<1>3. ~Worker /\ ~CollectGarbage
  BY <1>1 DEF Worker, StartPass, Call, CallFails, EndPass, Finalize, Forget,
              CollectGarbage
<1>4. CASE Deliver \/ HandlerCall \/ HandlerEnds
  BY <1>1, <1>2, <1>4 DEF Deliver, HandlerCall, HandlerEnds, PassInv, TypeOK
<1>5. CASE Edit \/ Delete
  <2>1. events \in Seq(Generations) /\ events' = Append(events, spec')
        /\ spec' \in Generations
    BY <1>5, SameScene DEF Edit, Delete, PassInv, TypeOK
  <2>2. events' # <<>>
    BY <2>1
  <2> QED BY <1>2, <2>2
<1>6. CASE FactsChange \/ Restart
  BY <1>2, <1>6 DEF FactsChange, Restart
<1>7. CASE \E o \in This.objects : Interfere(o)
  BY <1>7 DEF Interfere
<1> QED BY <1>3, <1>4, <1>5, <1>6, <1>7 DEF Next, Informer, Environment

LEMMA PromiseStep ==
  ASSUME PassInv, PassInv', [Next]_vars
  PROVE  [Promise!Next]_(Promise!vars)
<1> USE DEF RestingState
<1>1. CASE UNCHANGED vars
  BY <1>1 DEF vars, Promise!vars, Wish, World, AtRest
<1>2. CASE Next /\ ~RestingState'
  BY <1>2 DEF Promise!Next, Promise!Change
<1>3. CASE Next /\ ~RestingState /\ RestingState'
  <2>1. EndPass
    BY <1>3, OnlyEndPassRests DEF PassInv
  <2>2. UNCHANGED <<scene, spec, facts, live, lost>>
    BY <2>1 DEF EndPass
  <2>3. Wish' = Wish /\ World' = World
    BY <2>2 DEF Wish, World
  <2>4. Consistent(Wish, World)'
    BY <1>3, RestedMeans, PTL DEF PassInv, ConsistentAtRest
  <2>5. Consistent(Wish, World)
    BY <2>3, <2>4 DEF Consistent
  <2> QED BY <1>3, <2>3, <2>5 DEF Promise!Next, Promise!ComeToRest
<1>4. CASE Next /\ RestingState /\ RestingState'
  <2>1. Wish' = Wish
    BY <1>4, OnlyInterfereKeepsRest DEF PassInv, Wish
  <2>2. Consistent(Wish, World)'
    BY <1>4, RestedMeans, PTL DEF PassInv, ConsistentAtRest
  <2>3. Consistent(Wish, World')
    BY <2>1, <2>2 DEF Consistent
  <2> QED BY <1>4, <2>1, <2>3 DEF Promise!Next, Promise!ImmaterialChange
<1> QED BY <1>1, <1>2, <1>3, <1>4

(* The worker, its queue and the event handler together implement the      *)
(* abstract controller: they come to rest only when the watched objects    *)
(* are as the resource asks, and leave their rest at every change that     *)
(* matters, for every plan.                                                *)
THEOREM ImplementsLevelTriggered == Spec => LevelTriggeredSpec
<1>1. Init => Promise!Init
  BY DEF Init, Promise!Init, AtRest
<1>2. PassInv /\ PassInv' /\ [Next]_vars => [Promise!Next]_(Promise!vars)
  BY PromiseStep
<1> QED BY <1>1, <1>2, PassInvariant, PTL DEF Spec, LevelTriggeredSpec, Promise!Spec
=============================================================================
