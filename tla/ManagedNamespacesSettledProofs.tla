------------------- MODULE ManagedNamespacesSettledProofs -------------------
(***************************************************************************)
(* Proofs of what ManagedNamespaces promises once the dust settles, for    *)
(* any instances, namespaces, names of CRs and environments of the         *)
(* operator, and whatever the bounds.                                      *)
(*                                                                         *)
(* The argument is about one instance a at a time.  Whatever may disturb   *)
(* a's access queues a, or sends an event that will (CalmStep): so as long *)
(* as nothing of the kind is on its way, what a pass over a has done so    *)
(* far stays done.                                                         *)
(***************************************************************************)
EXTENDS ManagedNamespacesProofs

\* An event that concerns a: the mapper will name it.
Concerns(ev, a) == ev.old = a \/ ev.new = a

QuietQueue(a) == \A i \in 1..Len(events) : ~Concerns(events[i], a)

\* Nothing is on its way that will queue a.
Calm(a) ==
  /\ a \notin queued
  /\ QuietQueue(a)
  /\ handler.pc # "idle" => ~Concerns(handler.ev, a)

\* The worker reconciles a.
Busy(a) == worker.pc # "idle" /\ worker.cr = a

\* Only what users may label is ever labelled, the namespaces of instances are
\* not deleted, and only CRs that are to be deleted are.
WorldOK ==
  /\ \A n \in Namespaces : label[n] # None => n \in Labelled
  /\ \A a \in Instances : ns[a] = "active"
  /\ worker.pc \in {"unlabel", "finalize"} => cr[worker.cr] = "terminating"

-----------------------------------------------------------------------------
(* Events on their way.                                                    *)

\* A queue that is quiet after an event was appended was so before.
LEMMA QuietAppend ==
  ASSUME TypeInv, NEW a \in Instances, NEW e \in NsEvent,
         events' = Append(events, e), QuietQueue(a)'
  PROVE  QuietQueue(a) /\ ~Concerns(e, a)
<1>1. events \in Seq(NsEvent)
  BY DEF TypeInv, TypeOK
<1>2. /\ Len(events') = Len(events) + 1 /\ Len(events) \in Nat
      /\ \A i \in 1..Len(events) : events'[i] = events[i]
      /\ events'[Len(events) + 1] = e
  BY <1>1, AppendProperties, LenProperties
<1>3. ~Concerns(e, a)
  BY <1>2 DEF QuietQueue, Concerns
<1>4. ASSUME NEW i \in 1..Len(events) PROVE ~Concerns(events[i], a)
  BY <1>2 DEF QuietQueue, Concerns
<1> QED BY <1>3, <1>4 DEF QuietQueue

\* The same, for Notify.
LEMMA QuietNotify ==
  ASSUME TypeInv, NEW a \in Instances, NEW n \in Namespaces,
         NEW op \in {"create", "update", "delete"},
         NEW old \in Instances \cup {None}, NEW new \in Instances \cup {None},
         Notify(n, op, old, new), QuietQueue(a)'
  PROVE  QuietQueue(a) /\ old # a /\ new # a
<1> DEFINE e == [n |-> n, old |-> old, new |-> new, op |-> op]
<1>1. e \in NsEvent
  BY DEF NsEvent
<1>2. events' = Append(events, e)
  BY DEF Notify
<1>3. QuietQueue(a) /\ ~Concerns(e, a)
  BY <1>1, <1>2, QuietAppend
<1> QED BY <1>3 DEF Concerns

\* An event that is taken from the queue.
LEMMA QuietTail ==
  ASSUME TypeInv, NEW a \in Instances, events # <<>>, events' = Tail(events),
         QuietQueue(a)', ~Concerns(Head(events), a)
  PROVE  QuietQueue(a)
<1>1. events \in Seq(NsEvent)
  BY DEF TypeInv, TypeOK
<1>2. /\ Len(events') = Len(events) - 1 /\ Len(events) \in Nat
      /\ Head(events) = events[1]
      /\ \A i \in 1..Len(events') : events'[i] = events[i + 1]
  BY <1>1, HeadTailProperties, LenProperties
<1>3. ASSUME NEW i \in 1..Len(events) PROVE ~Concerns(events[i], a)
  <2>1. CASE i = 1
    BY <1>2, <2>1
  <2>2. CASE i # 1
    <3>1. i - 1 \in 1..Len(events') /\ events'[i - 1] = events[i]
      BY <1>2, <2>2
    <3> QED BY <3>1 DEF QuietQueue, Concerns
  <2> QED BY <2>1, <2>2
<1> QED BY <1>3 DEF QuietQueue

-----------------------------------------------------------------------------
(* The world.                                                              *)

LEMMA InitWorld == Init => WorldOK
BY ConstantsAssumption DEF Init, WorldOK, IdleWorker

LEMMA HandlerWorld == TypeInv /\ WorldOK /\ HandlerStep => WorldOK'
<1> SUFFICES ASSUME TypeInv, WorldOK, HandlerStep PROVE WorldOK'
  OBVIOUS
<1>1. UNCHANGED <<label, ns, cr>>
  BY DEF HandlerStep, HandlerTakes, DeleteRoles, DeleteRoleBindings,
         HandlerReadsSecret, HandlerWritesSecret, HandlerEnqueues, objects
<1>2. worker' = worker \/ worker' = [worker EXCEPT !.fresh = FALSE]
  BY DEF HandlerStep, HandlerTakes, DeleteRoles, DeleteRoleBindings,
         HandlerReadsSecret, HandlerWritesSecret, HandlerEnqueues
<1>3. worker'.pc = worker.pc /\ worker'.cr = worker.cr
  BY <1>2 DEF TypeInv, TypeOK, WorkerState
<1> QED BY <1>1, <1>3 DEF WorldOK

\* A pass that goes on in its loops, or ends.
LEMMA DonePc ==
  ASSUME TypeInv, NEW n \in Namespaces,
         worker.pc \in {"roles", "rolesAgain", "bindings"}
  PROVE  /\ Done(n).pc \in {"roles", "rolesAgain", "bindings", "list"}
         /\ Done(n).cr = worker.cr
<1> DEFINE rest == worker.todo \ {n}
           snap == [worker.snap EXCEPT ![n] = IF @ = "terminating" THEN "no" ELSE @]
           first == {m \in Namespaces : snap[m] # "no"}
<1>1. worker \in WorkerState
  BY DEF TypeInv, TypeOK
<1>2. After(worker.pc) \in {"rolesAgain", "bindings", "list"}
  BY DEF After
<1> HIDE DEF rest, snap, first
<1>3. \/ Done(n) = [worker EXCEPT !.snap = snap, !.todo = rest]
      \/ Done(n) = [worker EXCEPT !.snap = snap, !.pc = After(worker.pc),
                                  !.todo = first]
  BY DEF Done, rest, snap, first
<1> QED BY <1>1, <1>2, <1>3 DEF WorkerState

LEMMA WorkerWorld ==
  TypeInv /\ WorldOK /\ (WorkerStep \/ \E a \in Instances : Reconcile(a)) => WorldOK'
<1> SUFFICES ASSUME TypeInv, WorldOK,
                    WorkerStep \/ \E a \in Instances : Reconcile(a)
             PROVE  WorldOK'
  OBVIOUS
<1>1. ns' = ns
  BY DEF WorkerStep, Reconcile, ReleaseTerminating, ReconcileRole,
         ReconcileRoleBinding, RemoveManagedByLabel, ListNamespaces, ReadSecret,
         WriteSecret, RemoveDeletionFinalizer, objects
<1>2. \A m \in Namespaces : label'[m] = label[m] \/ label'[m] = None
  BY DEF WorkerStep, Reconcile, ReleaseTerminating, ReconcileRole,
         ReconcileRoleBinding, RemoveManagedByLabel, ListNamespaces, ReadSecret,
         WriteSecret, RemoveDeletionFinalizer, objects, TypeInv, TypeOK
<1>3. ASSUME worker'.pc \in {"unlabel", "finalize"}
      PROVE  cr'[worker'.cr] = "terminating"
  <2>1. ASSUME NEW a \in Instances, Reconcile(a) PROVE cr'[worker'.cr] = "terminating"
    BY <1>3, <2>1 DEF Reconcile, IdleWorker, TypeInv, TypeOK
  <2>2. ASSUME NEW n \in Namespaces,
               ReleaseTerminating(n) \/ ReconcileRole(n) \/ ReconcileRoleBinding(n)
        PROVE  FALSE
    <3>1. worker' = Done(n) \/ worker' = IdleWorker
      BY <2>2 DEF ReleaseTerminating, ReconcileRole, ReconcileRoleBinding, Return, Fails
    <3>2. worker.pc \in {"roles", "rolesAgain", "bindings"}
      BY <2>2 DEF ReleaseTerminating, ReconcileRole, ReconcileRoleBinding
    <3>3. CASE worker' = Done(n)
      BY <1>3, <3>2, <3>3, DonePc
    <3> QED BY <1>3, <3>1, <3>3, IdleFields
  <2>3. ASSUME NEW n \in Namespaces, RemoveManagedByLabel(n)
        PROVE  cr'[worker'.cr] = "terminating"
    <3>1. worker'.cr = worker.cr \/ worker' = IdleWorker
      BY <2>3 DEF RemoveManagedByLabel, Return, Fails, TypeInv, TypeOK, WorkerState
    <3>2. worker.pc = "unlabel" /\ cr' = cr
      BY <2>3 DEF RemoveManagedByLabel
    <3> QED BY <1>3, <3>1, <3>2, IdleFields DEF WorldOK
  <2>4. CASE ListNamespaces \/ ReadSecret
    <3>1. worker'.pc \in {"read", "write"} \/ worker' = IdleWorker
      BY <2>4 DEF ListNamespaces, ReadSecret, Return, Fails, TypeInv, TypeOK, WorkerState
    <3> QED BY <1>3, <3>1, IdleFields
  <2>5. CASE WriteSecret \/ RemoveDeletionFinalizer
    <3>1. worker' = IdleWorker
      BY <2>5 DEF WriteSecret, RemoveDeletionFinalizer, Return, Fails
    <3> QED BY <1>3, <3>1, IdleFields
  <2> QED BY <2>1, <2>2, <2>3, <2>4, <2>5 DEF WorkerStep
<1> QED BY <1>1, <1>2, <1>3 DEF WorldOK

LEMMA EnvironmentWorld == TypeInv /\ WorldOK /\ Environment => WorldOK'
<1> SUFFICES ASSUME TypeInv, WorldOK, Environment PROVE WorldOK'
  OBVIOUS
<1>1. ASSUME NEW n \in Labelled,
             SetLabel(n) \/ DeleteNamespace(n) \/ CreateNamespace(n)
      PROVE  WorldOK'
  <2>1. n \in Namespaces
    BY ConstantsAssumption
  <2>2. UNCHANGED <<cr, worker>>
    BY <1>1 DEF SetLabel, DeleteNamespace, CreateNamespace, Edited
  <2>3. \A m \in Namespaces : m # n => label'[m] = label[m] /\ ns'[m] = ns[m]
    BY <1>1, <2>1 DEF SetLabel, DeleteNamespace, CreateNamespace, TypeInv, TypeOK
  <2>4. ns'[n] = "active" \/ ns'[n] = ns[n] \/ n \notin Instances
    BY <1>1, <2>1 DEF SetLabel, DeleteNamespace, CreateNamespace, TypeInv, TypeOK
  <2> QED BY <2>1, <2>2, <2>3, <2>4, ConstantsAssumption DEF WorldOK
<1>2. ASSUME NEW a \in Instances, CreateCR(a) \/ DeleteCR(a) \/ EditCR(a) \/ Resync(a)
      PROVE  WorldOK'
  <2>1. UNCHANGED <<label, ns, worker>>
    BY <1>2 DEF CreateCR, DeleteCR, EditCR, Resync, Edited, objects
  <2>2. \A b \in Instances : cr[b] = "terminating" => cr'[b] = "terminating"
    BY <1>2 DEF CreateCR, DeleteCR, EditCR, Resync, objects, TypeInv, TypeOK
  <2> QED BY <2>1, <2>2 DEF WorldOK, TypeInv, PhaseOK
<1>3. ASSUME NEW n \in Namespaces, NamespaceGone(n) PROVE WorldOK'
  BY <1>3 DEF NamespaceGone, WorldOK, TypeInv, TypeOK
<1>4. CASE Restart
  BY <1>4, IdleFields DEF Restart, WorldOK, objects
<1> QED BY <1>1, <1>2, <1>3, <1>4, ConstantsAssumption DEF Environment

\* The cache delivers what has happened, and does nothing itself.
LEMMA InformerKeeps ==
  InformerStep => /\ UNCHANGED <<objects, role, binding, missed, secretNs, env,
                                 events, handler, worker>>
                  /\ queued \subseteq queued'
BY DEF InformerStep, RoleDelivered, BindingDelivered

LEMMA WorldStep == TypeInv /\ WorldOK /\ [Next]_vars => WorldOK'
<1> SUFFICES ASSUME TypeInv, WorldOK, [Next]_vars PROVE WorldOK'
  OBVIOUS
<1>1. CASE UNCHANGED vars
  BY <1>1 DEF vars, objects, WorldOK
<1>2. CASE InformerStep
  BY <1>2, InformerKeeps DEF objects, WorldOK
<1> QED BY <1>1, <1>2, HandlerWorld, WorkerWorld, EnvironmentWorld DEF Next

-----------------------------------------------------------------------------
(* Nothing disturbs an instance without a trace.                           *)

\* What a pass over a has to go by.
SameTask(a) ==
  /\ \A n \in Namespaces : (label'[n] = a) <=> (label[n] = a)
  /\ \A n \in Namespaces :
       ns'[n] = "active" /\ (n = a \/ label'[n] = a) => ns[n] = "active"
  /\ (a \in enabled') <=> (a \in enabled)
  /\ UNCHANGED env
  /\ secretNs'[a] = secretNs[a]

LEMMA CalmHandler ==
  ASSUME TypeInv, NEW a \in Instances, HandlerStep, cr'[a] = "present", Calm(a)'
  PROVE  cr[a] = "present" /\ Calm(a) /\ SameTask(a)
<1>1. UNCHANGED <<objects, env>>
  BY DEF HandlerStep, HandlerTakes, DeleteRoles, DeleteRoleBindings,
         HandlerReadsSecret, HandlerWritesSecret, HandlerEnqueues
<1>2. handler \in HandlerState /\ queued \subseteq queued'
  BY DEF HandlerStep, HandlerTakes, DeleteRoles, DeleteRoleBindings,
         HandlerReadsSecret, HandlerWritesSecret, HandlerEnqueues, TypeInv, TypeOK
<1>3. a \notin queued /\ a \notin queued' /\ QuietQueue(a)'
  BY <1>2 DEF Calm
<1>4. CASE HandlerTakes
  <2> DEFINE e == Head(events)
  <2>1. handler'.pc # "idle" /\ handler'.ev = e
    BY <1>4 DEF HandlerTakes, IdleHandler
  <2>2. ~Concerns(e, a)
    BY <2>1 DEF Calm, Concerns
  <2>3. QuietQueue(a)
    BY <1>3, <1>4, <2>2, QuietTail DEF HandlerTakes
  <2>4. secretNs' = secretNs
    BY <1>4 DEF HandlerTakes
  <2> QED BY <1>1, <1>3, <1>4, <2>3, <2>4 DEF Calm, HandlerTakes, SameTask, objects
<1>5. CASE HandlerEnqueues
  <2>1. events' = events /\ secretNs' = secretNs
    BY <1>5 DEF HandlerEnqueues
  <2>2. a \notin Mapped(handler.ev) /\ cr[a] = "present"
    BY <1>1, <1>3, <1>5 DEF HandlerEnqueues, objects
  <2>3. a # None
    BY ConstantsAssumption
  <2>4. ~Concerns(handler.ev, a)
    BY <2>2, <2>3 DEF Mapped, Exists, Concerns
  <2>5. QuietQueue(a)
    BY <1>3, <2>1 DEF QuietQueue
  <2> QED BY <1>1, <1>3, <2>1, <2>4, <2>5 DEF Calm, SameTask, objects
<1>6. CASE DeleteRoles \/ DeleteRoleBindings \/ HandlerReadsSecret \/ HandlerWritesSecret
  <2>1. /\ events' = events /\ handler'.ev = handler.ev
        /\ handler.pc # "idle" /\ handler'.pc # "idle"
    BY <1>2, <1>6 DEF DeleteRoles, DeleteRoleBindings, HandlerReadsSecret,
                      HandlerWritesSecret, HandlerState
  <2>2. QuietQueue(a) /\ ~Concerns(handler.ev, a)
    BY <1>3, <2>1 DEF QuietQueue, Calm, Concerns
  <2>3. secretNs'[a] = secretNs[a]
    <3>1. \/ secretNs' = secretNs
          \/ \E s : secretNs' = [secretNs EXCEPT ![handler.ev.old] = s]
      BY <1>6 DEF DeleteRoles, DeleteRoleBindings, HandlerReadsSecret,
                  HandlerWritesSecret
    <3>2. handler.ev.old # a
      BY <2>2 DEF Concerns
    <3> QED BY <3>1, <3>2 DEF TypeInv, TypeOK
  <2> QED BY <1>1, <1>3, <2>2, <2>3 DEF Calm, SameTask, objects
<1> QED BY <1>4, <1>5, <1>6 DEF HandlerStep

\* Steps that send no event and leave the handler where it is.
LEMMA CalmSame ==
  ASSUME NEW a \in Instances, events' = events, handler'.pc = handler.pc,
         handler'.ev = handler.ev, Calm(a)', a \in queued => a \in queued'
  PROVE  Calm(a)
BY DEF Calm, QuietQueue, Concerns

\* Steps that send an event.
LEMMA CalmNotify ==
  ASSUME TypeInv, NEW a \in Instances, NEW n \in Namespaces,
         NEW op \in {"create", "update", "delete"},
         NEW old \in Instances \cup {None}, NEW new \in Instances \cup {None},
         Notify(n, op, old, new), handler' = handler, Calm(a)',
         a \in queued => a \in queued'
  PROVE  Calm(a) /\ old # a /\ new # a
<1>1. QuietQueue(a)'
  BY DEF Calm
<1>2. QuietQueue(a) /\ old # a /\ new # a
  BY <1>1, QuietNotify
<1> QED BY <1>2 DEF Calm, Concerns

LEMMA CalmWorker ==
  ASSUME TypeInv, WorldOK, NEW a \in Instances, WorkerStep, cr'[a] = "present", Calm(a)'
  PROVE  cr[a] = "present" /\ Calm(a) /\ SameTask(a)
<1>1. UNCHANGED <<enabled, ns, env>>
  BY DEF WorkerStep, ReleaseTerminating, ReconcileRole, ReconcileRoleBinding,
         RemoveManagedByLabel, ListNamespaces, ReadSecret, WriteSecret,
         RemoveDeletionFinalizer, objects
<1>2. queued \subseteq queued'
  BY DEF WorkerStep, ReleaseTerminating, ReconcileRole, ReconcileRoleBinding,
         RemoveManagedByLabel, ListNamespaces, ReadSecret, WriteSecret,
         RemoveDeletionFinalizer, Return, Fails
<1>3. worker.pc # "idle" /\ worker.cr \in Instances
  BY DEF WorkerStep, ReleaseTerminating, ReconcileRole, ReconcileRoleBinding,
         RemoveManagedByLabel, ListNamespaces, ReadSecret, WriteSecret,
         RemoveDeletionFinalizer, TypeInv, PhaseOK
<1>4. a \notin queued' /\ a # None
  BY ConstantsAssumption DEF Calm
<1>5. handler'.pc = handler.pc /\ handler'.ev = handler.ev
  BY DEF WorkerStep, ReleaseTerminating, ReconcileRole, ReconcileRoleBinding,
         RemoveManagedByLabel, ListNamespaces, ReadSecret, WriteSecret,
         RemoveDeletionFinalizer, TypeInv, TypeOK, HandlerState
<1>6. cr[a] = "present"
  BY DEF WorkerStep, ReleaseTerminating, ReconcileRole, ReconcileRoleBinding,
         RemoveManagedByLabel, ListNamespaces, ReadSecret, WriteSecret,
         RemoveDeletionFinalizer, TypeInv, TypeOK, objects
<1>7. secretNs'[a] = secretNs[a]
  <2>1. CASE WriteSecret
    <3>1. \/ secretNs' = secretNs
          \/ worker.cr \in queued' /\ \E s : secretNs' = [secretNs EXCEPT ![worker.cr] = s]
      BY <2>1 DEF WriteSecret, Return
    <3> QED BY <1>4, <3>1 DEF TypeInv, TypeOK
  <2>2. CASE RemoveDeletionFinalizer
    <3>1. worker.cr # a
      BY <1>6, <2>2 DEF RemoveDeletionFinalizer, WorldOK
    <3>2. \/ secretNs' = secretNs
          \/ \E s : secretNs' = [secretNs EXCEPT ![worker.cr] = s]
      BY <2>2 DEF RemoveDeletionFinalizer
    <3> QED BY <3>1, <3>2 DEF TypeInv, TypeOK
  <2>3. CASE secretNs' = secretNs
    BY <2>3
  <2> QED BY <2>1, <2>2, <2>3
    DEF WorkerStep, ReleaseTerminating, ReconcileRole, ReconcileRoleBinding,
        RemoveManagedByLabel, ListNamespaces, ReadSecret
<1>8. CASE label' = label /\ events' = events
  BY <1>1, <1>2, <1>5, <1>6, <1>7, <1>8, CalmSame DEF SameTask
<1>9. ASSUME NEW n \in Namespaces, ReleaseTerminating(n) \/ RemoveManagedByLabel(n)
      PROVE  Calm(a) /\ SameTask(a)
  <2>1. CASE label[n] = worker.cr /\ label' = [label EXCEPT ![n] = None]
              /\ Notify(n, "update", worker.cr, None)
    <3>1. handler' = handler
      BY <1>9 DEF ReleaseTerminating, RemoveManagedByLabel
    <3>2. Calm(a) /\ worker.cr # a
      BY <1>2, <1>3, <2>1, <3>1, CalmNotify
    <3> QED BY <1>1, <1>4, <1>7, <2>1, <3>2 DEF SameTask, TypeInv, TypeOK
  <2> QED BY <1>8, <1>9, <2>1 DEF ReleaseTerminating, RemoveManagedByLabel
<1> QED BY <1>6, <1>8, <1>9
  DEF WorkerStep, ReconcileRole, ReconcileRoleBinding, ListNamespaces, ReadSecret,
      WriteSecret, RemoveDeletionFinalizer, objects

LEMMA CalmReconcile ==
  ASSUME TypeInv, NEW a \in Instances, NEW b \in Instances, Reconcile(b), a # b,
         cr'[a] = "present", Calm(a)'
  PROVE  cr[a] = "present" /\ Calm(a) /\ SameTask(a)
<1>1. UNCHANGED <<enabled, ns, label, secretNs, env, events, handler>>
  BY DEF Reconcile
<1>2. a \in queued => a \in queued'
  BY DEF Reconcile
<1>3. cr'[a] = cr[a]
  BY DEF Reconcile, TypeInv, TypeOK
<1> QED BY <1>1, <1>2, <1>3, CalmSame DEF SameTask

LEMMA CalmEnvironment ==
  ASSUME TypeInv, WorldOK, NEW a \in Instances, Environment, cr'[a] = "present",
         Calm(a)'
  PROVE  cr[a] = "present" /\ Calm(a) /\ SameTask(a)
<1>1. a \notin queued' /\ a # None /\ a \in Namespaces
  BY ConstantsAssumption DEF Calm
<1>2. ASSUME NEW n \in Labelled,
             SetLabel(n) \/ DeleteNamespace(n) \/ CreateNamespace(n)
      PROVE  cr[a] = "present" /\ Calm(a) /\ SameTask(a)
  <2>1. /\ n \in Namespaces /\ label[n] \in Instances \cup {None}
        /\ UNCHANGED <<cr, enabled, secretNs, env, queued, handler>>
    BY <1>2, ConstantsAssumption
    DEF SetLabel, DeleteNamespace, CreateNamespace, Edited, TypeInv, TypeOK
  <2>2. CASE SetLabel(n)
    <3>1. PICK v \in Instances \cup {None} :
            label' = [label EXCEPT ![n] = v] /\ Notify(n, "update", label[n], v)
      BY <2>2 DEF SetLabel
    <3>2. Calm(a) /\ label[n] # a /\ v # a
      BY <2>1, <3>1, CalmNotify
    <3>3. ns' = ns
      BY <2>2 DEF SetLabel
    <3> QED BY <2>1, <3>1, <3>2, <3>3 DEF SameTask, TypeInv, TypeOK
  <2>3. CASE DeleteNamespace(n)
    <3>1. Notify(n, "update", label[n], label[n]) /\ label' = label
      BY <2>3 DEF DeleteNamespace
    <3>2. Calm(a)
      BY <2>1, <3>1, CalmNotify
    <3>3. \A m \in Namespaces : ns'[m] = "active" => ns[m] = "active"
      BY <2>3 DEF DeleteNamespace, TypeInv, TypeOK
    <3> QED BY <2>1, <3>1, <3>2, <3>3 DEF SameTask
  <2>4. CASE CreateNamespace(n)
    <3>1. PICK v \in Instances \cup {None} :
            label' = [label EXCEPT ![n] = v] /\ Notify(n, "create", None, v)
      BY <2>4 DEF CreateNamespace
    <3>2. Calm(a) /\ v # a
      BY <2>1, <3>1, CalmNotify
    <3>3. label[n] # a /\ n # a
      BY <1>1, <2>1, <2>4 DEF CreateNamespace, TypeInv, AbsentOK, WorldOK
    <3>4. \A m \in Namespaces : m # n => ns'[m] = ns[m]
      BY <2>4 DEF CreateNamespace, TypeInv, TypeOK
    <3>5. \A m \in Namespaces : (label'[m] = a) <=> (label[m] = a)
      BY <3>1, <3>2, <3>3 DEF TypeInv, TypeOK
    <3> QED BY <2>1, <3>2, <3>3, <3>4, <3>5 DEF SameTask
  <2> QED BY <1>2, <2>2, <2>3, <2>4
<1>3. ASSUME NEW b \in Instances, CreateCR(b) \/ DeleteCR(b) \/ EditCR(b) \/ Resync(b)
      PROVE  cr[a] = "present" /\ Calm(a) /\ SameTask(a)
  <2>1. /\ UNCHANGED <<ns, label, secretNs, env, events, handler>>
        /\ queued' = queued \cup {b}
    BY <1>3 DEF CreateCR, DeleteCR, EditCR, Resync, Edited, objects
  <2>2. b # a
    BY <1>1, <2>1
  <2>3. cr[a] = "present" /\ (a \in enabled' <=> a \in enabled)
    BY <1>3, <2>2 DEF CreateCR, DeleteCR, EditCR, Resync, objects, TypeInv, TypeOK
  <2> QED BY <2>1, <2>3, CalmSame DEF SameTask
<1>4. ASSUME NEW n \in Namespaces, NamespaceGone(n)
      PROVE  cr[a] = "present" /\ Calm(a) /\ SameTask(a)
  <2>1. /\ label[n] \in Instances \cup {None}
        /\ UNCHANGED <<cr, enabled, secretNs, env, queued, handler>>
    BY <1>4 DEF NamespaceGone, TypeInv, TypeOK
  <2>2. Notify(n, "delete", label[n], None)
    BY <1>4 DEF NamespaceGone
  <2>3. Calm(a) /\ label[n] # a
    BY <2>1, <2>2, CalmNotify
  <2>4. \A m \in Namespaces : (label'[m] = a) <=> (label[m] = a)
    BY <1>1, <1>4, <2>3 DEF NamespaceGone, TypeInv, TypeOK
  <2>5. \A m \in Namespaces : ns'[m] = "active" => ns[m] = "active"
    BY <1>4 DEF NamespaceGone, TypeInv, TypeOK
  <2> QED BY <2>1, <2>3, <2>4, <2>5 DEF SameTask
<1>5. CASE Restart
  <2>1. a \in queued'
    BY <1>5 DEF Restart, Exists, objects
  <2> QED BY <1>1, <2>1
<1> QED BY <1>2, <1>3, <1>4, <1>5, ConstantsAssumption DEF Environment

\* The heart of the argument: a step after which nothing is on its way for an
\* instance, other than the beginning of a pass over it, has found it so and
\* has not changed what a pass over it goes by.
LEMMA CalmStep ==
  ASSUME TypeInv, WorldOK, [Next]_vars, NEW a \in Instances, ~Reconcile(a),
         cr'[a] = "present", Calm(a)'
  PROVE  cr[a] = "present" /\ Calm(a) /\ SameTask(a)
<1>1. CASE UNCHANGED vars
  <2>1. UNCHANGED <<cr, enabled, ns, label, secretNs, env, events, handler, queued>>
    BY <1>1 DEF vars, objects
  <2> QED BY <2>1, CalmSame DEF SameTask
<1>2. CASE \E b \in Instances : Reconcile(b)
  BY <1>2, CalmReconcile
<1>3. CASE InformerStep
  <2>1. /\ UNCHANGED <<cr, enabled, ns, label, secretNs, env, events, handler>>
        /\ queued \subseteq queued'
    BY <1>3, InformerKeeps DEF objects
  <2> QED BY <2>1, CalmSame DEF SameTask
<1> QED BY <1>1, <1>2, <1>3, CalmHandler, CalmWorker, CalmEnvironment DEF Next

\* The namespaces of a, by label alone.
LEMMA ByLabel ==
  ASSUME AbsentOK, NEW a \in Instances
  PROVE  NamespacesOf(a) = {n \in Namespaces : label[n] = a} \cup {a}
BY ConstantsAssumption DEF NamespacesOf, AbsentOK

LEMMA SameNamespaces ==
  ASSUME TypeInv, TypeInv', NEW a \in Instances, SameTask(a)
  PROVE  NamespacesOf(a)' = NamespacesOf(a)
<1>1. AbsentOK /\ AbsentOK'
  BY DEF TypeInv
<1>2. NamespacesOf(a)' = ({n \in Namespaces : label[n] = a} \cup {a})'
  BY <1>1, ConstantsAssumption DEF NamespacesOf, AbsentOK
<1> QED BY <1>1, <1>2, ByLabel DEF SameTask

\* The handler, and the world, leave the worker alone.
LEMMA HandlerKeepsWorker ==
  ASSUME TypeInv, HandlerStep
  PROVE  /\ worker'.pc = worker.pc /\ worker'.cr = worker.cr
         /\ worker'.want = worker.want /\ worker'.read = worker.read
         /\ worker'.snap = worker.snap /\ worker'.todo = worker.todo
<1>1. worker' = worker \/ worker' = [worker EXCEPT !.fresh = FALSE]
  BY DEF HandlerStep, HandlerTakes, DeleteRoles, DeleteRoleBindings,
         HandlerReadsSecret, HandlerWritesSecret, HandlerEnqueues
<1> QED BY <1>1 DEF TypeInv, TypeOK, WorkerState

LEMMA EnvironmentKeepsWorker ==
  Environment => worker' = worker \/ (worker' = IdleWorker /\ Restart)
BY DEF Environment, SetLabel, DeleteNamespace, CreateNamespace, CreateCR, DeleteCR,
       EditCR, Resync, NamespaceGone, Restart, Edited

\* The worker begins with a only by Reconcile(a).
LEMMA NotBusyStep ==
  ASSUME TypeInv, [Next]_vars, NEW a \in Instances, ~Busy(a), ~Reconcile(a)
  PROVE  ~Busy(a)'
<1>1. a # None
  BY ConstantsAssumption
<1>2. CASE HandlerStep
  BY <1>2, HandlerKeepsWorker DEF Busy
<1>3. CASE Environment
  BY <1>3, EnvironmentKeepsWorker, IdleFields DEF Busy
<1>4. ASSUME NEW b \in Instances, Reconcile(b) PROVE ~Busy(a)'
  <2>1. b # a /\ worker.pc = "idle"
    BY <1>4 DEF Reconcile
  <2>2. CASE cr[b] = "absent"
    BY <1>4, <2>2 DEF Reconcile, Busy
  <2>3. CASE cr[b] \in {"new", "present"}
    <3>1. worker' = [IdleWorker EXCEPT !.pc = "roles", !.cr = b,
                       !.snap = setManagedNamespaces(b), !.todo = NamespacesOf(b)]
      BY <1>4, <2>3 DEF Reconcile
    <3>2. worker'.cr = b
      BY <3>1 DEF IdleWorker
    <3> QED BY <2>1, <3>2 DEF Busy
  <2>4. CASE cr[b] = "terminating"
    <3>1. \/ worker' = [IdleWorker EXCEPT !.pc = "unlabel", !.cr = b,
                                          !.todo = NamespacesOf(b)]
          \/ worker' = [IdleWorker EXCEPT !.pc = "finalize", !.cr = b]
      BY <1>4, <2>4 DEF Reconcile
    <3>2. worker'.cr = b
      BY <3>1 DEF IdleWorker
    <3> QED BY <2>1, <3>2 DEF Busy
  <2> QED BY <1>4, <2>2, <2>3, <2>4 DEF Reconcile
<1>5. CASE WorkerStep
  <2>1. worker.pc # "idle"
    BY <1>5 DEF WorkerStep, ReleaseTerminating, ReconcileRole, ReconcileRoleBinding,
         RemoveManagedByLabel, ListNamespaces, ReadSecret, WriteSecret,
         RemoveDeletionFinalizer
  <2>2. worker'.cr = worker.cr \/ worker' = IdleWorker
    <3>1. ASSUME NEW n \in Namespaces,
                 ReleaseTerminating(n) \/ ReconcileRole(n) \/ ReconcileRoleBinding(n)
          PROVE  worker'.cr = worker.cr \/ worker' = IdleWorker
      BY <3>1, DonePc
      DEF ReleaseTerminating, ReconcileRole, ReconcileRoleBinding, Return, Fails
    <3>2. ASSUME NEW n \in Namespaces, RemoveManagedByLabel(n)
          PROVE  worker'.cr = worker.cr \/ worker' = IdleWorker
      BY <3>2 DEF RemoveManagedByLabel, Return, Fails, TypeInv, TypeOK, WorkerState
    <3>3. CASE ListNamespaces \/ ReadSecret \/ WriteSecret \/ RemoveDeletionFinalizer
      BY <3>3 DEF ListNamespaces, ReadSecret, WriteSecret, RemoveDeletionFinalizer,
                  Return, Fails, TypeInv, TypeOK, WorkerState
    <3> QED BY <1>5, <3>1, <3>2, <3>3 DEF WorkerStep
  <2> QED BY <1>1, <2>1, <2>2, IdleFields DEF Busy
<1>6. CASE UNCHANGED vars
  BY <1>6 DEF vars, Busy
<1>7. CASE InformerStep
  BY <1>7, InformerKeeps DEF Busy
<1> QED BY <1>2, <1>3, <1>4, <1>5, <1>6, <1>7 DEF Next

-----------------------------------------------------------------------------
(* The cluster secret.                                                     *)

\* a's cluster secret is as it should be.
Listed(a) ==
  IF a \in clusterConfig THEN secretNs[a].kind # "list"
  ELSE secretNs[a].kind = "list" /\ NamespacesOf(a) \subseteq secretNs[a].list

\* What the pass over a has read for it is still so.
Looked(a) ==
  /\ worker.pc \in {"read", "write"} => worker.want = NamespacesOf(a)
  /\ worker.pc = "write" => worker.read = secretNs[a]

SecretInv ==
  \A a \in Instances : cr[a] = "present" /\ Calm(a) =>
    IF Busy(a) THEN Looked(a) ELSE Listed(a)

\* A step that has not changed what a pass over a goes by.
LEMMA SecretKept ==
  ASSUME TypeInv, TypeInv', NEW a \in Instances, SameTask(a)
  PROVE  /\ Listed(a) => Listed(a)'
         /\ worker'.pc = worker.pc /\ worker'.want = worker.want
              /\ worker'.read = worker.read /\ Looked(a) => Looked(a)'
<1>1. NamespacesOf(a)' = NamespacesOf(a)
  BY SameNamespaces
<1> QED BY <1>1 DEF Listed, Looked, SameTask, env

LEMMA SecretStep ==
  TypeInv /\ TypeInv' /\ WorldOK /\ SecretInv /\ [Next]_vars => SecretInv'
<1> SUFFICES ASSUME TypeInv, TypeInv', WorldOK, SecretInv, [Next]_vars,
                    NEW a \in Instances, cr'[a] = "present", Calm(a)'
             PROVE  IF Busy(a)' THEN Looked(a)' ELSE Listed(a)'
  BY DEF SecretInv
<1>1. CASE Reconcile(a)
  <2>1. worker'.pc = "roles" /\ worker'.cr = a
    BY <1>1 DEF Reconcile, IdleWorker, TypeInv, TypeOK
  <2> QED BY <2>1 DEF Busy, Looked
<1>2. CASE ~Reconcile(a)
  <2>1. cr[a] = "present" /\ Calm(a) /\ SameTask(a)
    BY <1>2, CalmStep
  <2>2. IF Busy(a) THEN Looked(a) ELSE Listed(a)
    BY <2>1 DEF SecretInv
  <2>3. worker \in WorkerState /\ a \notin queued' /\ a # None
    BY ConstantsAssumption DEF TypeInv, TypeOK, Calm
  <2>4. CASE worker' = worker
    BY <2>1, <2>2, <2>4, SecretKept DEF Busy
  <2>5. CASE HandlerStep
    <3>1. /\ worker'.pc = worker.pc /\ worker'.cr = worker.cr
          /\ worker'.want = worker.want /\ worker'.read = worker.read
      BY <2>5, HandlerKeepsWorker
    <3> QED BY <2>1, <2>2, <3>1, SecretKept DEF Busy
  <2>6. CASE ~Busy(a)
    BY <1>2, <2>1, <2>2, <2>6, SecretKept, NotBusyStep
  <2>7. CASE WorkerStep /\ Busy(a)
    <3>1. worker.cr = a /\ worker.pc # "idle" /\ Looked(a)
      BY <2>2, <2>7 DEF Busy
    <3>2. worker.pc \notin {"unlabel", "finalize"}
      BY <2>1, <3>1 DEF WorldOK
    <3>3. ASSUME NEW n \in Namespaces,
                 ReleaseTerminating(n) \/ ReconcileRole(n) \/ ReconcileRoleBinding(n)
          PROVE  Busy(a)' /\ Looked(a)'
      <4>1. /\ worker' = Done(n) \/ a \in queued'
            /\ worker.pc \in {"roles", "rolesAgain", "bindings"}
        BY <3>1, <3>3
        DEF ReleaseTerminating, ReconcileRole, ReconcileRoleBinding, Return, Fails
      <4> QED BY <2>3, <3>1, <4>1, DonePc DEF Busy, Looked
    <3>4. CASE ListNamespaces
      <4>1. worker' = [worker EXCEPT !.pc = "read", !.want = NamespacesOf(a)]
        BY <2>3, <3>1, <3>4 DEF ListNamespaces, Fails, Return
      <4>2. NamespacesOf(a)' = NamespacesOf(a)
        BY <2>1, SameNamespaces
      <4>3. worker'.pc = "read" /\ worker'.cr = a /\ worker'.want = NamespacesOf(a)
        BY <2>3, <3>1, <4>1 DEF WorkerState
      <4> QED BY <4>2, <4>3 DEF Busy, Looked
    <3>5. CASE ReadSecret
      <4>1. worker' = [worker EXCEPT !.pc = "write", !.read = secretNs[a], !.fresh = TRUE]
        BY <2>3, <3>1, <3>5 DEF ReadSecret, Fails, Return
      <4>2. NamespacesOf(a)' = NamespacesOf(a) /\ secretNs'[a] = secretNs[a]
        BY <2>1, SameNamespaces DEF SameTask
      <4>3. /\ worker'.pc = "write" /\ worker'.cr = a /\ worker'.read = secretNs[a]
            /\ worker'.want = worker.want /\ worker.pc = "read"
        BY <2>3, <3>1, <3>5, <4>1 DEF WorkerState, ReadSecret
      <4> QED BY <3>1, <4>2, <4>3 DEF Busy, Looked
    <3>6. CASE WriteSecret
      <4> DEFINE new == IF a \notin clusterConfig
                        THEN combineClusterSecretNamespacesWithManagedNamespaces(
                               worker.read, worker.want)
                        ELSE IF worker.read = NoSecret THEN NoSecret ELSE NoList
      <4>1. worker' = IdleWorker /\ (a \in queued' \/ new = worker.read)
        BY <3>1, <3>6 DEF WriteSecret, Return, Fails
      <4>2. new = worker.read
        BY <2>3, <4>1
      <4>3. worker.read = secretNs[a] /\ worker.want = NamespacesOf(a)
        BY <3>1, <3>6 DEF WriteSecret, Looked
      <4>4. Listed(a)
        BY <4>2, <4>3
        DEF Listed, combineClusterSecretNamespacesWithManagedNamespaces, ListOf,
            NoSecret, NoList
      <4> QED BY <2>1, <4>1, <4>4, IdleFields, SecretKept DEF Busy
    <3> QED BY <2>7, <3>2, <3>3, <3>4, <3>5, <3>6
      DEF WorkerStep, RemoveManagedByLabel, RemoveDeletionFinalizer
  <2>8. CASE (\E b \in Instances : Reconcile(b)) /\ Busy(a)
    BY <2>8 DEF Reconcile, Busy
  <2>9. CASE Environment
    <3>1. ~Restart
      BY <2>1, <2>3 DEF Restart, Exists, objects
    <3> QED BY <2>4, <2>9, <3>1, EnvironmentKeepsWorker
  <2>10. CASE UNCHANGED vars
    BY <2>4, <2>10 DEF vars
  <2>11. CASE InformerStep
    BY <2>4, <2>11, InformerKeeps
  <2> QED BY <2>5, <2>6, <2>7, <2>8, <2>9, <2>10, <2>11 DEF Next
<1> QED BY <1>1, <1>2

LEMMA SecretInvariant == Spec => [](TypeInv /\ WorldOK /\ SecretInv)
<1>1. Init => SecretInv
  BY DEF Init, SecretInv, Calm
<1>2. Init => TypeInv /\ WorldOK
  BY InitTypeInv, InitWorld
<1> QED BY <1>1, <1>2, TypeInvStep, WorldStep, SecretStep, PTL DEF Spec

\* Once the dust settles, the cluster secret of every instance lists all the
\* namespaces labelled with it, or none if the instance is cluster scoped,
\* however the worker and the informer's handler have overwritten each other,
\* calls have failed and the operator has been restarted.
THEOREM ListedAtRest == Spec => []ListedWhenQuiescent
<1>1. TypeInv /\ SecretInv => ListedWhenQuiescent
  <2> SUFFICES ASSUME TypeInv, SecretInv, Quiescent, NEW a \in Instances,
                      cr[a] = "present"
               PROVE  Listed(a)
    BY DEF ListedWhenQuiescent, Listed
  <2>1. Calm(a) /\ ~Busy(a)
    BY EmptySeq DEF Quiescent, Calm, QuietQueue, Busy
  <2> QED BY <2>1 DEF SecretInv
<1> QED BY <1>1, SecretInvariant, PTL

-----------------------------------------------------------------------------
(* Roles and RoleBindings.                                                 *)

\* Instances whose CRs have the same name call their Roles and RoleBindings in
\* a namespace the same: the own namespace of one is not to be labelled with the
\* other. If it is, each of the two overwrites the other's subject of the
\* RoleBinding, and the one that wrote first is left without access.
NamesApart ==
  \A a, b \in Instances : a # b /\ CRName[a] = CRName[b] => b \notin Labelled

\* Where the pass over an instance goes by its snapshot of the namespaces.
Passing == {"roles", "rolesAgain", "bindings", "list", "read", "write"}

\* The snapshot names the instance's own namespace and labelled ones.
SnapOK ==
  worker.pc \in Passing =>
    \A n \in Namespaces : worker.snap[n] # "no" => n = worker.cr \/ n \in Labelled

\* Roles and RoleBindings are called after the CR of the instance that created
\* them, in its own namespace or in a labelled one.
CreatorOK(n, x, c) == CRName[c] = x /\ (c = n \/ n \in Labelled)
NamedRoles(n, x) == {c \in Instances : CreatorOK(n, x, c)} \cup {None}
NamedBindings(n, x) == {b \in RoleBinding : CreatorOK(n, x, b.creator)} \cup {None}

\* So are those in the cache, and the versions in between.
NamedOK ==
  \A n \in Namespaces, x \in Names :
    /\ role[n][x] \in NamedRoles(n, x) /\ roleLag[n][x] \in Seq(NamedRoles(n, x))
    /\ binding[n][x] \in NamedBindings(n, x)
    /\ bindingLag[n][x] \in Seq(NamedBindings(n, x))

\* The last event of n in the queue says what its label is.
LastSays(n) ==
  \E i \in 1..Len(events) :
    /\ events[i].n = n /\ events[i].new = label[n]
    /\ \A j \in 1..Len(events) : j > i => events[j].n # n

\* No event of n is in the queue, and the one the handler has, if it has one,
\* says what the label is.
HandlerSays(n) ==
  /\ \A i \in 1..Len(events) : events[i].n # n
  /\ handler.pc # "idle" /\ handler.ev.n = n => handler.ev.new = label[n]

\* Events arrive in order.
EventOK == \A n \in Namespaces : LastSays(n) \/ HandlerSays(n)

\* How a loop over the snapshot goes on.
LEMMA DoneLoop ==
  ASSUME TypeInv, NEW n \in Namespaces,
         worker.pc \in {"roles", "rolesAgain", "bindings"}
  PROVE  /\ Done(n).cr = worker.cr
         /\ \A m \in Namespaces :
              Done(n).snap[m] = IF m = n /\ worker.snap[n] = "terminating"
                                THEN "no" ELSE worker.snap[m]
         /\ \/ Done(n).pc = worker.pc /\ Done(n).todo = worker.todo \ {n}
            \/ /\ worker.todo \ {n} = {} /\ Done(n).pc = After(worker.pc)
               /\ Done(n).todo = {m \in Namespaces : Done(n).snap[m] # "no"}
<1> DEFINE rest == worker.todo \ {n}
           snap == [worker.snap EXCEPT ![n] = IF @ = "terminating" THEN "no" ELSE @]
           first == {m \in Namespaces : snap[m] # "no"}
<1>1. worker \in WorkerState
  BY DEF TypeInv, TypeOK
<1>2. \A m \in Namespaces :
        snap[m] = IF m = n /\ worker.snap[n] = "terminating"
                  THEN "no" ELSE worker.snap[m]
  BY <1>1 DEF WorkerState
<1> HIDE DEF snap
<1>3. \/ Done(n) = [worker EXCEPT !.snap = snap, !.todo = rest]
      \/ /\ rest = {}
         /\ Done(n) = [worker EXCEPT !.snap = snap, !.pc = After(worker.pc),
                                     !.todo = first]
  BY DEF Done, snap
<1>4. /\ Done(n).snap = snap /\ Done(n).cr = worker.cr
      /\ \/ Done(n).pc = worker.pc /\ Done(n).todo = rest
         \/ rest = {} /\ Done(n).pc = After(worker.pc) /\ Done(n).todo = first
  BY <1>1, <1>3 DEF WorkerState
<1> QED BY <1>2, <1>4

LEMMA SnapStep == TypeInv /\ WorldOK /\ SnapOK /\ [Next]_vars => SnapOK'
<1> SUFFICES ASSUME TypeInv, WorldOK, SnapOK, [Next]_vars PROVE SnapOK'
  OBVIOUS
<1>1. CASE HandlerStep
  BY <1>1, HandlerKeepsWorker DEF SnapOK
<1>2. CASE Environment
  BY <1>2, EnvironmentKeepsWorker, IdleFields DEF SnapOK, Passing
<1>3. ASSUME NEW a \in Instances, Reconcile(a) PROVE SnapOK'
  <2>1. \/ worker' = worker
        \/ worker'.pc \in {"unlabel", "finalize"}
        \/ worker'.cr = a /\ worker'.snap = setManagedNamespaces(a)
    BY <1>3 DEF Reconcile, IdleWorker
  <2>2. \A n \in Namespaces : setManagedNamespaces(a)[n] # "no" => n = a \/ n \in Labelled
    BY ConstantsAssumption DEF setManagedNamespaces, NamespacesOf, WorldOK
  <2> QED BY <2>1, <2>2 DEF SnapOK, Passing
<1>4. ASSUME NEW n \in Namespaces,
             ReleaseTerminating(n) \/ ReconcileRole(n) \/ ReconcileRoleBinding(n)
      PROVE  SnapOK'
  <2>1. /\ worker' = Done(n) \/ worker' = IdleWorker
        /\ worker.pc \in {"roles", "rolesAgain", "bindings"}
    BY <1>4 DEF ReleaseTerminating, ReconcileRole, ReconcileRoleBinding, Return, Fails
  <2> QED BY <2>1, DoneLoop, IdleFields DEF SnapOK, Passing
<1>5. ASSUME NEW n \in Namespaces, RemoveManagedByLabel(n) PROVE SnapOK'
  <2>1. worker'.pc \in {"unlabel", "finalize"} \/ worker' = IdleWorker
    BY <1>5 DEF RemoveManagedByLabel, Return, Fails, TypeInv, TypeOK, WorkerState
  <2> QED BY <2>1, IdleFields DEF SnapOK, Passing
<1>6. CASE ListNamespaces \/ ReadSecret
  <2>1. \/ worker'.cr = worker.cr /\ worker'.snap = worker.snap /\ worker.pc \in Passing
        \/ worker' = IdleWorker
    BY <1>6
    DEF ListNamespaces, ReadSecret, Return, Fails, TypeInv, TypeOK, WorkerState, Passing
  <2> QED BY <2>1, IdleFields DEF SnapOK, Passing
<1>7. CASE WriteSecret \/ RemoveDeletionFinalizer
  BY <1>7, IdleFields
  DEF WriteSecret, RemoveDeletionFinalizer, Return, Fails, SnapOK, Passing
<1>8. CASE UNCHANGED vars
  BY <1>8 DEF vars, SnapOK
<1>9. CASE InformerStep
  BY <1>9, InformerKeeps DEF SnapOK
<1> QED BY <1>1, <1>2, <1>3, <1>4, <1>5, <1>6, <1>7, <1>8, <1>9 DEF Next, WorkerStep

\* What the cache has to work off, and what is written, are called after CRs.
LEMMA NamedWritten ==
  ASSUME TypeInv, NamedOK,
         \A n \in Namespaces, x \in Names :
           role'[n][x] \in NamedRoles(n, x) \cup {role[n][x]},
         \A n \in Namespaces, x \in Names :
           binding'[n][x] \in NamedBindings(n, x) \cup {binding[n][x]},
         roleLag' = roleLag \/ RolesWritten,
         bindingLag' = bindingLag \/ BindingsWritten
  PROVE  NamedOK'
<1> SUFFICES ASSUME NEW n \in Namespaces, NEW x \in Names
             PROVE  /\ role'[n][x] \in NamedRoles(n, x)
                    /\ roleLag'[n][x] \in Seq(NamedRoles(n, x))
                    /\ binding'[n][x] \in NamedBindings(n, x)
                    /\ bindingLag'[n][x] \in Seq(NamedBindings(n, x))
  BY DEF NamedOK, NamedRoles, NamedBindings, CreatorOK
<1> DEFINE R == NamedRoles(n, x)
           B == NamedBindings(n, x)
<1>1. /\ role[n][x] \in R /\ roleLag[n][x] \in Seq(R)
      /\ binding[n][x] \in B /\ bindingLag[n][x] \in Seq(B)
  BY DEF NamedOK
<1>2. role'[n][x] \in R /\ binding'[n][x] \in B
  BY <1>1
<1>3. roleLag'[n][x] \in {roleLag[n][x], Append(roleLag[n][x], role[n][x])}
  BY DEF RolesWritten, Outdated
<1>4. bindingLag'[n][x] \in {bindingLag[n][x], Append(bindingLag[n][x], binding[n][x])}
  BY DEF BindingsWritten, Outdated
<1> HIDE DEF R, B
<1>5. Append(roleLag[n][x], role[n][x]) \in Seq(R)
  BY <1>1, AppendProperties
<1>6. Append(bindingLag[n][x], binding[n][x]) \in Seq(B)
  BY <1>1, AppendProperties
<1> QED BY <1>1, <1>2, <1>3, <1>4, <1>5, <1>6 DEF R, B

\* Absence has no creator.
LEMMA NoneNamed ==
  \A n, x : None \in NamedRoles(n, x) /\ None \in NamedBindings(n, x)
BY DEF NamedRoles, NamedBindings

\* Neither deletions nor deliveries bring other names.
LEMMA NamedRest ==
  ASSUME TypeInv, NamedOK,
         InformerStep \/ RemoveDeletionFinalizer \/ Restart
           \/ \E n \in Namespaces : NamespaceGone(n)
  PROVE  NamedOK'
<1>1. CASE RemoveDeletionFinalizer
  <2> DEFINE a == worker.cr
             roles == [x \in Names |-> IF role[a][x] = a THEN None ELSE role[a][x]]
             bindings == [x \in Names |-> LET b == binding[a][x] IN
                            IF b # None /\ b.creator = a THEN None ELSE b]
  <2>1. \/ UNCHANGED <<role, binding>>
        \/ /\ role' = [role EXCEPT ![a] = roles]
           /\ binding' = [binding EXCEPT ![a] = bindings]
    BY <1>1 DEF RemoveDeletionFinalizer
  <2>2. \A n \in Namespaces, x \in Names :
          role'[n][x] \in {None, role[n][x]} /\ binding'[n][x] \in {None, binding[n][x]}
    <3>1. /\ role \in [Namespaces -> [Names -> Instances \cup {None}]]
          /\ binding \in [Namespaces -> [Names -> RoleBinding \cup {None}]]
      BY DEF TypeInv, TypeOK
    <3>2. \A x \in Names : /\ roles[x] \in {None, role[a][x]}
                           /\ bindings[x] \in {None, binding[a][x]}
      OBVIOUS
    <3> HIDE DEF roles, bindings, a
    <3>3. CASE UNCHANGED <<role, binding>>
      BY <3>3
    <3>4. ASSUME role' = [role EXCEPT ![a] = roles], NEW n \in Namespaces
          PROVE  role'[n] = IF n = a THEN roles ELSE role[n]
      BY <3>1, <3>4
    <3>5. ASSUME binding' = [binding EXCEPT ![a] = bindings], NEW n \in Namespaces
          PROVE  binding'[n] = IF n = a THEN bindings ELSE binding[n]
      BY <3>1, <3>5
    <3> QED BY <2>1, <3>2, <3>3, <3>4, <3>5
  <2>3. RolesWritten /\ BindingsWritten
    BY <1>1 DEF RemoveDeletionFinalizer
  <2> QED BY <2>2, <2>3, NamedWritten, NoneNamed
<1>2. ASSUME NEW n \in Namespaces, NamespaceGone(n) PROVE NamedOK'
  <2>1. \A m \in Namespaces, x \in Names :
          role'[m][x] \in {None, role[m][x]} /\ binding'[m][x] \in {None, binding[m][x]}
    BY <1>2 DEF NamespaceGone, TypeInv, TypeOK
  <2>2. RolesWritten /\ BindingsWritten
    BY <1>2 DEF NamespaceGone
  <2> QED BY <2>1, <2>2, NamedWritten, NoneNamed
<1>3. CASE Restart
  BY <1>3, EmptySeq DEF Restart, NoLag, NamedOK, NamedRoles, NamedBindings, CreatorOK
<1>4. ASSUME NEW n \in Namespaces, NEW x \in Names,
             RoleDelivered(n, x) \/ BindingDelivered(n, x)
      PROVE  NamedOK'
  <2>1. UNCHANGED <<role, binding>>
    BY <1>4 DEF RoleDelivered, BindingDelivered
  <2>2. ASSUME NEW m \in Namespaces, NEW y \in Names
        PROVE  /\ roleLag'[m][y] \in Seq(NamedRoles(m, y))
               /\ bindingLag'[m][y] \in Seq(NamedBindings(m, y))
    <3> DEFINE R == NamedRoles(m, y)
               B == NamedBindings(m, y)
    <3>1. roleLag[m][y] \in Seq(R) /\ bindingLag[m][y] \in Seq(B)
      BY DEF NamedOK
    <3> HIDE DEF R, B
    <3>2. /\ roleLag[m][y] # <<>> => Tail(roleLag[m][y]) \in Seq(R)
          /\ bindingLag[m][y] # <<>> => Tail(bindingLag[m][y]) \in Seq(B)
      BY <3>1, HeadTailProperties
    <3>3. /\ \/ roleLag'[m][y] = roleLag[m][y]
             \/ roleLag[m][y] # <<>> /\ roleLag'[m][y] = Tail(roleLag[m][y])
          /\ \/ bindingLag'[m][y] = bindingLag[m][y]
             \/ bindingLag[m][y] # <<>> /\ bindingLag'[m][y] = Tail(bindingLag[m][y])
      <4>1. /\ roleLag \in [Namespaces -> [Names -> Seq(Instances \cup {None})]]
            /\ bindingLag \in [Namespaces -> [Names -> Seq(RoleBinding \cup {None})]]
        BY DEF TypeInv, TypeOK
      <4>2. CASE RoleDelivered(n, x)
        <5>1. /\ roleLag[n][x] # <<>> /\ bindingLag' = bindingLag
              /\ roleLag' = [roleLag EXCEPT ![n][x] = Tail(roleLag[n][x])]
          BY <4>2 DEF RoleDelivered
        <5>2. roleLag'[m][y] = IF m = n /\ y = x THEN Tail(roleLag[n][x])
                               ELSE roleLag[m][y]
          <6> DEFINE tail == Tail(roleLag[n][x])
          <6> HIDE DEF tail
          <6> QED BY <4>1, <5>1 DEF tail
        <5> QED BY <5>1, <5>2
      <4>3. CASE BindingDelivered(n, x)
        <5>1. /\ bindingLag[n][x] # <<>> /\ roleLag' = roleLag
              /\ bindingLag' = [bindingLag EXCEPT ![n][x] = Tail(bindingLag[n][x])]
          BY <4>3 DEF BindingDelivered
        <5>2. bindingLag'[m][y] = IF m = n /\ y = x THEN Tail(bindingLag[n][x])
                                  ELSE bindingLag[m][y]
          <6> DEFINE tail == Tail(bindingLag[n][x])
          <6> HIDE DEF tail
          <6> QED BY <4>1, <5>1 DEF tail
        <5> QED BY <5>1, <5>2
      <4> QED BY <1>4, <4>2, <4>3
    <3> QED BY <3>1, <3>2, <3>3 DEF R, B
  <2> QED BY <2>1, <2>2 DEF NamedOK, NamedRoles, NamedBindings, CreatorOK
<1> QED BY <1>1, <1>2, <1>3, <1>4 DEF InformerStep

LEMMA NamedStep == TypeInv /\ SnapOK /\ NamedOK /\ [Next]_vars => NamedOK'
<1> SUFFICES ASSUME TypeInv, SnapOK, NamedOK, [Next]_vars PROVE NamedOK'
  OBVIOUS
<1>2. CASE UNCHANGED <<role, binding, roleLag, bindingLag>>
  BY <1>2 DEF NamedOK, NamedRoles, NamedBindings, CreatorOK
<1>3. CASE DeleteRoles
  <2>1. UNCHANGED <<binding, bindingLag>> /\ RolesWritten
    BY <1>3 DEF DeleteRoles
  <2>2. \A n \in Namespaces, x \in Names : role'[n][x] \in {None, role[n][x]}
    <3>1. \/ role' = role
          \/ \E kept : role' = [role EXCEPT ![handler.ev.n] = Kept(role[handler.ev.n], kept)]
      BY <1>3 DEF DeleteRoles
    <3>2. role \in [Namespaces -> [Names -> Instances \cup {None}]]
      BY DEF TypeInv, TypeOK
    <3>3. ASSUME NEW k, NEW kept, role' = [role EXCEPT ![k] = Kept(role[k], kept)]
          PROVE  \A n \in Namespaces, x \in Names : role'[n][x] \in {None, role[n][x]}
      <4>1. \A n \in Namespaces, x \in Names :
              role'[n][x] = IF n = k /\ x \notin kept THEN None ELSE role[n][x]
        BY <3>2, <3>3 DEF Kept
      <4> QED BY <4>1
    <3> QED BY <3>1, <3>3
  <2> QED BY <2>1, <2>2, NamedWritten, NoneNamed
<1>4. CASE DeleteRoleBindings
  <2>1. UNCHANGED <<role, roleLag>> /\ BindingsWritten
    BY <1>4 DEF DeleteRoleBindings
  <2>2. \A n \in Namespaces, x \in Names : binding'[n][x] \in {None, binding[n][x]}
    BY <1>4 DEF DeleteRoleBindings, Kept, TypeInv, TypeOK
  <2> QED BY <2>1, <2>2, NamedWritten, NoneNamed
<1>5. ASSUME NEW n \in Namespaces, ReconcileRole(n) PROVE NamedOK'
  <2> DEFINE a == worker.cr
             y == CRName[a]
  <2>1. /\ a \in Instances /\ y \in Names /\ CreatorOK(n, y, a)
        /\ UNCHANGED <<binding, bindingLag>> /\ RolesWritten
    BY <1>5, ConstantsAssumption
    DEF ReconcileRole, TypeInv, PhaseOK, CreatorOK, SnapOK, Passing
  <2>2. \/ role' = [role EXCEPT ![n][y] = a]
        \/ role' = [role EXCEPT ![n][y] = None]
        \/ role' = role
    BY <1>5 DEF ReconcileRole
  <2>3. \A m \in Namespaces, x \in Names :
          role'[m][x] \in {None, role[m][x]} \/ (m = n /\ x = y /\ role'[m][x] = a)
    <3> HIDE DEF a, y
    <3> QED BY <2>1, <2>2 DEF TypeInv, TypeOK
  <2>4. a \in NamedRoles(n, y)
    BY <2>1 DEF NamedRoles
  <2> QED BY <2>1, <2>3, <2>4, NamedWritten, NoneNamed
<1>6. ASSUME NEW n \in Namespaces, ReconcileRoleBinding(n) PROVE NamedOK'
  <2> DEFINE a == worker.cr
             y == CRName[a]
             b == binding[n][y]
             new == [creator |-> a, subject |-> a, ref |-> RoleRef]
             changed == [b EXCEPT !.subject = a]
             twice == Append(Append(bindingLag[n][y], b), None)
             B == NamedBindings(n, y)
  <2>1. /\ a \in Instances /\ y \in Names /\ CreatorOK(n, y, a)
        /\ UNCHANGED <<role, roleLag>>
    BY <1>6, ConstantsAssumption
    DEF ReconcileRoleBinding, TypeInv, PhaseOK, CreatorOK, SnapOK, Passing
  <2>2. \/ binding' = [binding EXCEPT ![n][y] = new]
        \/ binding' = [binding EXCEPT ![n][y] = None]
        \/ b # None /\ binding' = [binding EXCEPT ![n][y] = changed]
        \/ binding' = binding
    <3>1. bindingLag[n][y] = <<>> => Seen(bindingLag, binding, n, y) = b
      BY <2>1, SeenUpToDate
    <3> QED BY <1>6, <3>1 DEF ReconcileRoleBinding
  <2>3. \/ bindingLag' = bindingLag
        \/ BindingsWritten
        \/ bindingLag' = [bindingLag EXCEPT ![n][y] = twice]
    BY <1>6 DEF ReconcileRoleBinding
  <2>4. b \in B /\ None \in B /\ bindingLag[n][y] \in Seq(B)
    BY <2>1, NoneNamed DEF NamedOK
  <2>5. new \in B /\ (b # None => changed \in B)
    <3>1. new \in RoleBinding /\ new.creator = a
      BY <2>1 DEF RoleBinding, RoleRef
    <3>2. b # None => changed \in RoleBinding /\ changed.creator = b.creator
      BY <2>1, <2>4 DEF NamedBindings, RoleBinding
    <3> QED BY <2>1, <2>4, <3>1, <3>2 DEF NamedBindings
  <2>6. twice \in Seq(B)
    <3> HIDE DEF B, b
    <3>1. Append(bindingLag[n][y], b) \in Seq(B)
      BY <2>4, AppendProperties
    <3> QED BY <2>4, <3>1, AppendProperties
  <2> HIDE DEF new, changed, twice
  <2>7. ASSUME NEW m \in Namespaces, NEW x \in Names
        PROVE  binding'[m][x] \in NamedBindings(m, x) \cup {binding[m][x]}
    <3>1. CASE m = n /\ x = y
      BY <2>1, <2>2, <2>4, <2>5, <3>1 DEF TypeInv, TypeOK
    <3>2. CASE ~(m = n /\ x = y)
      BY <2>1, <2>2, <3>2 DEF TypeInv, TypeOK
    <3> QED BY <3>1, <3>2
  <2>8. CASE bindingLag' = bindingLag \/ BindingsWritten
    BY <2>1, <2>7, <2>8, NamedWritten
  <2>9. CASE bindingLag' = [bindingLag EXCEPT ![n][y] = twice]
    <3> SUFFICES ASSUME NEW m \in Namespaces, NEW x \in Names
                 PROVE  /\ role'[m][x] \in NamedRoles(m, x)
                        /\ roleLag'[m][x] \in Seq(NamedRoles(m, x))
                        /\ binding'[m][x] \in NamedBindings(m, x)
                        /\ bindingLag'[m][x] \in Seq(NamedBindings(m, x))
      BY DEF NamedOK, NamedRoles, NamedBindings, CreatorOK
    <3>1. /\ role'[m][x] \in NamedRoles(m, x)
          /\ roleLag'[m][x] \in Seq(NamedRoles(m, x))
          /\ binding'[m][x] \in NamedBindings(m, x)
      BY <2>1, <2>7 DEF NamedOK
    <3>2. bindingLag'[m][x] = IF m = n /\ x = y THEN twice ELSE bindingLag[m][x]
      BY <2>1, <2>9 DEF TypeInv, TypeOK
    <3>3. bindingLag[m][x] \in Seq(NamedBindings(m, x))
      BY DEF NamedOK
    <3> QED BY <2>6, <3>1, <3>2, <3>3
  <2> QED BY <2>3, <2>8, <2>9
<1>9. CASE UNCHANGED vars
  BY <1>2, <1>9 DEF vars, access
<1> QED BY <1>2, <1>3, <1>4, <1>5, <1>6, <1>9, NamedRest
  DEF Next, HandlerStep, WorkerStep, Environment, HandlerTakes, HandlerReadsSecret,
      HandlerWritesSecret, HandlerEnqueues, Reconcile, ReleaseTerminating,
      RemoveManagedByLabel, ListNamespaces, ReadSecret, WriteSecret, SetLabel,
      DeleteNamespace, CreateNamespace, CreateCR, DeleteCR, EditCR, Resync, access

\* An event that says what the label is from now on.
LEMMA EventNotify ==
  ASSUME TypeInv, EventOK, NEW n \in Namespaces,
         NEW op \in {"create", "update", "delete"},
         NEW old \in Instances \cup {None}, NEW new \in Instances \cup {None},
         Notify(n, op, old, new), label'[n] = new, handler' = handler,
         \A m \in Namespaces : m # n => label'[m] = label[m]
  PROVE  EventOK'
<1> DEFINE e == [n |-> n, old |-> old, new |-> new, op |-> op]
           k == Len(events) + 1
<1>1. /\ Len(events') = k /\ Len(events) \in Nat
      /\ \A i \in 1..Len(events) : events'[i] = events[i]
      /\ events'[k] = e
  <2>1. e \in NsEvent /\ events \in Seq(NsEvent)
    BY DEF NsEvent, TypeInv, TypeOK
  <2> QED BY <2>1, AppendProperties, LenProperties DEF Notify
<1> SUFFICES ASSUME NEW m \in Namespaces PROVE LastSays(m)' \/ HandlerSays(m)'
  BY DEF EventOK
<1>2. CASE m = n
  <2>1. k \in 1..Len(events') /\ \A j \in 1..Len(events') : ~(j > k)
    BY <1>1
  <2>2. events'[k].n = n /\ events'[k].new = label'[n]
    BY <1>1
  <2> QED BY <1>2, <2>1, <2>2 DEF LastSays
<1>3. CASE m # n
  <2>1. label'[m] = label[m]
    BY <1>3
  <2>2. events'[k].n # m
    BY <1>1, <1>3
  <2>3. \A j \in 1..Len(events') : j \in 1..Len(events) \/ j = k
    BY <1>1
  <2>4. CASE LastSays(m)
    <3>1. PICK i \in 1..Len(events) :
            /\ events[i].n = m /\ events[i].new = label[m]
            /\ \A j \in 1..Len(events) : j > i => events[j].n # m
      BY <2>4 DEF LastSays
    <3>2. i \in 1..Len(events') /\ events'[i] = events[i]
      BY <1>1
    <3>3. \A j \in 1..Len(events') : j > i => events'[j].n # m
      BY <1>1, <2>2, <2>3, <3>1
    <3> QED BY <2>1, <3>1, <3>2, <3>3 DEF LastSays
  <2>5. CASE HandlerSays(m)
    <3>1. \A j \in 1..Len(events') : events'[j].n # m
      BY <1>1, <2>2, <2>3, <2>5 DEF HandlerSays
    <3> QED BY <2>1, <2>5, <3>1 DEF HandlerSays
  <2> QED BY <2>4, <2>5 DEF EventOK
<1> QED BY <1>2, <1>3

LEMMA EventTakes ==
  ASSUME TypeInv, EventOK, HandlerTakes
  PROVE  EventOK'
<1>1. events \in Seq(NsEvent) /\ events # <<>> /\ events' = Tail(events)
  BY DEF HandlerTakes, TypeInv, TypeOK
<1>2. /\ Len(events') = Len(events) - 1 /\ Len(events) \in Nat
      /\ Head(events) = events[1]
      /\ \A i \in 1..Len(events') : events'[i] = events[i + 1]
  BY <1>1, HeadTailProperties, LenProperties
<1>3. handler'.pc # "idle" /\ handler'.ev = events[1] /\ label' = label
  BY <1>2 DEF HandlerTakes, IdleHandler, objects
<1>4. handler.pc = "idle"
  BY DEF HandlerTakes
<1> SUFFICES ASSUME NEW m \in Namespaces PROVE LastSays(m)' \/ HandlerSays(m)'
  BY DEF EventOK
<1>5. CASE LastSays(m)
  <2>1. PICK i \in 1..Len(events) :
          /\ events[i].n = m /\ events[i].new = label[m]
          /\ \A j \in 1..Len(events) : j > i => events[j].n # m
    BY <1>5 DEF LastSays
  <2>2. CASE i = 1
    <3>1. \A j \in 1..Len(events') : events'[j].n # m
      BY <1>2, <2>1, <2>2
    <3> QED BY <1>3, <2>1, <2>2, <3>1 DEF HandlerSays
  <2>3. CASE i # 1
    <3>1. i - 1 \in 1..Len(events') /\ events'[i - 1] = events[i]
      BY <1>2, <2>3
    <3>2. \A j \in 1..Len(events') : j > i - 1 => events'[j].n # m
      BY <1>2, <2>1
    <3> QED BY <1>3, <2>1, <3>1, <3>2 DEF LastSays
  <2> QED BY <2>2, <2>3
<1>6. CASE HandlerSays(m)
  <2>1. \A j \in 1..Len(events') : events'[j].n # m
    BY <1>2, <1>6 DEF HandlerSays
  <2>2. handler'.ev.n # m
    <3>1. 1 \in 1..Len(events)
      BY <1>1, <1>2, EmptySeq
    <3> QED BY <1>3, <1>6, <3>1 DEF HandlerSays
  <2> QED BY <2>1, <2>2 DEF HandlerSays
<1> QED BY <1>5, <1>6 DEF EventOK

LEMMA EventStep == TypeInv /\ EventOK /\ [Next]_vars => EventOK'
<1> SUFFICES ASSUME TypeInv, EventOK, [Next]_vars PROVE EventOK'
  OBVIOUS
<1>1. ASSUME UNCHANGED <<label, events>>,
             \/ handler'.pc = handler.pc /\ handler'.ev = handler.ev
             \/ handler.pc # "idle" /\ handler'.ev = handler.ev
             \/ handler'.pc = "idle"
      PROVE  EventOK'
  BY <1>1 DEF EventOK, LastSays, HandlerSays
<1>2. CASE DeleteRoles \/ DeleteRoleBindings \/ HandlerReadsSecret \/ HandlerWritesSecret
  <2>1. UNCHANGED <<label, events>> /\ handler.pc # "idle" /\ handler'.ev = handler.ev
    BY <1>2 DEF DeleteRoles, DeleteRoleBindings, HandlerReadsSecret,
                HandlerWritesSecret, objects, TypeInv, TypeOK, HandlerState
  <2> QED BY <1>1, <2>1
<1>3. CASE HandlerEnqueues
  BY <1>1, <1>3, IdleFields DEF HandlerEnqueues, objects
<1>4. CASE Restart
  <2>1. events' = <<>> /\ handler'.pc = "idle"
    BY <1>4, IdleFields DEF Restart
  <2> QED BY <2>1, EmptySeq DEF EventOK, HandlerSays
<1>5. ASSUME NEW n \in Namespaces, ReleaseTerminating(n) \/ RemoveManagedByLabel(n)
      PROVE  EventOK'
  <2>1. handler' = handler /\ worker.cr \in Instances
    BY <1>5 DEF ReleaseTerminating, RemoveManagedByLabel, TypeInv, PhaseOK
  <2>2. \/ UNCHANGED <<label, events>>
        \/ /\ label' = [label EXCEPT ![n] = None]
           /\ Notify(n, "update", worker.cr, None)
    BY <1>5 DEF ReleaseTerminating, RemoveManagedByLabel
  <2>3. CASE label' = [label EXCEPT ![n] = None] /\ Notify(n, "update", worker.cr, None)
    <3>1. label'[n] = None /\ \A m \in Namespaces : m # n => label'[m] = label[m]
      BY <2>3 DEF TypeInv, TypeOK
    <3> QED BY <2>1, <2>3, <3>1, EventNotify
  <2> QED BY <1>1, <2>1, <2>2, <2>3
<1>6. CASE WriteSecret \/ RemoveDeletionFinalizer
  <2>1. UNCHANGED <<label, events>> /\ handler'.pc = handler.pc /\ handler'.ev = handler.ev
    BY <1>6 DEF WriteSecret, RemoveDeletionFinalizer, objects, TypeInv, TypeOK,
                HandlerState
  <2> QED BY <1>1, <2>1
<1>7. ASSUME NEW n \in Namespaces,
             NamespaceGone(n) \/ SetLabel(n) \/ DeleteNamespace(n) \/ CreateNamespace(n)
      PROVE  EventOK'
  <2>1. handler' = handler /\ label[n] \in Instances \cup {None}
    BY <1>7 DEF NamespaceGone, SetLabel, DeleteNamespace, CreateNamespace, Edited,
                TypeInv, TypeOK
  <2>2. PICK v \in Instances \cup {None}, old \in Instances \cup {None},
             op \in {"create", "update", "delete"} :
          (label' = [label EXCEPT ![n] = v] \/ (label' = label /\ v = label[n]))
            /\ Notify(n, op, old, v)
    BY <1>7, <2>1 DEF NamespaceGone, SetLabel, DeleteNamespace, CreateNamespace
  <2>3. label'[n] = v /\ \A m \in Namespaces : m # n => label'[m] = label[m]
    BY <2>2 DEF TypeInv, TypeOK
  <2> QED BY <2>1, <2>2, <2>3, EventNotify
<1>8. CASE UNCHANGED vars
  BY <1>1, <1>8 DEF vars, objects
<1>9. CASE UNCHANGED <<label, events, handler>>
  BY <1>1, <1>9
<1> QED BY <1>2, <1>3, <1>4, <1>5, <1>6, <1>7, <1>8, <1>9, EventTakes, ConstantsAssumption
  DEF Next, HandlerStep, WorkerStep, Environment, Reconcile, ReconcileRole,
      ReconcileRoleBinding, ListNamespaces, ReadSecret, CreateCR, DeleteCR, EditCR,
      Resync, Edited, InformerStep, RoleDelivered, BindingDelivered, objects

-----------------------------------------------------------------------------
(* Access, and who may disturb it.                                         *)

\* Namespaces in which a is to have its access.
Served(a) == {n \in NamespacesOf(a) : ns[n] = "active"}

RoleOK(a, n) == a \in enabled /\ ~customRole => role[n][CRName[a]] # None
BindingOK(a, n) ==
  LET b == binding[n][CRName[a]] IN
    IF a \in enabled THEN b # None /\ b.subject = a /\ b.ref = RoleRef ELSE b = None

\* The last pass over a has seen to it, unless it went by an old read.
RoleDone(a, n) == <<a, n>> \in missed \/ RoleOK(a, n)
BindingDone(a, n) == <<a, n>> \in missed \/ BindingOK(a, n)

\* a has its access, and the pass over another instance will not touch it.
Given(a) ==
  /\ \A n \in Served(a) : RoleDone(a, n) /\ BindingDone(a, n)
  /\ worker.pc \in Passing =>
       \A n \in Namespaces : label[n] = a /\ n # worker.cr => worker.snap[n] = "no"

\* What the pass over a has done so far.
GivenSoFar(a) ==
  \A n \in Served(a) :
    /\ worker.snap[n] = "active"
    /\ worker.pc = "rolesAgain" => n \in worker.todo \/ RoleDone(a, n)
    /\ worker.pc = "bindings" => RoleDone(a, n) /\ (n \in worker.todo \/ BindingDone(a, n))
    /\ worker.pc \in {"list", "read", "write"} => RoleDone(a, n) /\ BindingDone(a, n)

\* No version of an object is among those of S, unless the cache has them all.
Quiet(lag, table, n, x, S) ==
  lag[n][x] # <<>> =>
    \A i \in 1..Len(lag[n][x]) + 1 : Versions(lag, table, n, x)[i] \notin S

\* The cache has nothing of what a owns, in its own namespace, yet to deliver.
OwnBindings(a) == {b \in RoleBinding : b.creator = a}
Delivered(a) ==
  /\ Quiet(roleLag, role, a, CRName[a], {a})
  /\ Quiet(bindingLag, binding, a, CRName[a], OwnBindings(a))

AccessInv ==
  \A a \in Instances : cr[a] = "present" /\ Calm(a) /\ Delivered(a) =>
    IF Busy(a) THEN GivenSoFar(a) ELSE Given(a)

BaseInv == TypeInv /\ WorldOK /\ SnapOK /\ NamedOK /\ EventOK

\* The namespaces a pass over a serves are the same, or fewer.
LEMMA ServedShrinks ==
  ASSUME TypeInv, TypeInv', NEW a \in Instances, SameTask(a)
  PROVE  /\ Served(a)' \subseteq Served(a)
         /\ \A n \in Served(a)' : n \in Namespaces /\ ns'[n] = "active"
         /\ \A n \in Served(a) : n \in Namespaces /\ (n = a \/ label[n] = a)
<1>1. NamespacesOf(a)' = NamespacesOf(a)
  BY SameNamespaces
<1>2. \A n \in NamespacesOf(a) : n \in Namespaces /\ (n = a \/ label[n] = a)
  BY ConstantsAssumption DEF NamespacesOf
<1> QED BY <1>1, <1>2 DEF Served, SameTask

\* What a has in n is not touched.
Same(a, n) ==
  /\ role'[n][CRName[a]] = role[n][CRName[a]]
  /\ binding'[n][CRName[a]] = binding[n][CRName[a]]

\* What a pass over a has overlooked, the next one over a looks at again.
LEMMA MissedKept ==
  ASSUME [Next]_vars, NEW a \in Instances, ~Reconcile(a), NEW n, <<a, n>> \in missed
  PROVE  <<a, n>> \in missed'
<1>1. ASSUME NEW b \in Instances, Reconcile(b) PROVE <<a, n>> \in missed'
  BY <1>1 DEF Reconcile
<1>2. ASSUME NEW m \in Namespaces, ReconcileRole(m) \/ ReconcileRoleBinding(m)
      PROVE  <<a, n>> \in missed'
  BY <1>2 DEF ReconcileRole, ReconcileRoleBinding, Overlooked
<1>3. CASE missed' = missed
  BY <1>3
<1> QED BY <1>1, <1>2, <1>3
  DEF Next, HandlerStep, WorkerStep, Environment, HandlerTakes, DeleteRoles,
      DeleteRoleBindings, HandlerReadsSecret, HandlerWritesSecret, HandlerEnqueues,
      ReleaseTerminating, RemoveManagedByLabel, ListNamespaces, ReadSecret,
      WriteSecret, RemoveDeletionFinalizer, SetLabel, DeleteNamespace,
      CreateNamespace, CreateCR, DeleteCR, EditCR, Resync, NamespaceGone, Restart,
      InformerStep, RoleDelivered, BindingDelivered, access, vars

LEMMA SameAccess ==
  ASSUME NEW a \in Instances, SameTask(a), NEW n, [Next]_vars, ~Reconcile(a)
  PROVE  /\ role'[n][CRName[a]] = role[n][CRName[a]] /\ RoleDone(a, n)
              => RoleDone(a, n)'
         /\ binding'[n][CRName[a]] = binding[n][CRName[a]] /\ BindingDone(a, n)
              => BindingDone(a, n)'
BY MissedKept
DEF SameTask, env, RoleOK, BindingOK, RoleRef, RoleDone, BindingDone

\* One more version.
LEMMA Appended ==
  ASSUME NEW V, NEW s \in Seq(V), NEW v \in V
  PROVE  /\ Append(s, v) \in Seq(V) /\ Len(Append(s, v)) = Len(s) + 1
         /\ Len(s) \in Nat /\ Append(s, v) # <<>>
         /\ \A i \in 1..Len(s) : Append(s, v)[i] = s[i]
         /\ Append(s, v)[Len(s) + 1] = v
<1>1. /\ Append(s, v) \in Seq(V) /\ Len(Append(s, v)) = Len(s) + 1
      /\ \A i \in 1..Len(s) : Append(s, v)[i] = s[i]
      /\ Append(s, v)[Len(s) + 1] = v
  BY AppendProperties
<1>2. Append(s, v) # <<>>
  BY AppendProperties, Zenon
<1>3. Len(s) \in Nat
  BY LenProperties
<1> QED BY <1>1, <1>2, <1>3

\* The versions of the object n, x are a sequence, which may be continued by new.
Sequential(lag, table, new, n, x) ==
  \E V : lag[n][x] \in Seq(V) /\ table[n][x] \in V /\ new[n][x] \in V

\* Written objects join the versions the cache does not have yet.
LEMMA QuietOutdated ==
  ASSUME NEW S, NEW lag, NEW table, NEW new, NEW n \in Namespaces, NEW x \in Names,
         Sequential(lag, table, new, n, x),
         Quiet(Outdated(lag, table, new), new, n, x, S)
  PROVE  /\ Quiet(lag, table, n, x, S)
         /\ new[n][x] # table[n][x] => table[n][x] \notin S
<1> DEFINE s == lag[n][x]
           v == table[n][x]
           t == Append(s, v)
           u == Append(t, new[n][x])
           out == Outdated(lag, table, new)
<1>1. PICK V : s \in Seq(V) /\ v \in V /\ new[n][x] \in V
  BY DEF Sequential
<1>2. CASE new[n][x] = v
  <2>1. out[n][x] = s
    BY <1>2 DEF Outdated
  <2> QED BY <1>2, <2>1 DEF Quiet, Versions
<1>3. CASE new[n][x] # v
  <2>1. out[n][x] = t
    BY <1>3 DEF Outdated
  <2> HIDE DEF s, v, out
  <2>2. /\ t \in Seq(V) /\ Len(t) = Len(s) + 1 /\ t # <<>> /\ Len(s) \in Nat
        /\ \A i \in 1..Len(s) : t[i] = s[i]
        /\ t[Len(s) + 1] = v
    <3>1. t # <<>>
      BY <1>1, Appended, Zenon
    <3> QED BY <1>1, <3>1, AppendProperties, LenProperties
  <2>3. \A i \in 1..Len(t) : u[i] = t[i]
    <3> HIDE DEF t
    <3> QED BY <1>1, <2>2, AppendProperties
  <2>4. \A i \in 1..Len(t) + 1 : u[i] \notin S
    BY <2>1, <2>2 DEF Quiet, Versions, out
  <2>5. \A i \in 1..Len(t) : t[i] \notin S
    BY <2>2, <2>3, <2>4
  <2> QED BY <2>2, <2>5 DEF Quiet, Versions, s, v
<1> QED BY <1>2, <1>3

\* An object that was replaced: two versions at once.
LEMMA QuietTwice ==
  ASSUME NEW S, NEW lag, NEW table, NEW new, NEW out, NEW w,
         NEW n \in Namespaces, NEW x \in Names,
         \E V : /\ lag[n][x] \in Seq(V) /\ table[n][x] \in V /\ new[n][x] \in V
               /\ w \in V,
         \/ out[n][x] = Append(Append(lag[n][x], table[n][x]), w)
         \/ out[n][x] = lag[n][x] /\ new[n][x] = table[n][x],
         Quiet(out, new, n, x, S)
  PROVE  Quiet(lag, table, n, x, S)
<1> DEFINE s == lag[n][x]
           v == table[n][x]
           t == Append(s, v)
           u == Append(t, w)
           z == Append(u, new[n][x])
<1>1. PICK V : s \in Seq(V) /\ v \in V /\ new[n][x] \in V /\ w \in V
  OBVIOUS
<1>2. CASE out[n][x] = u
  <2> HIDE DEF s, v
  <2>1. /\ t \in Seq(V) /\ Len(t) = Len(s) + 1 /\ Len(s) \in Nat
        /\ \A i \in 1..Len(s) : t[i] = s[i]
        /\ t[Len(s) + 1] = v
    BY <1>1, AppendProperties, LenProperties
  <2> HIDE DEF t
  <2>2. /\ u \in Seq(V) /\ Len(u) = Len(t) + 1 /\ u # <<>>
        /\ \A i \in 1..Len(t) : u[i] = t[i]
    <3>1. u # <<>>
      BY <1>1, <2>1, Appended, Zenon
    <3> QED BY <1>1, <2>1, <3>1, AppendProperties
  <2> HIDE DEF u
  <2>3. \A i \in 1..Len(u) : z[i] = u[i]
    BY <1>1, <2>2, AppendProperties
  <2>4. \A i \in 1..Len(u) + 1 : z[i] \notin S
    BY <1>2, <2>2 DEF Quiet, Versions
  <2>5. \A i \in 1..Len(t) : t[i] \notin S
    BY <2>1, <2>2, <2>3, <2>4
  <2> QED BY <2>1, <2>5 DEF Quiet, Versions, s, v, t
<1>3. CASE out[n][x] = s /\ new[n][x] = v
  BY <1>3 DEF Quiet, Versions
<1> QED BY <1>2, <1>3

\* What is delivered is heard of.
LEMMA QuietTailed ==
  ASSUME NEW V, NEW S, NEW lag \in [Namespaces -> [Names -> Seq(V)]],
         NEW table \in [Namespaces -> [Names -> V]],
         NEW n \in Namespaces, NEW x \in Names, lag[n][x] # <<>>,
         Quiet([lag EXCEPT ![n][x] = Tail(@)], table, n, x, S),
         Versions(lag, table, n, x)[1] \notin S, Versions(lag, table, n, x)[2] \notin S
  PROVE  Quiet(lag, table, n, x, S)
<1> DEFINE out == [lag EXCEPT ![n][x] = Tail(@)]
           s == lag[n][x]
           v == table[n][x]
           t == Append(s, v)
           u == Append(Tail(s), v)
<1>1. s \in Seq(V) /\ v \in V /\ out[n][x] = Tail(s) /\ s # <<>>
  OBVIOUS
<1> HIDE DEF s, v, out
<1>2. /\ Tail(s) \in Seq(V) /\ Len(Tail(s)) = Len(s) - 1
      /\ \A i \in 1..Len(Tail(s)) : Tail(s)[i] = s[i + 1]
      /\ Len(s) \in Nat /\ Len(s) # 0
  BY <1>1, HeadTailProperties, LenProperties, EmptySeq
<1>3. /\ \A i \in 1..Len(s) : t[i] = s[i]
      /\ t[Len(s) + 1] = v
  BY <1>1, AppendProperties
<1>4. /\ \A i \in 1..Len(s) - 1 : u[i] = s[i + 1]
      /\ u[Len(s)] = v
  BY <1>1, <1>2, AppendProperties
<1>5. t[1] \notin S /\ t[2] \notin S
  BY DEF Versions, s, v
<1>6. Tail(s) # <<>> => \A i \in 1..Len(s) : u[i] \notin S
  <2>1. Quiet(out, table, n, x, S)
    BY DEF out
  <2>2. out[n][x] # <<>> => \A i \in 1..Len(out[n][x]) + 1 : Append(out[n][x], v)[i] \notin S
    BY <2>1 DEF Quiet, Versions, v
  <2>3. Len(Tail(s)) + 1 = Len(s)
    BY <1>2
  <2> QED BY <1>1, <2>2, <2>3, Zenon
<1>7. ASSUME NEW i \in 1..Len(s) + 1 PROVE t[i] \notin S
  <2>1. CASE i \in {1, 2}
    BY <1>5, <2>1
  <2>2. CASE i \notin {1, 2}
    <3>1. Len(s) >= 2 /\ i - 1 \in 1..Len(s)
      BY <1>2, <2>2
    <3>2. Tail(s) # <<>>
      <4>1. Len(<<>>) = 0 /\ \A k \in Nat : k >= 2 => k - 1 # 0
        OBVIOUS
      <4> QED BY <1>2, <3>1, <4>1, Zenon
    <3>3. u[i - 1] = t[i]
      BY <1>2, <1>3, <1>4, <3>1
    <3> QED BY <1>6, <3>1, <3>2, <3>3
  <2> QED BY <2>1, <2>2
<1> QED BY <1>7 DEF Quiet, Versions, s, v

\* The objects of a in its own namespace that the cache has not delivered were
\* there before the step, or queue a.
LEMMA DeliveredStep ==
  ASSUME TypeInv, TypeInv', [Next]_vars, NEW a \in Instances, cr'[a] = "present",
         cr[a] = "present", Calm(a)', Delivered(a)'
  PROVE  Delivered(a)
<1> DEFINE x == CRName[a]
           R == Instances \cup {None}
           B == RoleBinding \cup {None}
<1>1. a \in Namespaces /\ x \in Names /\ a # None /\ a \notin queued'
  BY ConstantsAssumption DEF Calm
<1>2. /\ role \in [Namespaces -> [Names -> R]] /\ role' \in [Namespaces -> [Names -> R]]
      /\ binding \in [Namespaces -> [Names -> B]]
      /\ binding' \in [Namespaces -> [Names -> B]]
      /\ roleLag \in [Namespaces -> [Names -> Seq(R)]]
      /\ bindingLag \in [Namespaces -> [Names -> Seq(B)]]
  BY DEF TypeInv, TypeOK
<1>3. /\ Quiet(roleLag', role', a, x, {a})
      /\ Quiet(bindingLag', binding', a, x, OwnBindings(a))
  BY DEF Delivered, Quiet, Versions, OwnBindings
<1>4. None \in B
  OBVIOUS
<1> HIDE DEF x, R, B
<1>5. ASSUME RolesWritten \/ UNCHANGED <<role, roleLag>>
      PROVE  Quiet(roleLag, role, a, x, {a})
  <2>1. CASE UNCHANGED <<role, roleLag>>
    BY <1>3, <2>1
  <2>2. CASE RolesWritten
    <3>1. Quiet(Outdated(roleLag, role, role'), role', a, x, {a})
      BY <1>3, <2>2 DEF RolesWritten
    <3>2. Sequential(roleLag, role, role', a, x)
      <4>1. roleLag[a][x] \in Seq(R) /\ role[a][x] \in R /\ role'[a][x] \in R
        BY <1>1, <1>2
      <4> QED BY <4>1, Zenon DEF Sequential
    <3> QED BY <1>1, <3>1, <3>2, QuietOutdated
  <2> QED BY <1>5, <2>1, <2>2
<1>6. ASSUME BindingsWritten \/ UNCHANGED <<binding, bindingLag>>
      PROVE  Quiet(bindingLag, binding, a, x, OwnBindings(a))
  <2>1. CASE UNCHANGED <<binding, bindingLag>>
    BY <1>3, <2>1
  <2>2. CASE BindingsWritten
    <3>1. Quiet(Outdated(bindingLag, binding, binding'), binding', a, x, OwnBindings(a))
      BY <1>3, <2>2 DEF BindingsWritten
    <3>2. Sequential(bindingLag, binding, binding', a, x)
      <4>1. bindingLag[a][x] \in Seq(B) /\ binding[a][x] \in B /\ binding'[a][x] \in B
        BY <1>1, <1>2
      <4> QED BY <4>1, Zenon DEF Sequential
    <3> QED BY <1>1, <3>1, <3>2, QuietOutdated
  <2> QED BY <1>6, <2>1, <2>2
<1>7. ASSUME RolesWritten \/ UNCHANGED <<role, roleLag>>,
             BindingsWritten \/ UNCHANGED <<binding, bindingLag>>
      PROVE  Delivered(a)
  BY <1>5, <1>6, <1>7 DEF Delivered, x
<1>8. ASSUME NEW n \in Namespaces, ReconcileRoleBinding(n) PROVE Delivered(a)
  <2> DEFINE y == CRName[worker.cr]
  <2>1. UNCHANGED <<role, roleLag>> /\ y \in Names
    BY <1>8, ConstantsAssumption DEF ReconcileRoleBinding, TypeInv, PhaseOK
  <2>2. \/ BindingsWritten \/ UNCHANGED <<binding, bindingLag>>
        \/ /\ \E v : binding' = [binding EXCEPT ![n][y] = v]
           /\ bindingLag' = [bindingLag EXCEPT
                               ![n][y] = Append(Append(@, binding[n][y]), None)]
    BY <1>8 DEF ReconcileRoleBinding
  <2> HIDE DEF y
  <2>3. ASSUME NEW v, binding' = [binding EXCEPT ![n][y] = v],
               bindingLag' = [bindingLag EXCEPT
                                ![n][y] = Append(Append(@, binding[n][y]), None)]
        PROVE  Quiet(bindingLag, binding, a, x, OwnBindings(a))
    <3> DEFINE twice == Append(Append(bindingLag[n][y], binding[n][y]), None)
    <3>1. \/ bindingLag'[a][x] = Append(Append(bindingLag[a][x], binding[a][x]), None)
          \/ bindingLag'[a][x] = bindingLag[a][x] /\ binding'[a][x] = binding[a][x]
      <4>1. bindingLag' = [bindingLag EXCEPT ![n][y] = twice]
        BY <2>3
      <4> HIDE DEF twice
      <4>2. /\ n = a /\ y = x => bindingLag'[a][x] = twice
            /\ ~(n = a /\ y = x) => /\ bindingLag'[a][x] = bindingLag[a][x]
                                    /\ binding'[a][x] = binding[a][x]
        BY <1>1, <1>2, <2>1, <2>3, <4>1
      <4> QED BY <4>2 DEF twice
    <3>2. /\ bindingLag[a][x] \in Seq(B) /\ binding[a][x] \in B
          /\ binding'[a][x] \in B /\ None \in B
      BY <1>1, <1>2, <1>4
    <3>3. \E V : /\ bindingLag[a][x] \in Seq(V) /\ binding[a][x] \in V
                /\ binding'[a][x] \in V /\ None \in V
      BY <3>2, Zenon
    <3> QED BY <1>1, <1>3, <3>1, <3>3, QuietTwice
  <2> QED BY <1>5, <1>7, <2>1, <2>2, <2>3 DEF Delivered, x
<1>9. ASSUME NEW n \in Namespaces, NEW y \in Names, RoleDelivered(n, y)
      PROVE  Delivered(a)
  <2>1. UNCHANGED <<binding, bindingLag, role>>
    BY <1>9 DEF RoleDelivered
  <2>2. CASE n = a /\ y = x
    <3> DEFINE v == Versions(roleLag, role, a, x)
    <3>1. a \notin OwnerOf(a, v[1]) /\ a \notin OwnerOf(a, v[2])
      BY <1>1, <1>9, <2>2 DEF RoleDelivered
    <3>2. v[1] \notin {a} /\ v[2] \notin {a}
      BY <3>1 DEF OwnerOf, Exists
    <3>3. roleLag[a][x] # <<>> /\ roleLag' = [roleLag EXCEPT ![a][x] = Tail(@)]
      BY <1>9, <2>2 DEF RoleDelivered
    <3>4. Quiet(roleLag, role, a, x, {a})
      <4> HIDE DEF v
      <4> QED BY <1>1, <1>2, <1>3, <2>1, <3>2, <3>3, QuietTailed DEF v
    <3> QED BY <1>6, <2>1, <3>4 DEF Delivered, x
  <2>3. CASE ~(n = a /\ y = x)
    <3>1. roleLag'[a][x] = roleLag[a][x]
      BY <1>1, <1>2, <1>9, <2>3 DEF RoleDelivered
    <3> QED BY <1>3, <1>6, <2>1, <3>1 DEF Delivered, Quiet, Versions, x
  <2> QED BY <2>2, <2>3
<1>10. ASSUME NEW n \in Namespaces, NEW y \in Names, BindingDelivered(n, y)
       PROVE  Delivered(a)
  <2>1. UNCHANGED <<role, roleLag, binding>>
    BY <1>10 DEF BindingDelivered
  <2>2. CASE n = a /\ y = x
    <3> DEFINE v == Versions(bindingLag, binding, a, x)
    <3>1. a \notin OwnerOf(a, Creator(v[1])) /\ a \notin OwnerOf(a, Creator(v[2]))
      BY <1>1, <1>10, <2>2 DEF BindingDelivered
    <3>2. Creator(v[1]) # a /\ Creator(v[2]) # a
      BY <3>1 DEF OwnerOf, Exists
    <3>3. None \notin RoleBinding
      BY ConstantsAssumption DEF RoleBinding
    <3>4. v[1] \notin OwnBindings(a) /\ v[2] \notin OwnBindings(a)
      BY <3>2, <3>3 DEF OwnBindings, Creator
    <3>5. bindingLag[a][x] # <<>> /\ bindingLag' = [bindingLag EXCEPT ![a][x] = Tail(@)]
      BY <1>10, <2>2 DEF BindingDelivered
    <3>6. Quiet(bindingLag, binding, a, x, OwnBindings(a))
      <4> HIDE DEF v
      <4> QED BY <1>1, <1>2, <1>3, <2>1, <3>4, <3>5, QuietTailed DEF v
    <3> QED BY <1>5, <2>1, <3>6 DEF Delivered, x
  <2>3. CASE ~(n = a /\ y = x)
    <3>1. bindingLag'[a][x] = bindingLag[a][x]
      BY <1>1, <1>2, <1>10, <2>3 DEF BindingDelivered
    <3> QED BY <1>3, <1>5, <2>1, <3>1 DEF Delivered, Quiet, Versions, x
  <2> QED BY <2>2, <2>3
<1>11. ~Restart
  BY <1>1 DEF Restart, Exists, objects
<1>12. CASE UNCHANGED access
  BY <1>7, <1>12 DEF access
<1> QED BY <1>7, <1>8, <1>9, <1>10, <1>11, <1>12
  DEF Next, HandlerStep, WorkerStep, Environment, HandlerTakes, DeleteRoles,
      DeleteRoleBindings, HandlerReadsSecret, HandlerWritesSecret, HandlerEnqueues,
      Reconcile, ReleaseTerminating, ReconcileRole, RemoveManagedByLabel,
      ListNamespaces, ReadSecret, WriteSecret, RemoveDeletionFinalizer, SetLabel,
      DeleteNamespace, CreateNamespace, CreateCR, DeleteCR, EditCR, Resync,
      NamespaceGone, InformerStep, vars

\* What is called after a's CR, in a's own namespace, is a's.
LEMMA OwnCreator ==
  ASSUME NamesApart, NEW a \in Instances, NEW c \in Instances,
         CreatorOK(a, CRName[a], c)
  PROVE  c = a
BY DEF NamesApart, CreatorOK

\* What is called after a's CR, in a namespace labelled with a, is not the
\* namespace's own instance's.
LEMMA NotTheirs ==
  ASSUME NamesApart, WorldOK, NEW a \in Instances, NEW b \in Instances, a # b,
         label[b] = a, CRName[a] = CRName[b]
  PROVE  FALSE
BY ConstantsAssumption DEF NamesApart, WorldOK

\* If what the cache has yet to deliver can only be absence, it reads what is there.
LEMMA QuietSeen ==
  ASSUME NEW S, NEW lag, NEW table, NEW n, NEW x,
         \E V : /\ V \subseteq S \cup {None}
               /\ lag[n][x] \in Seq(V) /\ table[n][x] \in V,
         Quiet(lag, table, n, x, S)
  PROVE  Seen(lag, table, n, x) = table[n][x]
<1> DEFINE s == lag[n][x]
           v == table[n][x]
           t == Append(s, v)
<1>1. CASE s = <<>>
  BY <1>1, SeenUpToDate
<1>2. CASE s # <<>>
  <2>1. PICK V : V \subseteq S \cup {None} /\ s \in Seq(V) /\ v \in V
    OBVIOUS
  <2>2. \A i \in 1..Len(s) + 1 : t[i] \notin S
    BY <1>2 DEF Quiet, Versions
  <2> HIDE DEF s, v
  <2>3. /\ t \in Seq(V) /\ Len(t) = Len(s) + 1 /\ Len(s) \in Nat
        /\ t[Len(s) + 1] = v
    BY <2>1, AppendProperties, LenProperties
  <2>4. t[1] \in V
    BY <2>3, ElementOfSeq
  <2>5. t[1] = None /\ v = None
    BY <2>1, <2>2, <2>3, <2>4
  <2> QED BY <2>5 DEF Seen, Versions, s, v
<1> QED BY <1>1, <1>2

\* What a reads of its own objects, once the cache has delivered them, is what is
\* there.
LEMMA OwnSeen ==
  ASSUME BaseInv, NamesApart, NEW a \in Instances, Delivered(a)
  PROVE  /\ Seen(roleLag, role, a, CRName[a]) = role[a][CRName[a]]
         /\ Seen(bindingLag, binding, a, CRName[a]) = binding[a][CRName[a]]
<1> DEFINE x == CRName[a]
<1>1. a \in Namespaces /\ x \in Names /\ a # None
  BY ConstantsAssumption
<1>2. NamedRoles(a, x) \subseteq {a, None}
  BY OwnCreator DEF NamedRoles
<1>3. NamedBindings(a, x) \subseteq OwnBindings(a) \cup {None}
  <2>1. ASSUME NEW b \in RoleBinding, CreatorOK(a, x, b.creator) PROVE b.creator = a
    <3>1. b.creator \in Instances
      BY DEF RoleBinding
    <3> QED BY <2>1, <3>1, OwnCreator
  <2> QED BY <2>1 DEF NamedBindings, OwnBindings
<1>4. Seen(roleLag, role, a, x) = role[a][x]
  <2>1. roleLag[a][x] \in Seq(NamedRoles(a, x)) /\ role[a][x] \in NamedRoles(a, x)
    BY <1>1 DEF BaseInv, NamedOK
  <2>2. Quiet(roleLag, role, a, x, {a})
    BY DEF Delivered
  <2> HIDE DEF x
  <2>3. \E V : /\ V \subseteq {a} \cup {None}
              /\ roleLag[a][x] \in Seq(V) /\ role[a][x] \in V
    BY <1>2, <2>1
  <2> QED BY <2>2, <2>3, QuietSeen
<1>5. Seen(bindingLag, binding, a, x) = binding[a][x]
  <2>1. /\ bindingLag[a][x] \in Seq(NamedBindings(a, x))
        /\ binding[a][x] \in NamedBindings(a, x)
    BY <1>1 DEF BaseInv, NamedOK
  <2>2. Quiet(bindingLag, binding, a, x, OwnBindings(a))
    BY DEF Delivered
  <2> HIDE DEF x
  <2>3. \E V : /\ V \subseteq OwnBindings(a) \cup {None}
              /\ bindingLag[a][x] \in Seq(V) /\ binding[a][x] \in V
    BY <1>3, <2>1, Zenon
  <2> QED BY <2>2, <2>3, QuietSeen
<1> QED BY <1>4, <1>5

\* The handler does not take from a what nothing will give back.
LEMMA HandlerSpares ==
  ASSUME BaseInv, TypeInv', NamesApart, HandlerStep, NEW a \in Instances,
         cr[a] = "present", Calm(a), Delivered(a)', SameTask(a)
  PROVE  \A n \in Served(a)' : Same(a, n)
<1> SUFFICES ASSUME NEW n \in Served(a)' PROVE Same(a, n)
  OBVIOUS
<1> DEFINE x == CRName[a]
           R == Instances \cup {None}
           B == RoleBinding \cup {None}
<1>1. x \in Names /\ a # None /\ a \in Namespaces
  BY ConstantsAssumption
<1>2. n \in Namespaces /\ (n = a \/ label[n] = a)
  BY ServedShrinks DEF BaseInv
<1>3. ASSUME handler.pc \in {"roles", "bindings"}, handler.ev.n = n
      PROVE  n = a
  <2> SUFFICES ASSUME label[n] = a PROVE FALSE
    BY <1>2
  <2>1. ~Concerns(handler.ev, a) /\ QuietQueue(a)
    BY <1>3 DEF Calm
  <2> QED BY <1>2, <1>3, <2>1
    DEF BaseInv, EventOK, LastSays, HandlerSays, Concerns, QuietQueue
<1>4. /\ role \in [Namespaces -> [Names -> R]] /\ role' \in [Namespaces -> [Names -> R]]
      /\ binding \in [Namespaces -> [Names -> B]]
      /\ binding' \in [Namespaces -> [Names -> B]]
      /\ roleLag \in [Namespaces -> [Names -> Seq(R)]]
      /\ bindingLag \in [Namespaces -> [Names -> Seq(B)]]
  BY DEF BaseInv, TypeInv, TypeOK
<1>5. /\ Quiet(roleLag', role', a, x, {a})
      /\ Quiet(bindingLag', binding', a, x, OwnBindings(a))
  BY DEF Delivered, Quiet, Versions, OwnBindings
<1>6. /\ role[a][x] \in NamedRoles(a, x) /\ binding[a][x] \in NamedBindings(a, x)
  BY <1>1 DEF BaseInv, NamedOK
<1>7. CASE DeleteRoles
  <2>1. binding' = binding /\ RolesWritten
    BY <1>7 DEF DeleteRoles
  <2>2. \/ role' = role
        \/ \E kept : role' = [role EXCEPT ![handler.ev.n] = Kept(role[handler.ev.n], kept)]
    BY <1>7 DEF DeleteRoles
  <2>3. role'[n][x] # role[n][x] => n = handler.ev.n /\ role'[n][x] = None
    <3>1. ASSUME NEW k, NEW kept, role' = [role EXCEPT ![k] = Kept(role[k], kept)]
          PROVE  role'[n][x] = IF n = k /\ x \notin kept THEN None ELSE role[n][x]
      BY <1>1, <1>2, <1>4, <3>1 DEF Kept
    <3> HIDE DEF x
    <3> QED BY <2>2, <3>1
  <2>4. role'[a][x] # role[a][x] => role[a][x] \notin {a}
    <3> HIDE DEF x, R
    <3>1. Quiet(Outdated(roleLag, role, role'), role', a, x, {a})
      BY <1>5, <2>1 DEF RolesWritten
    <3>2. Sequential(roleLag, role, role', a, x)
      <4>1. roleLag[a][x] \in Seq(R) /\ role[a][x] \in R /\ role'[a][x] \in R
        BY <1>1, <1>4
      <4> QED BY <4>1, Zenon DEF Sequential
    <3> QED BY <1>1, <3>1, <3>2, QuietOutdated
  <2>5. role[a][x] \in {a, None}
    BY <1>6, OwnCreator DEF NamedRoles
  <2>6. role'[n][x] = role[n][x]
    BY <1>3, <1>7, <2>3, <2>4, <2>5 DEF DeleteRoles
  <2> QED BY <2>1, <2>6 DEF Same
<1>8. CASE DeleteRoleBindings
  <2>1. role' = role /\ BindingsWritten
    BY <1>8 DEF DeleteRoleBindings
  <2>2. \E kept : binding' = [binding EXCEPT ![handler.ev.n] =
                                Kept(binding[handler.ev.n], kept)]
    BY <1>8 DEF DeleteRoleBindings
  <2>3. binding'[n][x] # binding[n][x] => n = handler.ev.n /\ binding'[n][x] = None
    BY <1>1, <1>2, <1>4, <2>2 DEF Kept
  <2>4. binding'[a][x] # binding[a][x] => binding[a][x] \notin OwnBindings(a)
    <3> HIDE DEF x, B
    <3>1. Quiet(Outdated(bindingLag, binding, binding'), binding', a, x, OwnBindings(a))
      BY <1>5, <2>1 DEF BindingsWritten
    <3>2. Sequential(bindingLag, binding, binding', a, x)
      <4>1. bindingLag[a][x] \in Seq(B) /\ binding[a][x] \in B /\ binding'[a][x] \in B
        BY <1>1, <1>4
      <4> QED BY <4>1, Zenon DEF Sequential
    <3> QED BY <1>1, <3>1, <3>2, QuietOutdated
  <2>5. binding[a][x] \in OwnBindings(a) \cup {None}
    <3>1. ASSUME NEW b \in RoleBinding, CreatorOK(a, x, b.creator) PROVE b.creator = a
      <4>1. b.creator \in Instances
        BY DEF RoleBinding
      <4> QED BY <3>1, <4>1, OwnCreator
    <3> QED BY <1>6, <3>1 DEF NamedBindings, OwnBindings
  <2>6. binding'[n][x] = binding[n][x]
    BY <1>3, <1>8, <2>3, <2>4, <2>5 DEF DeleteRoleBindings
  <2> QED BY <2>1, <2>6 DEF Same
<1>9. CASE UNCHANGED access
  BY <1>9 DEF access, Same
<1> QED BY <1>7, <1>8, <1>9
  DEF HandlerStep, HandlerTakes, HandlerReadsSecret, HandlerWritesSecret, HandlerEnqueues

\* Neither does the pass over another instance, nor its deletion.
LEMMA WorkerSpares ==
  ASSUME BaseInv, TypeInv', NamesApart, WorkerStep, NEW a \in Instances,
         cr[a] = "present", ~Busy(a), Given(a), SameTask(a)
  PROVE  \A n \in Served(a)' : Same(a, n)
<1> SUFFICES ASSUME NEW n \in Served(a)' PROVE Same(a, n)
  OBVIOUS
<1> DEFINE x == CRName[a]
           b == worker.cr
           y == CRName[b]
<1>1. x \in Names /\ n \in Namespaces /\ (n = a \/ label[n] = a)
  BY ServedShrinks, ConstantsAssumption DEF BaseInv
<1>2. worker.pc # "idle" /\ b \in Instances /\ b # a /\ y \in Names
  BY ConstantsAssumption
  DEF WorkerStep, ReleaseTerminating, ReconcileRole, ReconcileRoleBinding,
      RemoveManagedByLabel, ListNamespaces, ReadSecret, WriteSecret,
      RemoveDeletionFinalizer, BaseInv, TypeInv, PhaseOK, Busy
<1>3. ASSUME NEW m \in Namespaces, worker.pc \in Passing, worker.snap[m] = "active"
      PROVE  m # n \/ y # x
  <2> SUFFICES ASSUME m = n, y = x PROVE FALSE
    OBVIOUS
  <2>1. CASE n = a
    <3>1. a \in Labelled
      BY <1>2, <1>3, <2>1 DEF BaseInv, SnapOK
    <3> QED BY <1>2, <3>1 DEF NamesApart
  <2>2. CASE label[n] = a
    <3>1. n = b
      BY <1>1, <1>3, <2>2 DEF Given
    <3> QED BY <1>2, <2>2, <3>1, NotTheirs DEF BaseInv
  <2> QED BY <1>1, <2>1, <2>2
<1>4. /\ role \in [Namespaces -> [Names -> Instances \cup {None}]]
      /\ binding \in [Namespaces -> [Names -> RoleBinding \cup {None}]]
  BY DEF BaseInv, TypeInv, TypeOK
<1>5. ASSUME NEW m \in Namespaces, ReconcileRole(m) PROVE Same(a, n)
  <2>1. /\ binding' = binding
        /\ role' = role \/ \E v : role' = [role EXCEPT ![m][y] = v]
    BY <1>5 DEF ReconcileRole
  <2>2. m # n \/ y # x
    BY <1>3, <1>5 DEF ReconcileRole, Passing
  <2>3. role'[n][x] = role[n][x]
    <3> HIDE DEF x, y
    <3> QED BY <1>1, <1>2, <1>4, <2>1, <2>2
  <2> QED BY <2>1, <2>3 DEF Same
<1>6. ASSUME NEW m \in Namespaces, ReconcileRoleBinding(m) PROVE Same(a, n)
  <2>1. /\ role' = role
        /\ binding' = binding \/ \E v : binding' = [binding EXCEPT ![m][y] = v]
    BY <1>6 DEF ReconcileRoleBinding
  <2>2. m # n \/ y # x
    BY <1>3, <1>6 DEF ReconcileRoleBinding, Passing
  <2>3. binding'[n][x] = binding[n][x]
    <3> HIDE DEF x, y
    <3> QED BY <1>1, <1>2, <1>4, <2>1, <2>2
  <2> QED BY <2>1, <2>3 DEF Same
<1>7. CASE RemoveDeletionFinalizer
  <2> DEFINE roles == [z \in Names |-> IF role[b][z] = b THEN None ELSE role[b][z]]
             bindings == [z \in Names |-> LET c == binding[b][z] IN
                            IF c # None /\ c.creator = b THEN None ELSE c]
  <2>1. \/ UNCHANGED <<role, binding>>
        \/ /\ role' = [role EXCEPT ![b] = roles]
           /\ binding' = [binding EXCEPT ![b] = bindings]
    BY <1>7 DEF RemoveDeletionFinalizer
  <2>2. CASE n # b
    <3> HIDE DEF roles, bindings
    <3> QED BY <1>1, <1>4, <2>1, <2>2 DEF Same
  <2>3. CASE n = b
    <3>1. label[b] = a
      BY <1>1, <1>2, <2>3
    <3>2. y # x
      BY <1>2, <3>1, NotTheirs DEF BaseInv
    <3>3. /\ role[b][x] # b
          /\ ~(binding[b][x] # None /\ binding[b][x].creator = b)
      <4>1. b \in Namespaces /\ b # None
        BY <1>2, ConstantsAssumption
      <4>2. role[b][x] \in NamedRoles(b, x) /\ binding[b][x] \in NamedBindings(b, x)
        BY <1>1, <4>1 DEF BaseInv, NamedOK
      <4> QED BY <3>2, <4>1, <4>2 DEF NamedRoles, NamedBindings, CreatorOK
    <3>4. roles[x] = role[b][x] /\ bindings[x] = binding[b][x]
      BY <1>1, <3>3
    <3> QED BY <1>1, <1>4, <2>1, <2>3, <3>4 DEF Same
  <2> QED BY <2>2, <2>3
<1>8. CASE UNCHANGED access
  BY <1>8 DEF access, Same
<1> QED BY <1>5, <1>6, <1>7, <1>8
  DEF WorkerStep, ReleaseTerminating, RemoveManagedByLabel, ListNamespaces,
      ReadSecret, WriteSecret

\* Nor does the world.
LEMMA EnvironmentSpares ==
  ASSUME BaseInv, TypeInv', Environment, NEW a \in Instances, SameTask(a)
  PROVE  \A n \in Served(a)' : Same(a, n)
<1>1. \A n \in Served(a)' : n \in Namespaces /\ ns'[n] = "active"
  BY ServedShrinks DEF BaseInv
<1>2. ASSUME NEW n \in Namespaces, NamespaceGone(n)
      PROVE  \A m \in Served(a)' : Same(a, m)
  BY <1>1, <1>2 DEF NamespaceGone, BaseInv, TypeInv, TypeOK, Same
<1>3. CASE UNCHANGED <<role, binding>>
  BY <1>3 DEF Same
<1> QED BY <1>2, <1>3
  DEF access, Environment, SetLabel, DeleteNamespace, CreateNamespace, CreateCR, DeleteCR,
      EditCR, Resync, Restart

\* A namespace is done in the pass over a.
LEMMA DoneGives ==
  ASSUME TypeInv, TypeInv', NEW a \in Instances, SameTask(a), NEW n \in Namespaces,
         worker.pc \in {"roles", "rolesAgain", "bindings"}, GivenSoFar(a),
         worker' = Done(n),
         \A m \in Served(a)' : m # n /\ RoleDone(a, m) => RoleDone(a, m)',
         \A m \in Served(a)' : m # n /\ BindingDone(a, m) => BindingDone(a, m)',
         n \in Served(a)' /\ worker.pc = "rolesAgain" => RoleDone(a, n)',
         n \in Served(a)' /\ worker.pc = "bindings" =>
           (RoleDone(a, n) => RoleDone(a, n)') /\ BindingDone(a, n)'
  PROVE  GivenSoFar(a)'
<1> SUFFICES ASSUME NEW m \in Served(a)'
             PROVE  /\ worker'.snap[m] = "active"
                    /\ worker'.pc = "rolesAgain" => m \in worker'.todo \/ RoleDone(a, m)'
                    /\ worker'.pc = "bindings" =>
                         RoleDone(a, m)' /\ (m \in worker'.todo \/ BindingDone(a, m)')
                    /\ worker'.pc \in {"list", "read", "write"} =>
                         RoleDone(a, m)' /\ BindingDone(a, m)'
  BY DEF GivenSoFar
<1>1. m \in Served(a) /\ m \in Namespaces
  BY ServedShrinks
<1>2. /\ worker.snap[m] = "active"
      /\ worker.pc = "rolesAgain" => m \in worker.todo \/ RoleDone(a, m)
      /\ worker.pc = "bindings" =>
           RoleDone(a, m) /\ (m \in worker.todo \/ BindingDone(a, m))
  BY <1>1 DEF GivenSoFar
<1>3. worker'.snap[m] = "active"
  BY <1>1, <1>2, DoneLoop
<1>4. CASE worker'.pc = worker.pc /\ worker'.todo = worker.todo \ {n}
  BY <1>2, <1>3, <1>4
<1>5. CASE /\ worker.todo \ {n} = {} /\ worker'.pc = After(worker.pc)
           /\ worker'.todo = {k \in Namespaces : worker'.snap[k] # "no"}
  <2>1. m \in worker'.todo /\ (m \notin worker.todo \/ m = n)
    BY <1>1, <1>3, <1>5
  <2> QED BY <1>2, <1>3, <1>5, <2>1 DEF After
<1> QED BY <1>4, <1>5, DoneLoop

\* Another instance's pass, or the handler, or the cache, or the world.
LEMMA GivenStep ==
  ASSUME BaseInv, TypeInv', NamesApart, [Next]_vars, NEW a \in Instances,
         cr[a] = "present", Calm(a), Delivered(a)', SameTask(a), ~Busy(a),
         ~Reconcile(a), Given(a)
  PROVE  Given(a)'
<1>1. TypeInv
  BY DEF BaseInv
<1>2. \A n \in Served(a)' : Same(a, n)
  <2>1. CASE (\E b \in Instances : Reconcile(b)) \/ InformerStep \/ UNCHANGED vars
    BY <2>1, InformerKeeps DEF Reconcile, vars, access, Same
  <2> QED BY <2>1, HandlerSpares, WorkerSpares, EnvironmentSpares DEF Next
<1>3. ASSUME NEW n \in Served(a)' PROVE RoleDone(a, n)' /\ BindingDone(a, n)'
  <2>1. n \in Served(a)
    BY <1>1, ServedShrinks
  <2>2. RoleDone(a, n) /\ BindingDone(a, n)
    BY <2>1 DEF Given
  <2> QED BY <1>2, <2>2, SameAccess DEF Same
<1>4. ASSUME worker'.pc \in Passing, NEW n \in Namespaces, label'[n] = a, n # worker'.cr
      PROVE  worker'.snap[n] = "no"
  <2>1. label[n] = a
    BY <1>4 DEF SameTask
  <2>2. worker \in WorkerState
    BY <1>1 DEF TypeInv, TypeOK
  <2>3. CASE /\ worker'.cr = worker.cr /\ worker.pc \in Passing
             /\ worker'.snap[n] \in {worker.snap[n], "no"}
    BY <1>4, <2>1, <2>3 DEF Given
  <2>4. CASE HandlerStep
    BY <1>1, <1>4, <2>3, <2>4, HandlerKeepsWorker
  <2>5. CASE Environment \/ InformerStep \/ UNCHANGED vars
    BY <1>4, <2>3, <2>5, EnvironmentKeepsWorker, InformerKeeps, IdleFields
    DEF Passing, vars
  <2>6. ASSUME NEW b \in Instances, Reconcile(b) PROVE worker'.snap[n] = "no"
    <3>1. worker'.cr = b /\ worker'.snap = setManagedNamespaces(b)
      BY <1>4, <2>6 DEF Reconcile, IdleWorker, Passing
    <3>2. a # b
      BY <2>6
    <3>3. n \notin NamespacesOf(b) /\ n # b
      BY <1>4, <2>1, <3>1, <3>2 DEF NamespacesOf
    <3> QED BY <3>1, <3>3 DEF setManagedNamespaces
  <2>7. ASSUME NEW m \in Namespaces,
               ReleaseTerminating(m) \/ ReconcileRole(m) \/ ReconcileRoleBinding(m)
        PROVE  worker'.snap[n] = "no"
    <3>1. /\ worker' = Done(m) \/ worker' = IdleWorker
          /\ worker.pc \in {"roles", "rolesAgain", "bindings"}
      BY <2>7 DEF ReleaseTerminating, ReconcileRole, ReconcileRoleBinding, Return, Fails
    <3>2. worker' = Done(m)
      BY <1>4, <3>1, IdleFields DEF Passing
    <3> QED BY <1>1, <2>3, <3>1, <3>2, DoneLoop DEF Passing
  <2>8. ASSUME NEW m \in Namespaces, RemoveManagedByLabel(m) PROVE FALSE
    <3>1. worker'.pc \in {"unlabel", "finalize"} \/ worker' = IdleWorker
      BY <2>2, <2>8 DEF RemoveManagedByLabel, Return, Fails, WorkerState
    <3> QED BY <1>4, <3>1, IdleFields DEF Passing
  <2>9. CASE ListNamespaces \/ ReadSecret
    <3>1. \/ worker'.cr = worker.cr /\ worker'.snap = worker.snap /\ worker.pc \in Passing
          \/ worker' = IdleWorker
      BY <2>2, <2>9 DEF ListNamespaces, ReadSecret, Return, Fails, WorkerState, Passing
    <3> QED BY <1>4, <2>3, <3>1, IdleFields DEF Passing
  <2>10. CASE WriteSecret \/ RemoveDeletionFinalizer
    BY <1>4, <2>10, IdleFields
    DEF WriteSecret, RemoveDeletionFinalizer, Return, Fails, Passing
  <2> QED BY <2>4, <2>5, <2>6, <2>7, <2>8, <2>9, <2>10 DEF Next, WorkerStep
<1> QED BY <1>3, <1>4 DEF Given

\* The handler, the cache and the world during the pass over a.
LEMMA GivenMeanwhile ==
  ASSUME BaseInv, TypeInv', NEW a \in Instances, SameTask(a), GivenSoFar(a),
         [Next]_vars, ~Reconcile(a),
         \A n \in Served(a)' : Same(a, n), worker'.pc = worker.pc,
         worker'.snap = worker.snap, worker'.todo = worker.todo
  PROVE  GivenSoFar(a)'
<1> SUFFICES ASSUME NEW m \in Served(a)'
             PROVE  /\ worker'.snap[m] = "active"
                    /\ worker'.pc = "rolesAgain" => m \in worker'.todo \/ RoleDone(a, m)'
                    /\ worker'.pc = "bindings" =>
                         RoleDone(a, m)' /\ (m \in worker'.todo \/ BindingDone(a, m)')
                    /\ worker'.pc \in {"list", "read", "write"} =>
                         RoleDone(a, m)' /\ BindingDone(a, m)'
  BY DEF GivenSoFar
<1>1. m \in Served(a)
  BY ServedShrinks DEF BaseInv
<1>2. /\ RoleDone(a, m) => RoleDone(a, m)'
      /\ BindingDone(a, m) => BindingDone(a, m)'
  BY SameAccess DEF Same
<1> QED BY <1>1, <1>2 DEF GivenSoFar

\* A step of the pass over a.
LEMMA PassStep ==
  ASSUME BaseInv, TypeInv', NamesApart, NEW a \in Instances, WorkerStep,
         cr[a] = "present", Calm(a)', Delivered(a), SameTask(a), Busy(a), GivenSoFar(a)
  PROVE  IF Busy(a)' THEN GivenSoFar(a)' ELSE Given(a)'
<1> DEFINE x == CRName[a]
<1>1. /\ TypeInv /\ worker \in WorkerState /\ a \notin queued' /\ a \in Namespaces
      /\ worker.cr = a /\ worker.pc # "idle" /\ x \in Names /\ a # None
  BY ConstantsAssumption DEF BaseInv, TypeInv, TypeOK, Calm, Busy
<1>2. worker.pc \notin {"unlabel", "finalize"}
  BY <1>1 DEF BaseInv, WorldOK
<1>3. /\ role \in [Namespaces -> [Names -> Instances \cup {None}]]
      /\ binding \in [Namespaces -> [Names -> RoleBinding \cup {None}]]
  BY <1>1 DEF TypeInv, TypeOK
<1>4. ASSUME NEW m \in Served(a)'
      PROVE  m \in Served(a) /\ m \in Namespaces /\ ns'[m] = "active"
  BY <1>1, ServedShrinks
<1>5. customRole' = customRole /\ (a \in enabled' <=> a \in enabled)
  BY DEF SameTask, env
<1>6. ASSUME NEW n \in Namespaces, worker' = Done(n),
             worker.pc \in {"roles", "rolesAgain", "bindings"}
      PROVE  Busy(a)'
  BY <1>1, <1>6, DonePc DEF Busy
<1>7. ~Reconcile(a) /\ [Next]_vars
  BY <1>1 DEF Reconcile, Next
<1>8. ASSUME NEW n \in Namespaces, ReleaseTerminating(n)
      PROVE  Busy(a)' /\ GivenSoFar(a)'
  <2>1. /\ worker' = Done(n) /\ UNCHANGED access /\ worker.snap[n] = "terminating"
        /\ worker.pc \in {"roles", "rolesAgain", "bindings"}
    BY <1>8 DEF ReleaseTerminating
  <2>2. n \notin Served(a)'
    BY <1>4, <2>1 DEF GivenSoFar
  <2>3. \A m : /\ RoleDone(a, m) => RoleDone(a, m)'
               /\ BindingDone(a, m) => BindingDone(a, m)'
    BY <1>7, <2>1, SameAccess DEF access
  <2> QED BY <1>1, <1>6, <2>1, <2>2, <2>3, DoneGives
<1>9. ASSUME NEW n \in Namespaces, ReconcileRole(n)
      PROVE  Busy(a)' /\ GivenSoFar(a)'
  <2> DEFINE live == role[n][x]
             seen == Seen(roleLag, role, n, x)
  <2>1. worker' = Done(n) /\ worker.pc \in {"roles", "rolesAgain"} /\ binding' = binding
    BY <1>1, <1>9 DEF ReconcileRole, Return, Fails
  <2>2. \/ role' = [role EXCEPT ![n][x] = a]
        \/ role' = [role EXCEPT ![n][x] = None] /\ (customRole \/ a \notin enabled)
        \/ /\ role' = role /\ missed' = Overlooked(n, seen, live)
           /\ seen # None \/ customRole \/ a \notin enabled
    BY <1>1, <1>9 DEF ReconcileRole, Return, Fails
  <2>3. n = a => seen = live
    BY OwnSeen
  <2>4. worker.pc = "rolesAgain" => RoleDone(a, n)'
    <3>1. CASE role' = [role EXCEPT ![n][x] = a]
      <4>1. role'[n][x] # None
        BY <1>1, <1>3, <3>1
      <4> QED BY <4>1 DEF RoleDone, RoleOK
    <3>2. CASE customRole \/ a \notin enabled
      BY <1>5, <3>2 DEF RoleDone, RoleOK
    <3>3. CASE role' = role /\ missed' = Overlooked(n, seen, live) /\ seen # None
      <4>1. CASE seen = live
        BY <3>3, <4>1 DEF RoleDone, RoleOK
      <4>2. CASE seen # live
        <5>1. n # a
          BY <2>3, <4>2
        <5>2. worker.pc = "rolesAgain" => <<a, n>> \in missed'
          <6> HIDE DEF seen, live
          <6> QED BY <1>1, <3>3, <4>2, <5>1 DEF Overlooked
        <5> QED BY <5>2 DEF RoleDone
      <4> QED BY <4>1, <4>2
    <3> QED BY <2>2, <3>1, <3>2, <3>3
  <2>5. ASSUME NEW m \in Served(a)', m # n PROVE RoleDone(a, m) => RoleDone(a, m)'
    <3>1. role'[m][x] = role[m][x]
      <4> HIDE DEF x
      <4> QED BY <1>1, <1>3, <1>4, <2>2, <2>5
    <3> QED BY <1>7, <3>1, SameAccess
  <2>6. \A m : BindingDone(a, m) => BindingDone(a, m)'
    BY <1>7, <2>1, SameAccess
  <2> QED BY <1>1, <1>6, <2>1, <2>4, <2>5, <2>6, DoneGives
<1>10. ASSUME NEW n \in Namespaces, ReconcileRoleBinding(n)
       PROVE  Busy(a)' /\ GivenSoFar(a)'
  <2> DEFINE live == binding[n][x]
             seen == Seen(bindingLag, binding, n, x)
             new == [creator |-> a, subject |-> a, ref |-> RoleRef]
             changed == [live EXCEPT !.subject = a]
  <2>1. worker' = Done(n) /\ worker.pc = "bindings" /\ role' = role
    BY <1>1, <1>10 DEF ReconcileRoleBinding, Return, Fails
  <2>2. \/ binding' = [binding EXCEPT ![n][x] = new] /\ a \in enabled
        \/ /\ binding' = [binding EXCEPT ![n][x] = changed]
           /\ a \in enabled /\ live # None /\ live.ref = RoleRef
        \/ binding' = [binding EXCEPT ![n][x] = None] /\ a \notin enabled
        \/ /\ binding' = binding /\ missed' = Overlooked(n, seen, live)
           /\ \/ a \in enabled /\ seen # None /\ seen.ref = RoleRef /\ seen.subject = a
              \/ a \notin enabled /\ seen = None
    <3>1. bindingLag[n][x] = <<>> => seen = live
      BY SeenUpToDate
    <3> QED BY <1>1, <1>10, <3>1 DEF ReconcileRoleBinding, Return, Fails
  <2>3. RoleRef' = RoleRef
    BY <1>5 DEF RoleRef
  <2>4. live \in RoleBinding \cup {None}
    BY <1>1, <1>3
  <2>5. /\ new # None /\ new.subject = a /\ new.ref = RoleRef
        /\ live # None => changed # None /\ changed.subject = a /\ changed.ref = live.ref
    <3>1. new \in RoleBinding /\ (live # None => changed \in RoleBinding)
      BY <2>4 DEF RoleBinding, RoleRef
    <3>2. None \notin RoleBinding
      BY ConstantsAssumption DEF RoleBinding
    <3> QED BY <2>4, <3>1, <3>2 DEF RoleBinding
  <2>6. n = a => seen = live
    BY OwnSeen
  <2> HIDE DEF new, changed, seen
  <2>7. \A v : binding' = [binding EXCEPT ![n][x] = v] =>
          /\ binding'[n][x] = v
          /\ \A m \in Namespaces : m # n => binding'[m][x] = binding[m][x]
    <3> HIDE DEF x
    <3> QED BY <1>1, <1>3
  <2>8. BindingDone(a, n)'
    <3>1. CASE binding' = binding /\ missed' = Overlooked(n, seen, live) /\ seen # live
      <4>1. <<a, n>> \in missed'
        BY <1>1, <2>1, <2>6, <3>1 DEF Overlooked
      <4> QED BY <4>1 DEF BindingDone
    <3>2. CASE ~(binding' = binding /\ missed' = Overlooked(n, seen, live) /\ seen # live)
      BY <1>5, <2>2, <2>3, <2>5, <2>7, <3>2 DEF BindingDone, BindingOK
    <3> QED BY <3>1, <3>2
  <2>9. ASSUME NEW m \in Served(a)', m # n PROVE BindingDone(a, m) => BindingDone(a, m)'
    <3>1. binding'[m][x] = binding[m][x]
      BY <1>4, <2>2, <2>7, <2>9
    <3> QED BY <1>7, <3>1, SameAccess
  <2>10. \A m : RoleDone(a, m) => RoleDone(a, m)'
    BY <1>7, <2>1, SameAccess
  <2> QED BY <1>1, <1>6, <2>1, <2>8, <2>9, <2>10, DoneGives
<1>11. ASSUME worker.pc \in {"list", "read", "write"}, UNCHANGED access
       PROVE  \A m \in Served(a)' : /\ worker.snap[m] = "active"
                                     /\ RoleDone(a, m)' /\ BindingDone(a, m)'
  BY <1>4, <1>7, <1>11, SameAccess DEF access, GivenSoFar
<1>12. CASE ListNamespaces \/ ReadSecret
  <2>1. /\ worker'.pc \in {"read", "write"} /\ worker'.snap = worker.snap
        /\ worker.pc \in {"list", "read", "write"} /\ UNCHANGED access
    BY <1>1, <1>12 DEF ListNamespaces, ReadSecret, Return, Fails, WorkerState
  <2>2. GivenSoFar(a)'
    BY <1>11, <2>1 DEF GivenSoFar
  <2>3. Busy(a)'
    BY <1>1, <1>12, <2>1 DEF ListNamespaces, ReadSecret, Return, Fails, WorkerState, Busy
  <2> QED BY <2>2, <2>3
<1>13. CASE WriteSecret
  <2>1. worker' = IdleWorker /\ worker.pc = "write" /\ UNCHANGED access
    BY <1>13 DEF WriteSecret, Return, Fails
  <2>2. Given(a)'
    BY <1>11, <2>1, IdleFields DEF Given, Passing
  <2> QED BY <2>1, <2>2, IdleFields DEF Busy
<1> QED BY <1>2, <1>8, <1>9, <1>10, <1>12, <1>13
  DEF WorkerStep, RemoveManagedByLabel, RemoveDeletionFinalizer

LEMMA AccessStep ==
  ASSUME NamesApart
  PROVE  BaseInv /\ TypeInv' /\ AccessInv /\ [Next]_vars => AccessInv'
<1> SUFFICES ASSUME BaseInv, TypeInv', AccessInv, [Next]_vars,
                    NEW a \in Instances, cr'[a] = "present", Calm(a)', Delivered(a)'
             PROVE  IF Busy(a)' THEN GivenSoFar(a)' ELSE Given(a)'
  BY DEF AccessInv
<1>1. CASE Reconcile(a)
  <2>1. /\ worker'.pc = "roles" /\ worker'.cr = a
        /\ worker'.snap = setManagedNamespaces(a)
    BY <1>1 DEF Reconcile, IdleWorker, BaseInv, TypeInv, TypeOK
  <2>2. UNCHANGED <<ns, label>>
    BY <1>1 DEF Reconcile
  <2>3. \A n \in Served(a)' : setManagedNamespaces(a)[n] = "active"
    BY <2>2, ConstantsAssumption DEF Served, NamespacesOf, setManagedNamespaces
  <2> QED BY <2>1, <2>3 DEF Busy, GivenSoFar
<1>2. CASE ~Reconcile(a)
  <2>1. TypeInv /\ WorldOK
    BY DEF BaseInv
  <2>2. cr[a] = "present" /\ Calm(a) /\ SameTask(a)
    BY <1>2, <2>1, CalmStep
  <2>3. Delivered(a)
    BY <2>1, <2>2, DeliveredStep
  <2>4. CASE ~Busy(a)
    <3>1. Given(a)
      BY <2>2, <2>3, <2>4 DEF AccessInv
    <3> QED BY <1>2, <2>1, <2>2, <2>4, <3>1, GivenStep, NotBusyStep
  <2>5. CASE Busy(a)
    <3>1. GivenSoFar(a)
      BY <2>2, <2>3, <2>5 DEF AccessInv
    <3>2. CASE WorkerStep
      BY <2>2, <2>3, <2>5, <3>1, <3>2, PassStep
    <3>3. CASE HandlerStep
      <4>1. \A n \in Served(a)' : Same(a, n)
        BY <2>2, <3>3, HandlerSpares
      <4> QED BY <1>2, <2>1, <2>2, <2>5, <3>1, <3>3, <4>1, HandlerKeepsWorker,
                 GivenMeanwhile DEF Busy
    <3>4. CASE Environment
      <4>1. ~Restart
        BY <2>2 DEF Calm, Restart, Exists, objects
      <4>2. worker' = worker
        BY <3>4, <4>1, EnvironmentKeepsWorker
      <4>3. \A n \in Served(a)' : Same(a, n)
        BY <2>2, <3>4, EnvironmentSpares
      <4> QED BY <1>2, <2>2, <2>5, <3>1, <4>2, <4>3, GivenMeanwhile DEF Busy
    <3>5. CASE \E b \in Instances : Reconcile(b)
      BY <2>5, <3>5 DEF Reconcile, Busy
    <3>6. CASE InformerStep \/ UNCHANGED vars
      <4>1. UNCHANGED <<worker, role, binding>>
        BY <3>6, InformerKeeps DEF vars, access
      <4>2. \A n \in Served(a)' : Same(a, n)
        BY <4>1 DEF Same
      <4> QED BY <1>2, <2>2, <2>5, <3>1, <4>1, <4>2, GivenMeanwhile DEF Busy
    <3> QED BY <3>2, <3>3, <3>4, <3>5, <3>6 DEF Next
  <2> QED BY <2>4, <2>5
<1> QED BY <1>1, <1>2

\* Once the dust settles, every instance has access exactly as its CR says to the
\* namespaces labelled with it and to its own, although the informer's handler
\* deletes the RBAC of every instance, labels change during passes, calls fail and
\* the operator restarts: except where the last pass over the instance left a
\* Role or RoleBinding alone because the cache showed it another one than the API
\* server had (missed), and whatever the cache's delay.  For any number of
\* instances and namespaces, provided that instances whose CRs share a name do
\* not manage each other's own namespaces.
THEOREM AccessAtRest == ASSUME NamesApart PROVE Spec => []AccessUnlessMissed
<1>1. Init => BaseInv /\ AccessInv
  <2> SUFFICES ASSUME Init PROVE BaseInv /\ AccessInv
    OBVIOUS
  <2>1. TypeInv /\ WorldOK
    BY InitTypeInv, InitWorld
  <2>2. SnapOK /\ EventOK
    BY EmptySeq, IdleFields DEF Init, SnapOK, Passing, EventOK, HandlerSays
  <2>3. NamedOK
    <3> SUFFICES ASSUME NEW n \in Namespaces, NEW x \in Names
                 PROVE  /\ role[n][x] \in NamedRoles(n, x)
                        /\ roleLag[n][x] \in Seq(NamedRoles(n, x))
                        /\ binding[n][x] \in NamedBindings(n, x)
                        /\ bindingLag[n][x] \in Seq(NamedBindings(n, x))
      BY DEF NamedOK
    <3>1. roleLag[n][x] = <<>> /\ bindingLag[n][x] = <<>>
      BY DEF Init, NoLag
    <3>2. /\ role[n][x] = None \/ (n \in Instances /\ x = CRName[n] /\ role[n][x] = n)
          /\ \/ binding[n][x] = None
             \/ n \in Instances /\ x = CRName[n] /\ binding[n][x].creator = n
      BY DEF Init
    <3>3. binding[n][x] \in RoleBinding \cup {None}
      BY <2>1 DEF TypeInv, TypeOK
    <3> QED BY <3>1, <3>2, <3>3, EmptySeq DEF NamedRoles, NamedBindings, CreatorOK
  <2>4. AccessInv
    BY DEF Init, AccessInv, Calm
  <2> QED BY <2>1, <2>2, <2>3, <2>4 DEF BaseInv
<1>2. BaseInv /\ AccessInv /\ [Next]_vars => BaseInv' /\ AccessInv'
  BY TypeInvStep, WorldStep, SnapStep, NamedStep, EventStep, AccessStep DEF BaseInv
<1>3. BaseInv /\ AccessInv => AccessUnlessMissed
  <2> SUFFICES ASSUME BaseInv, AccessInv, Quiescent, NEW a \in Instances,
                      NEW n \in Namespaces, cr[a] = "present",
                      n \in NamespacesOf(a), ns[n] = "active"
               PROVE  <<a, n>> \in missed \/ (Granted(a, n) <=> a \in enabled)
    BY DEF AccessUnlessMissed
  <2>1. Calm(a) /\ ~Busy(a)
    BY EmptySeq DEF Quiescent, Calm, QuietQueue, Busy
  <2>2. Delivered(a)
    BY ConstantsAssumption DEF Quiescent, NoLag, Delivered, Quiet
  <2>3. RoleDone(a, n) /\ BindingDone(a, n)
    BY <2>1, <2>2 DEF AccessInv, Given, Served
  <2> QED BY <2>3 DEF RoleDone, BindingDone, RoleOK, BindingOK, Granted, RoleRef
<1> QED BY <1>1, <1>2, <1>3, PTL DEF Spec

-----------------------------------------------------------------------------
(* The scope of an instance.                                               *)

\* The own namespaces of instances are not labelled, and the operator is always
\* restarted with the same ARGOCD_CLUSTER_CONFIG_NAMESPACES.
ScopesKept ==
  /\ Labelled \cap Instances = {}
  /\ \A d, e \in Environments : d[2] = e[2]

\* A cluster secret that restricts a to namespaces, its own among them.
Clean(a, s) ==
  /\ s.kind # "noList" /\ Blank \notin s.list
  /\ s.kind = "list" => a \in s.list

\* Only labelled namespaces are heard of.
HeardOK ==
  /\ \A i \in 1..Len(events) : events[i].n \in Labelled
  /\ handler.pc # "idle" => handler.ev.n \in Labelled
  /\ \A n \in Namespaces : ns[n] # "active" => n \in Labelled

\* a's cluster secret is clean, and so is every copy that may be written back.
CleanOK(a) ==
  /\ Clean(a, secretNs[a])
  /\ worker.pc = "write" /\ worker.cr = a => Clean(a, worker.read)
  /\ worker.pc \in {"read", "write"} /\ worker.cr = a => a \in worker.want
  /\ handler.pc = "write" /\ handler.ev.old = a =>
       Clean(a, handler.read) /\ handler.read.kind = "list"

ScopeInv ==
  /\ \E e \in Environments : clusterConfig = e[2]
  /\ \A a \in Instances \ clusterConfig : CleanOK(a)

LEMMA HeardStep == TypeInv /\ WorldOK /\ HeardOK /\ [Next]_vars => HeardOK'
<1> SUFFICES ASSUME TypeInv, WorldOK, HeardOK, [Next]_vars PROVE HeardOK'
  OBVIOUS
<1>1. ASSUME NEW n \in Labelled, NEW op \in {"create", "update", "delete"},
             NEW old \in Instances \cup {None}, NEW new \in Instances \cup {None},
             Notify(n, op, old, new)
      PROVE  \A i \in 1..Len(events') : events'[i].n \in Labelled
  <2> DEFINE e == [n |-> n, old |-> old, new |-> new, op |-> op]
  <2>1. e \in NsEvent /\ events \in Seq(NsEvent) /\ e.n = n
    BY ConstantsAssumption DEF NsEvent, TypeInv, TypeOK
  <2> HIDE DEF e
  <2>2. /\ Len(events') = Len(events) + 1 /\ Len(events) \in Nat
        /\ \A i \in 1..Len(events) : events'[i] = events[i]
        /\ events'[Len(events) + 1] = e
    BY <1>1, <2>1, AppendProperties, LenProperties DEF Notify, e
  <2>3. ASSUME NEW i \in 1..Len(events') PROVE events'[i].n \in Labelled
    <3>1. i \in 1..Len(events) \/ i = Len(events) + 1
      BY <2>2
    <3> QED BY <2>1, <2>2, <3>1 DEF HeardOK
  <2> QED BY <2>3
<1>2. ASSUME events' = events, handler'.pc = handler.pc \/ handler.pc # "idle",
             handler'.ev = handler.ev, ns' = ns
      PROVE  HeardOK'
  BY <1>2 DEF HeardOK
<1>3. CASE HandlerTakes
  <2>1. events \in Seq(NsEvent) /\ events # <<>> /\ events' = Tail(events) /\ ns' = ns
    BY <1>3 DEF HandlerTakes, objects, TypeInv, TypeOK
  <2>2. /\ Len(events') = Len(events) - 1 /\ Len(events) \in Nat /\ Len(events) # 0
        /\ Head(events) = events[1]
        /\ \A i \in 1..Len(events') : events'[i] = events[i + 1]
    BY <2>1, HeadTailProperties, LenProperties, EmptySeq
  <2>3. handler'.ev = events[1]
    BY <1>3, <2>2 DEF HandlerTakes, IdleHandler
  <2>4. handler'.ev.n \in Labelled
    BY <2>2, <2>3 DEF HeardOK
  <2>5. ASSUME NEW i \in 1..Len(events') PROVE events'[i].n \in Labelled
    BY <2>2 DEF HeardOK
  <2> QED BY <2>1, <2>4, <2>5 DEF HeardOK
<1>4. CASE DeleteRoles \/ DeleteRoleBindings \/ HandlerReadsSecret \/ HandlerWritesSecret
  <2>1. /\ UNCHANGED <<ns, events>> /\ handler.pc # "idle" /\ handler'.ev = handler.ev
    BY <1>4 DEF DeleteRoles, DeleteRoleBindings, HandlerReadsSecret,
                HandlerWritesSecret, objects, TypeInv, TypeOK, HandlerState
  <2> QED BY <1>2, <2>1
<1>5. CASE HandlerEnqueues
  BY <1>5, IdleFields DEF HandlerEnqueues, objects, HeardOK
<1>6. CASE Restart
  BY <1>6, IdleFields, EmptySeq DEF Restart, objects, HeardOK
<1>7. ASSUME NEW n \in Namespaces, ReleaseTerminating(n) \/ RemoveManagedByLabel(n)
      PROVE  HeardOK'
  <2>1. handler' = handler /\ ns' = ns /\ worker.cr \in Instances
    BY <1>7 DEF ReleaseTerminating, RemoveManagedByLabel, TypeInv, PhaseOK
  <2>2. \/ events' = events
        \/ label[n] = worker.cr /\ Notify(n, "update", worker.cr, None)
    BY <1>7 DEF ReleaseTerminating, RemoveManagedByLabel
  <2>3. CASE label[n] = worker.cr /\ Notify(n, "update", worker.cr, None)
    <3>1. n \in Labelled
      BY <2>1, <2>3, ConstantsAssumption DEF WorldOK
    <3> QED BY <1>1, <2>1, <2>3, <3>1 DEF HeardOK
  <2> QED BY <1>2, <2>1, <2>2, <2>3
<1>8. CASE WriteSecret \/ RemoveDeletionFinalizer
  <2>1. UNCHANGED <<ns, events>> /\ handler'.pc = handler.pc /\ handler'.ev = handler.ev
    BY <1>8 DEF WriteSecret, RemoveDeletionFinalizer, objects, TypeInv, TypeOK,
                HandlerState
  <2> QED BY <1>2, <2>1
<1>9. ASSUME NEW n \in Namespaces,
             NamespaceGone(n) \/ (n \in Labelled /\
               (SetLabel(n) \/ DeleteNamespace(n) \/ CreateNamespace(n)))
      PROVE  HeardOK'
  <2>1. n \in Labelled
    BY <1>9 DEF NamespaceGone, HeardOK
  <2>2. handler' = handler /\ label[n] \in Instances \cup {None}
    BY <1>9 DEF NamespaceGone, SetLabel, DeleteNamespace, CreateNamespace, Edited,
                TypeInv, TypeOK
  <2>3. \E v \in Instances \cup {None}, old \in Instances \cup {None},
           op \in {"create", "update", "delete"} : Notify(n, op, old, v)
    BY <1>9, <2>2 DEF NamespaceGone, SetLabel, DeleteNamespace, CreateNamespace
  <2>4. \A m \in Namespaces : m # n => ns'[m] = ns[m]
    BY <1>9 DEF NamespaceGone, SetLabel, DeleteNamespace, CreateNamespace, TypeInv, TypeOK
  <2> QED BY <1>1, <2>1, <2>2, <2>3, <2>4 DEF HeardOK
<1>10. CASE UNCHANGED vars
  BY <1>2, <1>10 DEF vars, objects
<1>11. CASE UNCHANGED <<ns, events, handler>>
  BY <1>2, <1>11
<1> QED BY <1>3, <1>4, <1>5, <1>6, <1>7, <1>8, <1>9, <1>10, <1>11, ConstantsAssumption
  DEF Next, HandlerStep, WorkerStep, Environment, Reconcile, ReconcileRole,
      ReconcileRoleBinding, ListNamespaces, ReadSecret, CreateCR, DeleteCR, EditCR,
      Resync, Edited, InformerStep, RoleDelivered, BindingDelivered, objects

\* The constants among the secrets.
LEMMA CleanSecrets ==
  \A a : Clean(a, NoSecret)
BY ConstantsAssumption DEF Clean, NoSecret

LEMMA ScopeStep ==
  ASSUME ScopesKept
  PROVE  TypeInv /\ HeardOK /\ ScopeInv /\ [Next]_vars => ScopeInv'
<1> SUFFICES ASSUME TypeInv, HeardOK, ScopeInv, [Next]_vars PROVE ScopeInv'
  OBVIOUS
<1>1. clusterConfig' = clusterConfig
  <2>1. clusterConfig' = clusterConfig \/ \E e \in Environments : clusterConfig' = e[2]
    BY DEF Next, HandlerStep, WorkerStep, Environment, HandlerTakes, DeleteRoles,
           DeleteRoleBindings, HandlerReadsSecret, HandlerWritesSecret,
           HandlerEnqueues, Reconcile, ReleaseTerminating, ReconcileRole,
           ReconcileRoleBinding, RemoveManagedByLabel, ListNamespaces, ReadSecret,
           WriteSecret, RemoveDeletionFinalizer, SetLabel, DeleteNamespace,
           CreateNamespace, CreateCR, DeleteCR, EditCR, Resync, NamespaceGone,
           Restart, Edited, InformerStep, RoleDelivered, BindingDelivered, vars, env
  <2> QED BY <2>1 DEF ScopeInv, ScopesKept
<1> SUFFICES ASSUME NEW a \in Instances \ clusterConfig PROVE CleanOK(a)'
  BY <1>1 DEF ScopeInv
<1>2. /\ a \in Instances /\ a # None /\ CleanOK(a)
      /\ worker \in WorkerState /\ handler \in HandlerState
      /\ secretNs \in [Instances -> ClusterSecret]
  BY ConstantsAssumption DEF ScopeInv, TypeInv, TypeOK
<1>3. ASSUME secretNs' = secretNs,
             worker' = worker \/ worker'.pc \notin {"read", "write"},
             handler' = handler \/ handler'.pc # "write"
      PROVE  CleanOK(a)'
  BY <1>2, <1>3 DEF CleanOK
<1>4. CASE HandlerTakes \/ DeleteRoles \/ DeleteRoleBindings \/ HandlerEnqueues
  <2>1. secretNs' = secretNs /\ worker' = worker
    BY <1>4 DEF HandlerTakes, DeleteRoles, DeleteRoleBindings, HandlerEnqueues
  <2>2. handler'.pc # "write"
    BY <1>2, <1>4, IdleFields DEF HandlerTakes, DeleteRoles, DeleteRoleBindings,
       HandlerEnqueues, IdleHandler, HandlerState
  <2> QED BY <1>3, <2>1, <2>2
<1>5. CASE HandlerReadsSecret
  <2>1. secretNs' = secretNs /\ worker' = worker
    BY <1>5 DEF HandlerReadsSecret
  <2>2. handler'.pc = "write" =>
          /\ handler'.ev = handler.ev /\ handler'.read = secretNs[handler.ev.old]
          /\ handler'.read.kind = "list"
    BY <1>2, <1>5 DEF HandlerReadsSecret, HandlerState
  <2> QED BY <1>2, <2>1, <2>2 DEF CleanOK
<1>6. CASE HandlerWritesSecret
  <2> DEFINE new == WithoutNamespace(handler.read, handler.ev.n)
  <2>1. worker' = worker \/ worker' = [worker EXCEPT !.fresh = FALSE]
    BY <1>6 DEF HandlerWritesSecret
  <2>2. /\ worker'.pc = worker.pc /\ worker'.cr = worker.cr
        /\ worker'.read = worker.read /\ worker'.want = worker.want
    BY <1>2, <2>1 DEF WorkerState
  <2>3. handler'.pc = "enqueue" /\ handler.pc = "write"
    BY <1>2, <1>6 DEF HandlerWritesSecret, HandlerState
  <2>4. \/ secretNs' = secretNs
        \/ secretNs' = [secretNs EXCEPT ![handler.ev.old] = new] /\ new # handler.read
    BY <1>6 DEF HandlerWritesSecret
  <2>5. ASSUME handler.ev.old = a, new # handler.read PROVE Clean(a, new)
    <3>1. /\ Clean(a, handler.read) /\ handler.read.kind = "list"
          /\ handler.ev.n \in Labelled
      BY <1>2, <2>3, <2>5 DEF CleanOK, HeardOK
    <3>2. handler.ev.n # a
      BY <1>2, <3>1 DEF ScopesKept
    <3> QED BY <3>1, <3>2 DEF Clean, WithoutNamespace, ListOf
  <2>6. Clean(a, secretNs'[a])
    BY <1>2, <2>4, <2>5 DEF CleanOK
  <2> QED BY <1>2, <2>2, <2>3, <2>6 DEF CleanOK
<1>7. ASSUME NEW b \in Instances, Reconcile(b) PROVE CleanOK(a)'
  <2>1. secretNs' = secretNs /\ handler' = handler
    BY <1>7 DEF Reconcile
  <2>2. worker' = worker \/ worker'.pc \in {"roles", "unlabel", "finalize"}
    BY <1>7 DEF Reconcile, IdleWorker
  <2> QED BY <1>3, <2>1, <2>2
<1>8. ASSUME NEW n \in Namespaces,
             ReleaseTerminating(n) \/ ReconcileRole(n) \/ ReconcileRoleBinding(n)
      PROVE  CleanOK(a)'
  <2>1. /\ worker' = Done(n) \/ worker' = IdleWorker
        /\ worker.pc \in {"roles", "rolesAgain", "bindings"}
        /\ secretNs' = secretNs /\ handler' = handler
    BY <1>8 DEF ReleaseTerminating, ReconcileRole, ReconcileRoleBinding, Return, Fails
  <2> QED BY <1>3, <2>1, DonePc, IdleFields
<1>9. ASSUME NEW n \in Namespaces, RemoveManagedByLabel(n) PROVE CleanOK(a)'
  <2>1. secretNs' = secretNs /\ handler' = handler
    BY <1>9 DEF RemoveManagedByLabel
  <2>2. worker'.pc \in {"unlabel", "finalize"} \/ worker' = IdleWorker
    BY <1>2, <1>9 DEF RemoveManagedByLabel, Return, Fails, WorkerState
  <2> QED BY <1>3, <2>1, <2>2, IdleFields
<1>10. CASE ListNamespaces
  <2>1. secretNs' = secretNs /\ handler' = handler
    BY <1>10 DEF ListNamespaces
  <2>2. \/ worker' = IdleWorker
        \/ /\ worker'.pc = "read" /\ worker'.cr = worker.cr
           /\ worker'.want = NamespacesOf(worker.cr)
    BY <1>2, <1>10 DEF ListNamespaces, Return, Fails, WorkerState
  <2>3. a \in NamespacesOf(a)
    BY DEF NamespacesOf
  <2> QED BY <1>2, <1>3, <2>1, <2>2, <2>3, IdleFields DEF CleanOK
<1>11. CASE ReadSecret
  <2>1. secretNs' = secretNs /\ handler' = handler
    BY <1>11 DEF ReadSecret
  <2>2. \/ worker' = IdleWorker
        \/ /\ worker'.pc = "write" /\ worker'.cr = worker.cr
           /\ worker'.read = secretNs[worker.cr] /\ worker'.want = worker.want
           /\ worker.pc = "read"
    BY <1>2, <1>11 DEF ReadSecret, Return, Fails, WorkerState
  <2> QED BY <1>2, <1>3, <2>1, <2>2, IdleFields DEF CleanOK
<1>12. CASE WriteSecret
  <2> DEFINE new == combineClusterSecretNamespacesWithManagedNamespaces(
                      worker.read, worker.want)
  <2>1. worker'.pc = "idle" /\ worker.pc = "write"
    BY <1>12, IdleFields DEF WriteSecret, Return, Fails
  <2>2. handler' = handler \/ handler' = [handler EXCEPT !.fresh = FALSE]
    BY <1>12 DEF WriteSecret
  <2>3. /\ handler'.pc = handler.pc /\ handler'.ev = handler.ev
        /\ handler'.read = handler.read
    BY <1>2, <2>2 DEF HandlerState
  <2>4. \/ secretNs'[a] = secretNs[a]
        \/ worker.cr = a /\ secretNs'[a] = new
    <3>1. \/ secretNs' = secretNs
          \/ /\ worker.cr \notin clusterConfig
             /\ secretNs' = [secretNs EXCEPT ![worker.cr] = new]
          \/ /\ worker.cr \in clusterConfig
             /\ \E t : secretNs' = [secretNs EXCEPT ![worker.cr] = t]
      BY <1>12 DEF WriteSecret
    <3> QED BY <1>2, <3>1
  <2>5. ASSUME worker.cr = a PROVE Clean(a, new)
    <3>1. Clean(a, worker.read) /\ a \in worker.want
      BY <1>2, <2>1, <2>5 DEF CleanOK
    <3>2. worker.want \subseteq Namespaces /\ Blank \notin Namespaces
      BY <1>2, ConstantsAssumption DEF WorkerState
    <3> QED BY <3>1, <3>2
      DEF Clean, ListOf, combineClusterSecretNamespacesWithManagedNamespaces
  <2>6. Clean(a, secretNs'[a])
    BY <1>2, <2>4, <2>5 DEF CleanOK
  <2> QED BY <1>2, <2>1, <2>3, <2>6 DEF CleanOK
<1>13. CASE RemoveDeletionFinalizer
  <2>1. worker'.pc = "idle"
    BY <1>13, IdleFields DEF RemoveDeletionFinalizer, Return, Fails
  <2>2. handler' = handler \/ handler' = [handler EXCEPT !.fresh = FALSE]
    BY <1>13 DEF RemoveDeletionFinalizer
  <2>3. /\ handler'.pc = handler.pc /\ handler'.ev = handler.ev
        /\ handler'.read = handler.read
    BY <1>2, <2>2 DEF HandlerState
  <2>4. secretNs'[a] \in {secretNs[a], NoSecret}
    BY <1>2, <1>13 DEF RemoveDeletionFinalizer
  <2>5. Clean(a, secretNs'[a])
    BY <1>2, <2>4, CleanSecrets DEF CleanOK
  <2> QED BY <1>2, <2>1, <2>3, <2>5 DEF CleanOK
<1>14. CASE Environment
  <2>1. /\ secretNs' = secretNs
        /\ handler' = handler \/ handler' = IdleHandler
    BY <1>14 DEF Environment, SetLabel, DeleteNamespace, CreateNamespace, CreateCR,
                 DeleteCR, EditCR, Resync, NamespaceGone, Restart, Edited
  <2> QED BY <1>3, <1>14, <2>1, EnvironmentKeepsWorker, IdleFields
<1>15. CASE UNCHANGED vars
  BY <1>3, <1>15 DEF vars
<1>16. CASE InformerStep
  BY <1>3, <1>16, InformerKeeps
<1> QED BY <1>4, <1>5, <1>6, <1>7, <1>8, <1>9, <1>10, <1>11, <1>12, <1>13, <1>14,
           <1>15, <1>16
  DEF Next, HandlerStep, WorkerStep

\* The cluster secret of an instance that is not cluster scoped never has an
\* empty entry, and is never emptied, whichever of the handler and the worker
\* writes it back from an old copy: as long as the own namespaces of instances
\* are not labelled and the operator's ARGOCD_CLUSTER_CONFIG_NAMESPACES stays the
\* same.
THEOREM NamespaceScopedAtRest ==
  ASSUME ScopesKept PROVE Spec => []NamespaceScopedWhenQuiescent
<1>1. Init => TypeInv /\ WorldOK /\ HeardOK /\ ScopeInv
  <2> SUFFICES ASSUME Init PROVE TypeInv /\ WorldOK /\ HeardOK /\ ScopeInv
    OBVIOUS
  <2>1. HeardOK
    BY EmptySeq, IdleFields DEF Init, HeardOK
  <2>2. ScopeInv
    <3>1. \A a \in Instances : Clean(a, ListOf({a}))
      BY ConstantsAssumption DEF Clean, ListOf
    <3>2. \A a \in Instances : secretNs[a] \in {NoSecret, ListOf({a})}
      BY DEF Init
    <3> QED BY <3>1, <3>2, CleanSecrets, IdleFields DEF Init, ScopeInv, CleanOK
  <2> QED BY <2>1, <2>2, InitTypeInv, InitWorld
<1>2. TypeInv /\ WorldOK /\ HeardOK /\ ScopeInv /\ [Next]_vars
        => (TypeInv /\ WorldOK /\ HeardOK /\ ScopeInv)'
  BY TypeInvStep, WorldStep, HeardStep, ScopeStep
<1>3. ScopeInv => NamespaceScopedWhenQuiescent
  BY DEF ScopeInv, CleanOK, Clean, NamespaceScopedWhenQuiescent
<1> QED BY <1>1, <1>2, <1>3, PTL DEF Spec

=============================================================================
