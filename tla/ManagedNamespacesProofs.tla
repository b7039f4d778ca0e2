---------------------- MODULE ManagedNamespacesProofs ----------------------
(***************************************************************************)
(* Proofs about ManagedNamespaces, for any instances, namespaces, names of *)
(* CRs and environments of the operator, and whatever the bounds.          *)
(***************************************************************************)
EXTENDS ManagedNamespaces, SequenceTheorems, TLAPS

\* The worker knows its instance while it works, the handler its event, and
\* the former owner while it takes access away.
PhaseOK ==
  /\ worker.pc # "idle" => worker.cr \in Instances
  /\ handler.pc # "idle" => handler.ev \in NsEvent
  /\ handler.pc \in {"roles", "bindings", "read", "write"}
       => handler.ev.old \in Instances

\* A namespace that is gone has no label.
AbsentOK == \A n \in Namespaces : ns[n] = "absent" => label[n] = None

TypeInv == TypeOK /\ PhaseOK /\ AbsentOK

-----------------------------------------------------------------------------
(* Types of the helpers.                                                   *)

\* The constants among the cluster secrets.
LEMMA SecretTypes ==
  /\ NoSecret \in ClusterSecret /\ NoList \in ClusterSecret
  /\ \A S \in SUBSET (Namespaces \cup {Blank}) : ListOf(S) \in ClusterSecret
BY DEF NoSecret, NoList, ListOf, ClusterSecret

\* Idle goroutines.
LEMMA IdleTypes == IdleHandler \in HandlerState /\ IdleWorker \in WorkerState
BY SecretTypes DEF IdleHandler, IdleWorker, HandlerState, WorkerState, NoEvent

\* ... do nothing.
LEMMA IdleFields ==
  /\ IdleWorker.pc = "idle" /\ IdleWorker.cr = None
  /\ IdleHandler.pc = "idle" /\ IdleHandler.ev = NoEvent
BY DEF IdleWorker, IdleHandler

\* One entry of a table by namespace and CR name changes.
LEMMA TableType ==
  ASSUME NEW V, NEW f \in [Namespaces -> [Names -> V]],
         NEW n \in Namespaces, NEW x \in Names, NEW v \in V
  PROVE  [f EXCEPT ![n][x] = v] \in [Namespaces -> [Names -> V]]
OBVIOUS

\* An empty cache backlog, and one to which versions are added.
LEMMA LagType ==
  ASSUME NEW V, NEW lag \in [Namespaces -> [Names -> Seq(V)]],
         NEW table \in [Namespaces -> [Names -> V]], NEW new
  PROVE  Outdated(lag, table, new) \in [Namespaces -> [Names -> Seq(V)]]
<1>1. \A n \in Namespaces, x \in Names : Append(lag[n][x], table[n][x]) \in Seq(V)
  BY AppendProperties
<1> QED BY <1>1 DEF Outdated

LEMMA NoLagType == \A V : NoLag \in [Namespaces -> [Names -> Seq(V)]]
BY EmptySeq DEF NoLag

\* A written Role, RoleBinding leaves a backlog of the right type.
LEMMA RolesWrittenType ==
  TypeInv /\ RolesWritten
    => roleLag' \in [Namespaces -> [Names -> Seq(Instances \cup {None})]]
<1> DEFINE V == Instances \cup {None}
<1>1. ASSUME TypeInv
      PROVE  /\ roleLag \in [Namespaces -> [Names -> Seq(V)]]
             /\ role \in [Namespaces -> [Names -> V]]
  BY <1>1 DEF TypeInv, TypeOK
<1> HIDE DEF V
<1>2. ASSUME TypeInv, RolesWritten
      PROVE  roleLag' \in [Namespaces -> [Names -> Seq(V)]]
  BY <1>1, <1>2, LagType DEF RolesWritten
<1> QED BY <1>2 DEF V

LEMMA BindingsWrittenType ==
  TypeInv /\ BindingsWritten
    => bindingLag' \in [Namespaces -> [Names -> Seq(RoleBinding \cup {None})]]
<1> DEFINE V == RoleBinding \cup {None}
<1>1. ASSUME TypeInv
      PROVE  /\ bindingLag \in [Namespaces -> [Names -> Seq(V)]]
             /\ binding \in [Namespaces -> [Names -> V]]
  BY <1>1 DEF TypeInv, TypeOK
<1> HIDE DEF V
<1>2. ASSUME TypeInv, BindingsWritten
      PROVE  bindingLag' \in [Namespaces -> [Names -> Seq(V)]]
  BY <1>1, <1>2, LagType DEF BindingsWritten
<1> QED BY <1>2 DEF V

\* Owners of changed objects are instances.
LEMMA OwnerType == \A n, creator : OwnerOf(n, creator) \subseteq Instances
BY DEF OwnerOf

\* Leftover access is access of an instance to a namespace.
LEMMA LeftoverType ==
  \A n \in Namespaces : \A bs : Leftover(n, bs) \subseteq Instances \X Namespaces
BY DEF Leftover

\* Namespaces of an instance are namespaces.
LEMMA NamespacesOfType ==
  \A a \in Instances : NamespacesOf(a) \subseteq Namespaces
BY ConstantsAssumption DEF NamespacesOf

\* The next state of the worker in one of its loops.
LEMMA DoneType ==
  ASSUME TypeInv, NEW n \in Namespaces,
         worker.pc \in {"roles", "rolesAgain", "bindings"}
  PROVE  Done(n) \in WorkerState /\ Done(n).cr = worker.cr
<1> DEFINE rest == worker.todo \ {n}
           snap == [worker.snap EXCEPT ![n] = IF @ = "terminating" THEN "no" ELSE @]
           first == {m \in Namespaces : snap[m] # "no"}
<1>1. worker \in WorkerState
  BY DEF TypeInv, TypeOK
<1>2. /\ rest \in SUBSET Namespaces /\ first \in SUBSET Namespaces
      /\ snap \in [Namespaces -> {"no", "active", "terminating"}]
  BY <1>1 DEF WorkerState
<1>3. After(worker.pc) \in {"rolesAgain", "bindings", "list"}
  BY DEF After
<1> HIDE DEF rest, snap, first
<1>4. \/ Done(n) = [worker EXCEPT !.snap = snap, !.todo = rest]
      \/ Done(n) = [worker EXCEPT !.snap = snap, !.pc = After(worker.pc),
                                  !.todo = first]
  BY DEF Done, rest, snap, first
<1> QED BY <1>1, <1>2, <1>3, <1>4 DEF WorkerState

\* A reconciliation that ends.
LEMMA ReturnType ==
  ASSUME TypeInv, worker.pc # "idle", NEW failed \in BOOLEAN,
         NEW who \in SUBSET Instances, Return(failed, who)
  PROVE  /\ worker' = IdleWorker /\ worker' \in WorkerState
         /\ queued' \subseteq Instances
BY IdleTypes DEF Return, TypeInv, TypeOK, PhaseOK

\* Events are appended.
LEMMA NotifyType ==
  ASSUME TypeInv, NEW n \in Namespaces, NEW op \in {"create", "update", "delete"},
         NEW old \in Instances \cup {None}, NEW new \in Instances \cup {None},
         Notify(n, op, old, new)
  PROVE  events' \in Seq(NsEvent)
<1>1. [n |-> n, old |-> old, new |-> new, op |-> op] \in NsEvent
  BY DEF NsEvent
<1> QED BY <1>1, AppendProperties DEF Notify, TypeInv, TypeOK

-----------------------------------------------------------------------------
(* The initial states and the handler's steps.                             *)

LEMMA InitTypeInv == Init => TypeInv
<1> SUFFICES ASSUME Init PROVE TypeInv
  OBVIOUS
<1>1. handler \in HandlerState /\ worker \in WorkerState
  BY IdleTypes DEF Init
<1>2. secretNs \in [Instances -> ClusterSecret]
  BY SecretTypes, ConstantsAssumption DEF Init
<1>3. /\ role \in [Namespaces -> [Names -> Instances \cup {None}]]
      /\ binding \in [Namespaces -> [Names -> RoleBinding \cup {None}]]
  <2>1. \A n \in Instances :
          [creator |-> n, subject |-> n, ref |-> RoleRef] \in RoleBinding
    BY DEF RoleBinding, RoleRef
  <2> QED BY <2>1 DEF Init
<1>4. /\ events \in Seq(NsEvent)
      /\ roleLag \in [Namespaces -> [Names -> Seq(Instances \cup {None})]]
      /\ bindingLag \in [Namespaces -> [Names -> Seq(RoleBinding \cup {None})]]
  BY EmptySeq, NoLagType DEF Init
<1>8. customRole \in BOOLEAN /\ clusterConfig \subseteq Instances
  BY ConstantsAssumption DEF Init
<1>5. TypeOK
  BY <1>1, <1>2, <1>3, <1>4, <1>8 DEF Init, TypeOK
<1>6. PhaseOK
  BY DEF Init, PhaseOK, IdleHandler, IdleWorker
<1>7. AbsentOK
  BY DEF Init, AbsentOK
<1> QED BY <1>5, <1>6, <1>7 DEF TypeInv

LEMMA HandlerTakesType == TypeInv /\ HandlerTakes => TypeInv'
<1> SUFFICES ASSUME TypeInv, HandlerTakes PROVE TypeInv'
  OBVIOUS
<1> DEFINE ev == Head(events)
<1>1. ev \in NsEvent /\ events' \in Seq(NsEvent)
  BY HeadTailProperties DEF HandlerTakes, TypeInv, TypeOK
<1>2. /\ handler' \in HandlerState /\ handler'.ev = ev
      /\ handler'.pc \in {"roles", "read"} => ev.old # None
      /\ handler'.pc \in {"roles", "read", "enqueue"}
  BY <1>1, SecretTypes
  DEF HandlerTakes, LosesOwner, IdleHandler, HandlerState
<1>3. PhaseOK'
  BY <1>1, <1>2 DEF HandlerTakes, TypeInv, PhaseOK, NsEvent
<1> QED BY <1>1, <1>2, <1>3
  DEF HandlerTakes, TypeInv, TypeOK, AbsentOK, objects, access, env, bounds

\* Failing deletions count against the bound only.
LEMMA DeleteFailsType ==
  ASSUME TypeInv, NEW kept, DeleteFails(kept)
  PROVE  edits' \in Nat /\ faults' \in Nat
BY DEF DeleteFails, Faulty, bounds, TypeInv, TypeOK

\* What is kept of a row is a row.
LEMMA KeptType ==
  ASSUME NEW V, NEW f \in [Namespaces -> [Names -> V \cup {None}]],
         NEW n \in Namespaces, NEW kept
  PROVE  [f EXCEPT ![n] = Kept(f[n], kept)]
           \in [Namespaces -> [Names -> V \cup {None}]]
<1>1. Kept(f[n], kept) \in [Names -> V \cup {None}]
  BY DEF Kept
<1> QED BY <1>1

LEMMA DeleteRolesType == TypeInv /\ DeleteRoles => TypeInv'
<1> SUFFICES ASSUME TypeInv, DeleteRoles PROVE TypeInv'
  OBVIOUS
<1> DEFINE n == handler.ev.n
<1>1. n \in Namespaces
  BY DEF DeleteRoles, TypeInv, PhaseOK, NsEvent
<1>2. roleLag' \in [Namespaces -> [Names -> Seq(Instances \cup {None})]]
  BY RolesWrittenType DEF DeleteRoles
<1>3. late' \subseteq Instances \X Namespaces
  BY <1>1, LeftoverType DEF DeleteRoles, TypeInv, TypeOK
<1>4. role' \in [Namespaces -> [Names -> Instances \cup {None}]]
  <2>1. \/ role' = role
        \/ \E kept : role' = [role EXCEPT ![n] = Kept(role[n], kept)]
    BY DEF DeleteRoles
  <2>2. role \in [Namespaces -> [Names -> Instances \cup {None}]]
    BY DEF TypeInv, TypeOK
  <2> HIDE DEF n
  <2>3. \A kept : [role EXCEPT ![n] = Kept(role[n], kept)]
                   \in [Namespaces -> [Names -> Instances \cup {None}]]
    BY <1>1, <2>2, KeptType
  <2> QED BY <2>1, <2>2, <2>3
<1>5. handler' \in HandlerState /\ handler'.ev = handler.ev
  BY DEF DeleteRoles, TypeInv, TypeOK, HandlerState
<1>6. edits' \in Nat /\ faults' \in Nat
  BY DeleteFailsType DEF DeleteRoles, TypeInv, TypeOK, Faulty
<1>7. PhaseOK'
  BY <1>5 DEF DeleteRoles, TypeInv, PhaseOK
<1> QED BY <1>2, <1>3, <1>4, <1>5, <1>6, <1>7
  DEF DeleteRoles, TypeInv, TypeOK, AbsentOK, objects, env

LEMMA DeleteRoleBindingsType == TypeInv /\ DeleteRoleBindings => TypeInv'
<1> SUFFICES ASSUME TypeInv, DeleteRoleBindings PROVE TypeInv'
  OBVIOUS
<1> DEFINE n == handler.ev.n
<1>1. n \in Namespaces
  BY DEF DeleteRoleBindings, TypeInv, PhaseOK, NsEvent
<1>2. bindingLag' \in [Namespaces -> [Names -> Seq(RoleBinding \cup {None})]]
  BY BindingsWrittenType DEF DeleteRoleBindings
<1>3. late' \subseteq Instances \X Namespaces
  BY <1>1, LeftoverType DEF DeleteRoleBindings, TypeInv, TypeOK
<1>4. binding' \in [Namespaces -> [Names -> RoleBinding \cup {None}]]
  <2>1. \E kept : binding' = [binding EXCEPT ![n] = Kept(binding[n], kept)]
    BY DEF DeleteRoleBindings
  <2>2. binding \in [Namespaces -> [Names -> RoleBinding \cup {None}]]
    BY DEF TypeInv, TypeOK
  <2> HIDE DEF n
  <2>3. \A kept : [binding EXCEPT ![n] = Kept(binding[n], kept)]
                   \in [Namespaces -> [Names -> RoleBinding \cup {None}]]
    BY <1>1, <2>2, KeptType
  <2> QED BY <2>1, <2>3
<1>5. handler' \in HandlerState /\ handler'.ev = handler.ev
  BY DEF DeleteRoleBindings, TypeInv, TypeOK, HandlerState
<1>6. edits' \in Nat /\ faults' \in Nat
  BY DeleteFailsType DEF DeleteRoleBindings
<1>7. PhaseOK'
  BY <1>5 DEF DeleteRoleBindings, TypeInv, PhaseOK
<1> QED BY <1>2, <1>3, <1>4, <1>5, <1>6, <1>7
  DEF DeleteRoleBindings, TypeInv, TypeOK, AbsentOK, objects, env

LEMMA HandlerReadsSecretType == TypeInv /\ HandlerReadsSecret => TypeInv'
<1> SUFFICES ASSUME TypeInv, HandlerReadsSecret PROVE TypeInv'
  OBVIOUS
<1>1. secretNs[handler.ev.old] \in ClusterSecret
  BY DEF HandlerReadsSecret, TypeInv, TypeOK, PhaseOK
<1>2. handler' \in HandlerState /\ handler'.ev = handler.ev
  BY <1>1 DEF HandlerReadsSecret, TypeInv, TypeOK, HandlerState
<1>3. edits' \in Nat /\ faults' \in Nat
  BY DEF HandlerReadsSecret, TypeInv, TypeOK, Faulty, bounds
<1>4. PhaseOK'
  BY <1>2 DEF HandlerReadsSecret, TypeInv, PhaseOK
<1> QED BY <1>2, <1>3, <1>4
  DEF HandlerReadsSecret, TypeInv, TypeOK, AbsentOK, objects, access, env

LEMMA HandlerWritesSecretType == TypeInv /\ HandlerWritesSecret => TypeInv'
<1> SUFFICES ASSUME TypeInv, HandlerWritesSecret PROVE TypeInv'
  OBVIOUS
<1> DEFINE new == WithoutNamespace(handler.read, handler.ev.n)
<1>1. handler.ev.old \in Instances /\ handler.read \in ClusterSecret
  BY DEF HandlerWritesSecret, TypeInv, TypeOK, PhaseOK, HandlerState
<1>2. new \in ClusterSecret
  BY <1>1, SecretTypes DEF WithoutNamespace, ClusterSecret
<1>3. handler' \in HandlerState /\ handler'.ev = handler.ev
  BY SecretTypes DEF HandlerWritesSecret, TypeInv, TypeOK, HandlerState
<1>4. secretNs' \in [Instances -> ClusterSecret]
  BY <1>1, <1>2 DEF HandlerWritesSecret, TypeInv, TypeOK
<1>5. worker' \in WorkerState /\ worker'.pc = worker.pc /\ worker'.cr = worker.cr
  <2>1. worker' = worker \/ worker' = [worker EXCEPT !.fresh = FALSE]
    BY DEF HandlerWritesSecret
  <2>2. worker \in WorkerState
    BY DEF TypeInv, TypeOK
  <2> QED BY <2>1, <2>2 DEF WorkerState
<1>6. queued' \subseteq Instances
  BY <1>1 DEF HandlerWritesSecret, TypeInv, TypeOK
<1>7. edits' \in Nat /\ faults' \in Nat
  BY DEF HandlerWritesSecret, TypeInv, TypeOK, Faulty, bounds
<1>8. PhaseOK'
  BY <1>3, <1>5 DEF HandlerWritesSecret, TypeInv, PhaseOK
<1> QED BY <1>3, <1>4, <1>5, <1>6, <1>7, <1>8
  DEF HandlerWritesSecret, TypeInv, TypeOK, AbsentOK, objects, access, env

LEMMA HandlerEnqueuesType == TypeInv /\ HandlerEnqueues => TypeInv'
<1> SUFFICES ASSUME TypeInv, HandlerEnqueues PROVE TypeInv'
  OBVIOUS
<1>1. handler.ev \in NsEvent
  BY DEF HandlerEnqueues, TypeInv, PhaseOK
<1>2. Mapped(handler.ev) \subseteq Instances
  BY <1>1 DEF Mapped, NsEvent
<1>3. handler' \in HandlerState /\ PhaseOK'
  BY IdleTypes DEF HandlerEnqueues, TypeInv, PhaseOK, IdleHandler
<1> QED BY <1>2, <1>3
  DEF HandlerEnqueues, TypeInv, TypeOK, AbsentOK, objects, access, env, bounds

-----------------------------------------------------------------------------
(* The worker's steps.                                                     *)

LEMMA ReconcileType == ASSUME NEW a \in Instances
                       PROVE  TypeInv /\ Reconcile(a) => TypeInv'
<1> SUFFICES ASSUME TypeInv, Reconcile(a) PROVE TypeInv'
  OBVIOUS
<1>1. /\ NamespacesOf(a) \in SUBSET Namespaces
      /\ setManagedNamespaces(a) \in [Namespaces -> {"no", "active", "terminating"}]
  BY NamespacesOfType DEF setManagedNamespaces, NamespacesOf, TypeInv, TypeOK
<1>2. worker' \in WorkerState /\ (worker'.pc # "idle" => worker'.cr \in Instances)
  <2>1. CASE cr[a] = "absent"
    BY <2>1 DEF Reconcile, TypeInv, TypeOK, PhaseOK
  <2>2. CASE cr[a] \in {"new", "present"}
    BY <1>1, <2>2, IdleTypes DEF Reconcile, WorkerState
  <2>3. CASE cr[a] = "terminating"
    BY <1>1, <2>3, IdleTypes DEF Reconcile, WorkerState
  <2> QED BY <2>1, <2>2, <2>3 DEF TypeInv, TypeOK
<1>3. cr' \in [Instances -> {"absent", "new", "present", "terminating"}]
  BY DEF Reconcile, TypeInv, TypeOK
<1>4. queued' \subseteq Instances
  BY DEF Reconcile, TypeInv, TypeOK
<1>5. PhaseOK'
  BY <1>2 DEF Reconcile, TypeInv, PhaseOK
<1>6. missed' \subseteq Instances \X Namespaces
  BY DEF Reconcile, TypeInv, TypeOK
<1> QED BY <1>2, <1>3, <1>4, <1>5, <1>6
  DEF Reconcile, TypeInv, TypeOK, AbsentOK, env, bounds

LEMMA ReleaseTerminatingType ==
  ASSUME NEW n \in Namespaces
  PROVE  TypeInv /\ ReleaseTerminating(n) => TypeInv'
<1> SUFFICES ASSUME TypeInv, ReleaseTerminating(n) PROVE TypeInv'
  OBVIOUS
<1>1. worker' \in WorkerState /\ worker'.cr = worker.cr
  BY DoneType DEF ReleaseTerminating
<1>2. label' \in [Namespaces -> Instances \cup {None}]
  BY DEF ReleaseTerminating, TypeInv, TypeOK
<1>3. events' \in Seq(NsEvent)
  BY NotifyType DEF ReleaseTerminating, TypeInv, TypeOK
<1>4. edits' \in Nat /\ faults' \in Nat
  BY DEF ReleaseTerminating, TypeInv, TypeOK, Faulty, bounds
<1>5. PhaseOK' /\ AbsentOK'
  BY <1>1 DEF ReleaseTerminating, TypeInv, TypeOK, PhaseOK, AbsentOK
<1> QED BY <1>1, <1>2, <1>3, <1>4, <1>5
  DEF ReleaseTerminating, TypeInv, TypeOK, access, env

\* What a pass overlooks is a namespace of an instance.
LEMMA OverlookedType ==
  ASSUME TypeInv, worker.cr \in Instances, NEW n \in Namespaces
  PROVE  /\ missed \subseteq Instances \X Namespaces
         /\ \A seen, live : Overlooked(n, seen, live) \subseteq Instances \X Namespaces
BY DEF Overlooked, TypeInv, TypeOK

LEMMA ReconcileRoleType ==
  ASSUME NEW n \in Namespaces
  PROVE  TypeInv /\ ReconcileRole(n) => TypeInv'
<1> SUFFICES ASSUME TypeInv, ReconcileRole(n) PROVE TypeInv'
  OBVIOUS
<1> DEFINE a == worker.cr
           x == CRName[a]
<1>1. a \in Instances /\ x \in Names
  BY ConstantsAssumption DEF ReconcileRole, TypeInv, PhaseOK
<1>2. role' \in [Namespaces -> [Names -> Instances \cup {None}]]
  <2>1. \/ role' = [role EXCEPT ![n][x] = a]
        \/ role' = [role EXCEPT ![n][x] = None]
        \/ role' = role
    BY DEF ReconcileRole
  <2>2. role \in [Namespaces -> [Names -> Instances \cup {None}]]
    BY DEF TypeInv, TypeOK
  <2> QED BY <1>1, <2>1, <2>2, TableType
<1>3. \/ worker' = Done(n)
      \/ worker' = IdleWorker
  BY DEF ReconcileRole, Return, Fails
<1>4. worker' \in WorkerState /\ (worker'.pc # "idle" => worker'.cr \in Instances)
  BY <1>1, <1>3, DoneType, IdleTypes, IdleFields DEF ReconcileRole
<1>5. queued' \subseteq Instances
  BY <1>1 DEF ReconcileRole, Return, Fails, TypeInv, TypeOK
<1>6. edits' \in Nat /\ faults' \in Nat
  BY DEF ReconcileRole, TypeInv, TypeOK, Fails, Return, Faulty, bounds
<1>7. PhaseOK'
  BY <1>4 DEF ReconcileRole, TypeInv, PhaseOK
<1>8. roleLag' \in [Namespaces -> [Names -> Seq(Instances \cup {None})]]
  BY RolesWrittenType DEF ReconcileRole
<1>9. missed' \subseteq Instances \X Namespaces
  <2>1. missed' = missed \/ \E seen, live : missed' = Overlooked(n, seen, live)
    BY DEF ReconcileRole
  <2> QED BY <1>1, <2>1, OverlookedType
<1> QED BY <1>2, <1>4, <1>5, <1>6, <1>7, <1>8, <1>9
  DEF ReconcileRole, TypeInv, TypeOK, AbsentOK, objects, env

\* Without a backlog the worker reads what is there.
LEMMA SeenUpToDate ==
  ASSUME NEW lag, NEW table, NEW n, NEW x, lag[n][x] = <<>>
  PROVE  Seen(lag, table, n, x) = table[n][x]
BY DEF Seen, Versions

LEMMA ReconcileRoleBindingType ==
  ASSUME NEW n \in Namespaces
  PROVE  TypeInv /\ ReconcileRoleBinding(n) => TypeInv'
<1> SUFFICES ASSUME TypeInv, ReconcileRoleBinding(n) PROVE TypeInv'
  OBVIOUS
<1> DEFINE a == worker.cr
           x == CRName[a]
           b == binding[n][x]
<1>1. a \in Instances /\ x \in Names
  BY ConstantsAssumption DEF ReconcileRoleBinding, TypeInv, PhaseOK
<1>2. b \in RoleBinding \cup {None}
  BY <1>1 DEF TypeInv, TypeOK
<1>3. binding' \in [Namespaces -> [Names -> RoleBinding \cup {None}]]
  <2>1. \/ binding' = [binding EXCEPT ![n][x] =
                        [creator |-> a, subject |-> a, ref |-> RoleRef]]
        \/ binding' = [binding EXCEPT ![n][x] = None]
        \/ b # None /\ binding' = [binding EXCEPT ![n][x] = [b EXCEPT !.subject = a]]
        \/ binding' = binding
    <3>1. bindingLag[n][x] = <<>> => Seen(bindingLag, binding, n, x) = b
      BY <1>1, SeenUpToDate
    <3> QED BY <3>1 DEF ReconcileRoleBinding
  <2>2. [creator |-> a, subject |-> a, ref |-> RoleRef] \in RoleBinding
    BY <1>1 DEF RoleBinding, RoleRef
  <2>3. b # None => [b EXCEPT !.subject = a] \in RoleBinding
    BY <1>1, <1>2 DEF RoleBinding
  <2>4. binding \in [Namespaces -> [Names -> RoleBinding \cup {None}]]
    BY DEF TypeInv, TypeOK
  <2> DEFINE bs == [Namespaces -> [Names -> RoleBinding \cup {None}]]
  <2>5. \A v \in RoleBinding \cup {None} : [binding EXCEPT ![n][x] = v] \in bs
    BY <1>1, <2>4, TableType
  <2> HIDE DEF a, x, b, bs
  <2> QED BY <2>1, <2>2, <2>3, <2>4, <2>5 DEF bs
<1>4. worker' = Done(n) \/ worker' = IdleWorker
  BY DEF ReconcileRoleBinding, Return, Fails
<1>5. worker' \in WorkerState /\ (worker'.pc # "idle" => worker'.cr \in Instances)
  BY <1>1, <1>4, DoneType, IdleTypes, IdleFields DEF ReconcileRoleBinding
<1>6. queued' \subseteq Instances
  BY <1>1 DEF ReconcileRoleBinding, Return, Fails, TypeInv, TypeOK
<1>7. late' \subseteq Instances \X Namespaces
  <2>1. late' \in {late, LateIfStale(a, n)}
    BY DEF ReconcileRoleBinding
  <2> QED BY <1>1, <2>1 DEF LateIfStale, TypeInv, TypeOK
<1>8. edits' \in Nat /\ faults' \in Nat
  BY DEF ReconcileRoleBinding, TypeInv, TypeOK, Fails, Return, Faulty, bounds
<1>9. PhaseOK'
  BY <1>5 DEF ReconcileRoleBinding, TypeInv, PhaseOK
<1>10. bindingLag' \in [Namespaces -> [Names -> Seq(RoleBinding \cup {None})]]
  <2> DEFINE twice == Append(Append(bindingLag[n][x], b), None)
  <2>1. \/ BindingsWritten
        \/ bindingLag' = [bindingLag EXCEPT ![n][x] = twice]
        \/ bindingLag' = bindingLag
    BY DEF ReconcileRoleBinding
  <2>2. bindingLag \in [Namespaces -> [Names -> Seq(RoleBinding \cup {None})]]
    BY DEF TypeInv, TypeOK
  <2>3. twice \in Seq(RoleBinding \cup {None})
    <3>1. bindingLag[n][x] \in Seq(RoleBinding \cup {None})
      BY <1>1, <2>2
    <3>2. Append(bindingLag[n][x], b) \in Seq(RoleBinding \cup {None})
      BY <1>2, <3>1, AppendProperties
    <3> QED BY <3>2, AppendProperties
  <2> DEFINE V == Seq(RoleBinding \cup {None})
  <2> HIDE DEF x, b, twice, V
  <2>4. [bindingLag EXCEPT ![n][x] = twice] \in [Namespaces -> [Names -> V]]
    BY <1>1, <2>2, <2>3, TableType DEF V
  <2> QED BY <2>1, <2>2, <2>4, BindingsWrittenType DEF V
<1>11. missed' \subseteq Instances \X Namespaces
  <2>1. missed' = missed \/ \E seen, live : missed' = Overlooked(n, seen, live)
    BY DEF ReconcileRoleBinding
  <2> QED BY <1>1, <2>1, OverlookedType
<1> QED BY <1>3, <1>5, <1>6, <1>7, <1>8, <1>9, <1>10, <1>11
  DEF ReconcileRoleBinding, TypeInv, TypeOK, AbsentOK, objects, env

LEMMA ListNamespacesType == TypeInv /\ ListNamespaces => TypeInv'
<1> SUFFICES ASSUME TypeInv, ListNamespaces PROVE TypeInv'
  OBVIOUS
<1>1. worker.cr \in Instances /\ NamespacesOf(worker.cr) \in SUBSET Namespaces
  BY NamespacesOfType DEF ListNamespaces, TypeInv, PhaseOK
<1>2. worker' \in WorkerState /\ (worker'.pc # "idle" => worker'.cr \in Instances)
  BY <1>1, IdleTypes, IdleFields
  DEF ListNamespaces, Fails, Return, TypeInv, TypeOK, WorkerState
<1>3. queued' \subseteq Instances
  BY <1>1 DEF ListNamespaces, Fails, Return, TypeInv, TypeOK
<1>4. edits' \in Nat /\ faults' \in Nat
  BY DEF ListNamespaces, TypeInv, TypeOK, Fails, Return, Faulty, bounds
<1>5. PhaseOK'
  BY <1>2 DEF ListNamespaces, TypeInv, PhaseOK
<1> QED BY <1>2, <1>3, <1>4, <1>5
  DEF ListNamespaces, TypeInv, TypeOK, AbsentOK, objects, access, env

LEMMA ReadSecretType == TypeInv /\ ReadSecret => TypeInv'
<1> SUFFICES ASSUME TypeInv, ReadSecret PROVE TypeInv'
  OBVIOUS
<1>1. worker.cr \in Instances /\ secretNs[worker.cr] \in ClusterSecret
  BY DEF ReadSecret, TypeInv, TypeOK, PhaseOK
<1>2. worker' \in WorkerState /\ (worker'.pc # "idle" => worker'.cr \in Instances)
  <2>1. \/ worker' = IdleWorker
        \/ worker' = [worker EXCEPT !.pc = "write", !.read = secretNs[worker.cr],
                                    !.fresh = TRUE]
    BY DEF ReadSecret, Fails, Return
  <2>2. worker \in WorkerState
    BY DEF TypeInv, TypeOK
  <2>3. CASE worker' = IdleWorker
    BY <2>3, IdleTypes, IdleFields
  <2>4. CASE worker' # IdleWorker
    BY <1>1, <2>1, <2>2, <2>4 DEF WorkerState
  <2> QED BY <2>3, <2>4
<1>3. queued' \subseteq Instances
  BY <1>1 DEF ReadSecret, Fails, Return, TypeInv, TypeOK
<1>4. edits' \in Nat /\ faults' \in Nat
  BY DEF ReadSecret, TypeInv, TypeOK, Fails, Return, Faulty, bounds
<1>5. PhaseOK'
  BY <1>2 DEF ReadSecret, TypeInv, PhaseOK
<1> QED BY <1>2, <1>3, <1>4, <1>5
  DEF ReadSecret, TypeInv, TypeOK, AbsentOK, objects, access, env

LEMMA WriteSecretType == TypeInv /\ WriteSecret => TypeInv'
<1> SUFFICES ASSUME TypeInv, WriteSecret PROVE TypeInv'
  OBVIOUS
<1> DEFINE a == worker.cr
           combined == combineClusterSecretNamespacesWithManagedNamespaces(
                         worker.read, worker.want)
<1>1. /\ a \in Instances /\ worker.read \in ClusterSecret
      /\ worker.want \in SUBSET Namespaces
  BY DEF WriteSecret, TypeInv, TypeOK, PhaseOK, WorkerState
<1>2. combined \in ClusterSecret
  BY <1>1, SecretTypes
  DEF combineClusterSecretNamespacesWithManagedNamespaces, ClusterSecret
<1>3. secretNs' \in [Instances -> ClusterSecret]
  BY <1>1, <1>2, SecretTypes DEF WriteSecret, TypeInv, TypeOK
<1>4. handler' \in HandlerState /\ handler'.pc = handler.pc /\ handler'.ev = handler.ev
  BY DEF WriteSecret, TypeInv, TypeOK, HandlerState
<1>5. worker' = IdleWorker
  BY DEF WriteSecret, Fails, Return
<1>6. queued' \subseteq Instances
  BY <1>1 DEF WriteSecret, Fails, Return, TypeInv, TypeOK
<1>7. edits' \in Nat /\ faults' \in Nat
  BY DEF WriteSecret, TypeInv, TypeOK, Fails, Return, Faulty, bounds
<1>8. PhaseOK'
  BY <1>4, <1>5 DEF WriteSecret, TypeInv, PhaseOK, IdleWorker
<1> QED BY <1>3, <1>4, <1>5, <1>6, <1>7, <1>8, IdleTypes
  DEF WriteSecret, TypeInv, TypeOK, AbsentOK, objects, access, env

LEMMA RemoveManagedByLabelType ==
  ASSUME NEW n \in Namespaces
  PROVE  TypeInv /\ RemoveManagedByLabel(n) => TypeInv'
<1> SUFFICES ASSUME TypeInv, RemoveManagedByLabel(n) PROVE TypeInv'
  OBVIOUS
<1> DEFINE w == [worker EXCEPT !.todo = @ \ {n}]
           done == [w EXCEPT !.pc = IF w.todo = {} THEN "finalize" ELSE "unlabel"]
<1>1. worker.cr \in Instances /\ worker \in WorkerState
  BY DEF RemoveManagedByLabel, TypeInv, TypeOK, PhaseOK
<1>2. done \in WorkerState /\ done.cr = worker.cr
  BY <1>1 DEF WorkerState
<1>3. worker' = done \/ worker' = IdleWorker
  BY DEF RemoveManagedByLabel, Return, Fails
<1>4. worker' \in WorkerState /\ (worker'.pc # "idle" => worker'.cr \in Instances)
  <2> HIDE DEF done
  <2> QED BY <1>1, <1>2, <1>3, IdleTypes, IdleFields
<1>5. label' \in [Namespaces -> Instances \cup {None}] /\ AbsentOK'
  BY DEF RemoveManagedByLabel, TypeInv, TypeOK, AbsentOK
<1>6. events' \in Seq(NsEvent)
  <2>1. CASE Notify(n, "update", worker.cr, None)
    BY <1>1, <2>1, NotifyType
  <2>2. CASE events' = events
    BY <2>2 DEF TypeInv, TypeOK
  <2> QED BY <2>1, <2>2 DEF RemoveManagedByLabel
<1>7. queued' \subseteq Instances
  BY <1>1 DEF RemoveManagedByLabel, Return, Fails, TypeInv, TypeOK
<1>8. edits' \in Nat /\ faults' \in Nat
  BY DEF RemoveManagedByLabel, TypeInv, TypeOK, Fails, Return, Faulty, bounds
<1>9. PhaseOK'
  BY <1>4 DEF RemoveManagedByLabel, TypeInv, PhaseOK
<1> QED BY <1>4, <1>5, <1>6, <1>7, <1>8, <1>9
  DEF RemoveManagedByLabel, TypeInv, TypeOK, access, env

LEMMA RemoveDeletionFinalizerType == TypeInv /\ RemoveDeletionFinalizer => TypeInv'
<1> SUFFICES ASSUME TypeInv, RemoveDeletionFinalizer PROVE TypeInv'
  OBVIOUS
<1> DEFINE a == worker.cr
<1>1. a \in Instances /\ a \in Namespaces
  BY ConstantsAssumption DEF RemoveDeletionFinalizer, TypeInv, PhaseOK
<1>2. cr' \in [Instances -> {"absent", "new", "present", "terminating"}]
  BY <1>1 DEF RemoveDeletionFinalizer, TypeInv, TypeOK
<1>3. role' \in [Namespaces -> [Names -> Instances \cup {None}]]
  <2> DEFINE row == [x \in Names |-> IF role[a][x] = a THEN None ELSE role[a][x]]
  <2>1. row \in [Names -> Instances \cup {None}]
    BY <1>1 DEF TypeInv, TypeOK
  <2>2. role' = role \/ role' = [role EXCEPT ![a] = row]
    BY DEF RemoveDeletionFinalizer
  <2> HIDE DEF row
  <2> QED BY <1>1, <2>1, <2>2 DEF TypeInv, TypeOK
<1>4. binding' \in [Namespaces -> [Names -> RoleBinding \cup {None}]]
  <2> DEFINE row == [x \in Names |-> LET b == binding[a][x] IN
                       IF b # None /\ b.creator = a THEN None ELSE b]
  <2>1. row \in [Names -> RoleBinding \cup {None}]
    BY <1>1 DEF TypeInv, TypeOK
  <2>2. binding' = binding \/ binding' = [binding EXCEPT ![a] = row]
    BY DEF RemoveDeletionFinalizer
  <2> HIDE DEF row
  <2> QED BY <1>1, <2>1, <2>2 DEF TypeInv, TypeOK
<1>5. secretNs' \in [Instances -> ClusterSecret]
  BY <1>1, SecretTypes DEF RemoveDeletionFinalizer, TypeInv, TypeOK
<1>6. handler' \in HandlerState /\ handler'.pc = handler.pc /\ handler'.ev = handler.ev
  BY DEF RemoveDeletionFinalizer, TypeInv, TypeOK, HandlerState
<1>7. worker' = IdleWorker
  BY DEF RemoveDeletionFinalizer, Fails, Return
<1>8. queued' \subseteq Instances
  BY <1>1 DEF RemoveDeletionFinalizer, Fails, Return, TypeInv, TypeOK
<1>9. edits' \in Nat /\ faults' \in Nat
  BY DEF RemoveDeletionFinalizer, TypeInv, TypeOK, Fails, Return, Faulty, bounds
<1>10. PhaseOK'
  BY <1>6, <1>7, IdleFields DEF RemoveDeletionFinalizer, TypeInv, PhaseOK
<1>11. /\ roleLag' \in [Namespaces -> [Names -> Seq(Instances \cup {None})]]
       /\ bindingLag' \in [Namespaces -> [Names -> Seq(RoleBinding \cup {None})]]
  BY RolesWrittenType, BindingsWrittenType DEF RemoveDeletionFinalizer
<1> QED BY <1>2, <1>3, <1>4, <1>5, <1>6, <1>7, <1>8, <1>9, <1>10, <1>11, IdleTypes
  DEF RemoveDeletionFinalizer, TypeInv, TypeOK, AbsentOK, env

-----------------------------------------------------------------------------
(* Users, the cluster, restarts.                                           *)

\* What a user does to a namespace.
LEMMA NamespaceEditType ==
  ASSUME NEW n \in Namespaces
  PROVE  TypeInv /\ (SetLabel(n) \/ DeleteNamespace(n) \/ CreateNamespace(n))
           => TypeInv'
<1> SUFFICES ASSUME TypeInv, SetLabel(n) \/ DeleteNamespace(n) \/ CreateNamespace(n)
             PROVE  TypeInv'
  OBVIOUS
<1>1. label[n] \in Instances \cup {None}
  BY DEF TypeInv, TypeOK
<1>2. label' \in [Namespaces -> Instances \cup {None}]
  BY DEF SetLabel, DeleteNamespace, CreateNamespace, TypeInv, TypeOK
<1>3. ns' \in [Namespaces -> {"active", "terminating", "absent"}]
  BY DEF SetLabel, DeleteNamespace, CreateNamespace, TypeInv, TypeOK
<1>4. AbsentOK'
  BY DEF SetLabel, DeleteNamespace, CreateNamespace, TypeInv, TypeOK, AbsentOK
<1>5. events' \in Seq(NsEvent)
  BY <1>1, NotifyType DEF SetLabel, DeleteNamespace, CreateNamespace
<1>6. edits' \in Nat /\ faults' \in Nat
  BY DEF SetLabel, DeleteNamespace, CreateNamespace, Edited, TypeInv, TypeOK
<1>7. UNCHANGED <<cr, enabled, access, queued, secretNs, env, handler, worker, late>>
  BY DEF SetLabel, DeleteNamespace, CreateNamespace, Edited
<1> QED BY <1>2, <1>3, <1>4, <1>5, <1>6, <1>7
  DEF TypeInv, TypeOK, PhaseOK, access, env

\* What a user does to a CR, and the resync.
LEMMA CREditType ==
  ASSUME NEW a \in Instances
  PROVE  TypeInv /\ (CreateCR(a) \/ DeleteCR(a) \/ EditCR(a) \/ Resync(a)) => TypeInv'
<1> SUFFICES ASSUME TypeInv, CreateCR(a) \/ DeleteCR(a) \/ EditCR(a) \/ Resync(a)
             PROVE  TypeInv'
  OBVIOUS
<1>1. cr' \in [Instances -> {"absent", "new", "present", "terminating"}]
  BY DEF CreateCR, DeleteCR, EditCR, Resync, objects, TypeInv, TypeOK
<1>2. enabled' \subseteq Instances /\ queued' \subseteq Instances
  BY DEF CreateCR, DeleteCR, EditCR, Resync, objects, TypeInv, TypeOK
<1>3. edits' \in Nat /\ faults' \in Nat
  BY DEF CreateCR, DeleteCR, EditCR, Resync, bounds, Edited, TypeInv, TypeOK
<1>4. UNCHANGED <<ns, label, access, events, secretNs, env, handler, worker, late>>
  BY DEF CreateCR, DeleteCR, EditCR, Resync, objects, Edited
<1> QED BY <1>1, <1>2, <1>3, <1>4
  DEF TypeInv, TypeOK, PhaseOK, AbsentOK, access, env

LEMMA NamespaceGoneType ==
  ASSUME NEW n \in Namespaces
  PROVE  TypeInv /\ NamespaceGone(n) => TypeInv'
<1> SUFFICES ASSUME TypeInv, NamespaceGone(n) PROVE TypeInv'
  OBVIOUS
<1>1. label[n] \in Instances \cup {None}
  BY DEF TypeInv, TypeOK
<1>2. events' \in Seq(NsEvent)
  BY <1>1, NotifyType DEF NamespaceGone
<1>3. label' \in [Namespaces -> Instances \cup {None}] /\ AbsentOK'
  BY DEF NamespaceGone, TypeInv, TypeOK, AbsentOK
<1>4. role' \in [Namespaces -> [Names -> Instances \cup {None}]]
  BY DEF NamespaceGone, TypeInv, TypeOK
<1>5. binding' \in [Namespaces -> [Names -> RoleBinding \cup {None}]]
  <2>1. [x \in Names |-> None] \in [Names -> RoleBinding \cup {None}]
    OBVIOUS
  <2> QED BY <2>1 DEF NamespaceGone, TypeInv, TypeOK
<1>6. /\ roleLag' \in [Namespaces -> [Names -> Seq(Instances \cup {None})]]
      /\ bindingLag' \in [Namespaces -> [Names -> Seq(RoleBinding \cup {None})]]
  BY RolesWrittenType, BindingsWrittenType DEF NamespaceGone
<1> QED BY <1>2, <1>3, <1>4, <1>5, <1>6
  DEF NamespaceGone, TypeInv, TypeOK, PhaseOK, env, bounds

LEMMA RestartType == TypeInv /\ Restart => TypeInv'
<1> SUFFICES ASSUME TypeInv, Restart PROVE TypeInv'
  OBVIOUS
<1>1. handler' \in HandlerState /\ worker' \in WorkerState
  BY IdleTypes DEF Restart
<1>2. PhaseOK'
  BY IdleFields DEF Restart, PhaseOK
<1>3. late' \subseteq Instances \X Namespaces
  BY LeftoverType DEF Restart, TypeInv, TypeOK
<1>4. customRole' \in BOOLEAN /\ clusterConfig' \subseteq Instances
  BY ConstantsAssumption DEF Restart
<1>5. events' \in Seq(NsEvent)
  BY EmptySeq DEF Restart
<1>6. edits' \in Nat /\ faults' \in Nat
  BY DEF Restart, Faulty, TypeInv, TypeOK
<1>7. /\ roleLag' \in [Namespaces -> [Names -> Seq(Instances \cup {None})]]
      /\ bindingLag' \in [Namespaces -> [Names -> Seq(RoleBinding \cup {None})]]
  BY NoLagType DEF Restart
<1> QED BY <1>1, <1>2, <1>3, <1>4, <1>5, <1>6, <1>7
  DEF Restart, TypeInv, TypeOK, AbsentOK, objects

-----------------------------------------------------------------------------
(* The cache.                                                              *)

\* Delivered versions leave the backlog; owners of objects are queued.
LEMMA InformerType == TypeInv /\ InformerStep => TypeInv'
<1> SUFFICES ASSUME TypeInv, NEW n \in Namespaces, NEW x \in Names,
                    RoleDelivered(n, x) \/ BindingDelivered(n, x)
             PROVE  TypeInv'
  BY DEF InformerStep
<1>1. ASSUME NEW V, NEW lag \in [Namespaces -> [Names -> Seq(V)]], lag[n][x] # <<>>
      PROVE  [lag EXCEPT ![n][x] = Tail(@)] \in [Namespaces -> [Names -> Seq(V)]]
  <2>1. Tail(lag[n][x]) \in Seq(V)
    BY <1>1, HeadTailProperties
  <2> QED BY <2>1
<1>2. queued' \subseteq Instances
  BY OwnerType DEF RoleDelivered, BindingDelivered, TypeInv, TypeOK
<1>3. /\ roleLag' \in [Namespaces -> [Names -> Seq(Instances \cup {None})]]
      /\ bindingLag' \in [Namespaces -> [Names -> Seq(RoleBinding \cup {None})]]
  <2>1. CASE RoleDelivered(n, x)
    <3> DEFINE V == Instances \cup {None}
    <3>1. roleLag \in [Namespaces -> [Names -> Seq(V)]]
      BY DEF TypeInv, TypeOK
    <3> HIDE DEF V
    <3>2. roleLag' \in [Namespaces -> [Names -> Seq(V)]]
      BY <1>1, <2>1, <3>1 DEF RoleDelivered
    <3> QED BY <2>1, <3>2 DEF V, RoleDelivered, TypeInv, TypeOK
  <2>2. CASE BindingDelivered(n, x)
    <3> DEFINE V == RoleBinding \cup {None}
    <3>1. bindingLag \in [Namespaces -> [Names -> Seq(V)]]
      BY DEF TypeInv, TypeOK
    <3> HIDE DEF V
    <3>2. bindingLag' \in [Namespaces -> [Names -> Seq(V)]]
      BY <1>1, <2>2, <3>1 DEF BindingDelivered
    <3> QED BY <2>2, <3>2 DEF V, BindingDelivered, TypeInv, TypeOK
  <2> QED BY <2>1, <2>2
<1>4. UNCHANGED <<objects, role, binding, missed, secretNs, env, events, handler,
                  worker, late, bounds>>
  BY DEF RoleDelivered, BindingDelivered
<1> QED BY <1>2, <1>3, <1>4
  DEF TypeInv, TypeOK, PhaseOK, AbsentOK, objects, env, bounds

-----------------------------------------------------------------------------
\* Every step keeps the types.
LEMMA TypeInvStep == TypeInv /\ [Next]_vars => TypeInv'
<1> SUFFICES ASSUME TypeInv, [Next]_vars PROVE TypeInv'
  OBVIOUS
<1>1. CASE HandlerStep
  BY <1>1, HandlerTakesType, DeleteRolesType, DeleteRoleBindingsType,
     HandlerReadsSecretType, HandlerWritesSecretType, HandlerEnqueuesType
  DEF HandlerStep
<1>2. CASE WorkerStep
  BY <1>2, ReleaseTerminatingType, ReconcileRoleType, ReconcileRoleBindingType,
     RemoveManagedByLabelType, ListNamespacesType, ReadSecretType, WriteSecretType,
     RemoveDeletionFinalizerType
  DEF WorkerStep
<1>3. CASE \E a \in Instances : Reconcile(a)
  BY <1>3, ReconcileType
<1>4. CASE Environment
  BY <1>4, NamespaceEditType, CREditType, NamespaceGoneType, RestartType,
     ConstantsAssumption
  DEF Environment
<1>5. CASE UNCHANGED vars
  BY <1>5 DEF vars, objects, access, env, bounds, TypeInv, TypeOK, PhaseOK, AbsentOK
<1> QED BY <1>1, <1>2, <1>3, <1>4, <1>5, InformerType DEF Next

\* The variables keep their types: the owners that the handler and the worker
\* work for are instances, the events are events of namespaces, and what is
\* queued is an instance, not a namespace without the label.
THEOREM ManagedTypeCorrect == Spec => []TypeOK
<1>1. Spec => []TypeInv
  BY InitTypeInv, TypeInvStep, PTL DEF Spec
<1>2. TypeInv => TypeOK
  BY DEF TypeInv
<1> QED BY <1>1, <1>2, PTL

-----------------------------------------------------------------------------
(* Access that outlives the label.                                         *)

\* What takes access away stays pending while the handler does not move.
LEMMA PendingKept ==
  ASSUME TypeInv, NEW e,
         events' = events \/ (e \in NsEvent /\ events' = Append(events, e)),
         handler'.pc = handler.pc, handler'.ev = handler.ev
  PROVE  \A n \in Namespaces : Pending(n) => Pending(n)'
<1> SUFFICES ASSUME NEW n \in Namespaces, Pending(n) PROVE Pending(n)'
  OBVIOUS
<1>1. CASE handler.ev.n = n /\ handler.pc \in {"roles", "bindings"}
  BY <1>1 DEF Pending
<1>2. CASE \E i \in 1..Len(events) :
             events[i].n = n /\ events[i].op = "update"
               /\ events[i].old # None /\ events[i].old # events[i].new
  <2>1. PICK i \in 1..Len(events) :
          events[i].n = n /\ events[i].op = "update"
            /\ events[i].old # None /\ events[i].old # events[i].new
    BY <1>2
  <2>2. i \in 1..Len(events') /\ events'[i] = events[i]
    <3>1. events \in Seq(NsEvent)
      BY DEF TypeInv, TypeOK
    <3>2. CASE events' = events
      BY <2>1, <3>2
    <3>3. CASE e \in NsEvent /\ events' = Append(events, e)
      <4>1. /\ Len(Append(events, e)) = Len(events) + 1
            /\ \A k \in 1..Len(events) : Append(events, e)[k] = events[k]
        BY <3>1, <3>3, AppendProperties
      <4> QED BY <2>1, <3>1, <3>3, <4>1, LenProperties
    <3> QED BY <3>2, <3>3
  <2> QED BY <2>1, <2>2 DEF Pending
<1> QED BY <1>1, <1>2 DEF Pending

\* The event of a label that no longer names its instance is pending.
LEMMA PendingNew ==
  ASSUME TypeInv, NEW n \in Namespaces, NEW old \in Instances,
         NEW new \in Instances \cup {None}, old # new,
         Notify(n, "update", old, new)
  PROVE  Pending(n)'
<1> DEFINE e == [n |-> n, old |-> old, new |-> new, op |-> "update"]
<1>1. e \in NsEvent
  BY DEF NsEvent
<1>2. Len(events') \in 1..Len(events') /\ events'[Len(events')] = e
  BY <1>1, AppendProperties, LenProperties DEF Notify, TypeInv, TypeOK
<1>3. old # None
  BY ConstantsAssumption
<1> QED BY <1>2, <1>3 DEF Pending

\* Who has leftover access.
LEMMA LeftoverMember ==
  \A n \in Namespaces : \A bs : \A p :
    p \in Leftover(n, bs) <=>
      \E i \in Instances :
        /\ p = <<i, n>> /\ i # n /\ label[n] # i
        /\ \E x \in Names : bs[x] # None /\ bs[x].subject = i
BY DEF Leftover

\* The same, after a step.
LEMMA LeftoverMember2 ==
  \A n \in Namespaces : \A p :
    p \in Leftover(n, binding[n])' <=>
      \E i \in Instances :
        /\ p = <<i, n>> /\ i # n /\ label'[n] # i
        /\ \E x \in Names : binding'[n][x] # None /\ binding'[n][x].subject = i
BY DEF Leftover

\* Fewer RoleBindings, the same label or a first one: no more leftover access.
LEMMA LeftoverShrinks ==
  ASSUME NEW n \in Namespaces,
         label'[n] = label[n] \/ label[n] = None,
         \A x \in Names : binding'[n][x] = binding[n][x] \/ binding'[n][x] = None
  PROVE  Leftover(n, binding[n])' \subseteq Leftover(n, binding[n])
<1> SUFFICES ASSUME NEW p \in Leftover(n, binding[n])'
             PROVE  p \in Leftover(n, binding[n])
  OBVIOUS
<1>1. PICK i \in Instances :
        /\ p = <<i, n>> /\ i # n /\ label'[n] # i
        /\ \E x \in Names : binding'[n][x] # None /\ binding'[n][x].subject = i
  BY LeftoverMember2
<1>2. label[n] # i
  BY <1>1, ConstantsAssumption
<1> QED BY <1>1, <1>2, LeftoverMember

\* A step keeps the property if nothing pending is lost and new leftover access
\* is pending or on record.
LEMMA KeepsRevoked ==
  ASSUME RevokedUnlessLate, late \subseteq late',
         \A n \in Namespaces : Pending(n) => Pending(n)',
         \A n \in Namespaces :
           \/ Pending(n)'
           \/ Leftover(n, binding[n])' \subseteq Leftover(n, binding[n]) \cup late'
  PROVE  RevokedUnlessLate'
BY DEF RevokedUnlessLate

\* Steps that change neither labels nor RoleBindings, nor move the handler.
LEMMA QuietStep ==
  ASSUME TypeInv, RevokedUnlessLate, NEW e,
         UNCHANGED <<label, binding, late>>,
         events' = events \/ (e \in NsEvent /\ events' = Append(events, e)),
         handler'.pc = handler.pc, handler'.ev = handler.ev
  PROVE  RevokedUnlessLate'
<1>1. \A n \in Namespaces : Pending(n) => Pending(n)'
  BY PendingKept
<1>2. \A n \in Namespaces : Leftover(n, binding[n])' \subseteq Leftover(n, binding[n])
  BY LeftoverShrinks
<1> QED BY <1>1, <1>2, KeepsRevoked

\* Every step of the handler: access is pending until the handler has taken it
\* away or has failed to.
LEMMA HandlerRevokes == TypeInv /\ RevokedUnlessLate /\ HandlerStep => RevokedUnlessLate'
<1> SUFFICES ASSUME TypeInv, RevokedUnlessLate, HandlerStep PROVE RevokedUnlessLate'
  OBVIOUS
<1>1. ASSUME UNCHANGED <<label, binding>>
      PROVE  \A n \in Namespaces : Leftover(n, binding[n])' = Leftover(n, binding[n])
  BY <1>1 DEF Leftover
<1>2. CASE HandlerTakes
  <2>1. UNCHANGED <<label, binding, late>>
    BY <1>2 DEF HandlerTakes, objects, access
  <2> DEFINE ev == Head(events)
             Hits(e, n) == e.n = n /\ e.op = "update" /\ e.old # None /\ e.old # e.new
  <2>2. /\ events \in Seq(NsEvent) /\ events # <<>>
        /\ ev = events[1] /\ events' = Tail(events)
        /\ Len(events') = Len(events) - 1
        /\ \A i \in 1..Len(events') : events'[i] = events[i + 1]
    BY <1>2, HeadTailProperties DEF HandlerTakes, TypeInv, TypeOK
  <2>3. ASSUME NEW n \in Namespaces, Pending(n) PROVE Pending(n)'
    <3>1. PICK i \in 1..Len(events) : Hits(events[i], n)
      BY <1>2, <2>3 DEF HandlerTakes, Pending
    <3>2. CASE i = 1
      <4>1. LosesOwner(ev) /\ ev.n = n
        BY <2>2, <3>1, <3>2 DEF LosesOwner
      <4>2. handler'.ev = ev /\ handler'.pc = "roles"
        BY <1>2, <4>1 DEF HandlerTakes, IdleHandler
      <4> QED BY <4>1, <4>2 DEF Pending
    <3>3. CASE i # 1
      <4>1. i - 1 \in 1..Len(events') /\ events'[i - 1] = events[i]
        BY <2>2, <3>1, <3>3, LenProperties
      <4> QED BY <3>1, <4>1 DEF Pending
    <3> QED BY <3>2, <3>3
  <2> QED BY <1>1, <2>1, <2>3, KeepsRevoked
<1>3. CASE DeleteRoles
  <2>1. UNCHANGED <<label, binding, events>> /\ handler'.ev = handler.ev
    BY <1>3 DEF DeleteRoles, objects, TypeInv, TypeOK, HandlerState
  <2>2. CASE handler' = [handler EXCEPT !.pc = "bindings"] /\ late' = late
    <3>1. handler'.pc = "bindings"
      BY <2>2 DEF TypeInv, TypeOK, HandlerState
    <3>2. \A n \in Namespaces : Pending(n) => Pending(n)'
      BY <1>3, <2>1, <3>1 DEF Pending, DeleteRoles
    <3> QED BY <1>1, <2>1, <2>2, <3>2, KeepsRevoked
  <2>3. CASE late' = late \cup Leftover(handler.ev.n, binding[handler.ev.n])
    <3>1. \A n \in Namespaces : n # handler.ev.n /\ Pending(n) => Pending(n)'
      BY <2>1 DEF Pending
    <3> QED BY <1>1, <2>1, <2>3, <3>1 DEF RevokedUnlessLate
  <2> QED BY <1>3, <2>2, <2>3 DEF DeleteRoles
<1>4. CASE DeleteRoleBindings
  <2> DEFINE k == handler.ev.n
  <2>1. /\ UNCHANGED <<label, events>> /\ handler'.ev = handler.ev
        /\ k \in Namespaces
    BY <1>4 DEF DeleteRoleBindings, objects, TypeInv, TypeOK, PhaseOK, HandlerState,
                NsEvent
  <2>2. \A n \in Namespaces : n # k /\ Pending(n) => Pending(n)'
    BY <2>1 DEF Pending
  <2>3. PICK kept \in SUBSET Names :
           /\ binding' = [binding EXCEPT ![k] = Kept(binding[k], kept)]
           /\ late' = {p \in late : p[2] # k}
                        \cup Leftover(k, Kept(binding[k], kept))
    BY <1>4 DEF DeleteRoleBindings
  <2>4. ASSUME NEW n \in Namespaces, n # k, ~Pending(n)'
        PROVE  Leftover(n, binding[n])' \subseteq late'
    <3>1. binding'[n] = binding[n]
      BY <2>3, <2>4 DEF TypeInv, TypeOK
    <3>2. Leftover(n, binding[n])' = Leftover(n, binding[n])
      BY <2>1, <3>1 DEF Leftover
    <3>3. Leftover(n, binding[n]) \subseteq late
      BY <2>2, <2>4 DEF RevokedUnlessLate
    <3>4. \A p \in Leftover(n, binding[n]) : p[2] = n
      BY DEF Leftover
    <3> QED BY <2>3, <2>4, <3>2, <3>3, <3>4
  <2>5. Leftover(k, binding[k])' \subseteq late'
    <3>1. binding'[k] = Kept(binding[k], kept)
      BY <2>1, <2>3 DEF TypeInv, TypeOK
    <3>2. Leftover(k, binding[k])' = Leftover(k, Kept(binding[k], kept))
      BY <2>1, <3>1 DEF Leftover
    <3> QED BY <2>3, <3>2
  <2> QED BY <2>1, <2>4, <2>5 DEF RevokedUnlessLate
<1>5. CASE HandlerReadsSecret \/ HandlerWritesSecret \/ HandlerEnqueues
  <2>1. UNCHANGED <<label, binding, late, events>>
    BY <1>5 DEF HandlerReadsSecret, HandlerWritesSecret, HandlerEnqueues, objects, access
  <2>2. \A n \in Namespaces : Pending(n) => Pending(n)'
    BY <1>5, <2>1 DEF HandlerReadsSecret, HandlerWritesSecret, HandlerEnqueues, Pending
  <2> QED BY <1>1, <2>1, <2>2, KeepsRevoked
<1> QED BY <1>2, <1>3, <1>4, <1>5 DEF HandlerStep

\* A label that changes to v: what it may leave behind is pending.
LEMMA RelabelRevokes ==
  ASSUME TypeInv, RevokedUnlessLate, NEW n \in Namespaces,
         NEW v \in Instances \cup {None}, v # label[n],
         label' = [label EXCEPT ![n] = v], Notify(n, "update", label[n], v),
         UNCHANGED <<binding, late, handler>>
  PROVE  RevokedUnlessLate'
<1> DEFINE e == [n |-> n, old |-> label[n], new |-> v, op |-> "update"]
<1>1. label[n] \in Instances \cup {None} /\ e \in NsEvent
  BY DEF TypeInv, TypeOK, NsEvent
<1>2. \A m \in Namespaces : Pending(m) => Pending(m)'
  BY <1>1, PendingKept DEF Notify
<1>3. label[n] # None => Pending(n)'
  BY <1>1, PendingNew
<1>4. \A m \in Namespaces : m # n => label'[m] = label[m]
  BY DEF TypeInv, TypeOK
<1>5. ASSUME NEW m \in Namespaces
      PROVE  \/ Pending(m)'
             \/ Leftover(m, binding[m])' \subseteq Leftover(m, binding[m]) \cup late'
  BY <1>3, <1>4, LeftoverShrinks
<1> QED BY <1>2, <1>5, KeepsRevoked

\* The worker removes labels, removes RoleBindings, and gives access; what it
\* gives with a stale list is pending, or on record.
LEMMA ReconcileRoleBindingRevokes ==
  ASSUME NEW n \in Namespaces
  PROVE  TypeInv /\ RevokedUnlessLate /\ ReconcileRoleBinding(n) => RevokedUnlessLate'
<1> SUFFICES ASSUME TypeInv, RevokedUnlessLate, ReconcileRoleBinding(n)
             PROVE  RevokedUnlessLate'
  OBVIOUS
<1> DEFINE a == worker.cr
           y == CRName[a]
<1>1. a \in Instances /\ y \in Names
  BY ConstantsAssumption DEF ReconcileRoleBinding, TypeInv, PhaseOK
<1>2. UNCHANGED <<label, events, handler>>
  BY DEF ReconcileRoleBinding, objects
<1>3. \A m \in Namespaces : Pending(m) <=> Pending(m)'
  BY <1>2 DEF Pending
<1>4. binding[n][y] \in RoleBinding \cup {None}
  BY <1>1 DEF TypeInv, TypeOK
<1>5. /\ \A m \in Namespaces, x \in Names :
           <<m, x>> # <<n, y>> => binding'[m][x] = binding[m][x]
      /\ \/ binding'[n][y] \in {None, binding[n][y]} /\ late' = late
         \/ binding'[n][y].subject = a /\ late' = LateIfStale(a, n)
  <2> DEFINE Written(v) == binding' = [binding EXCEPT ![n][y] = v]
             new == [creator |-> a, subject |-> a, ref |-> RoleRef]
             changed == [binding[n][y] EXCEPT !.subject = a]
  <2>1. \/ Written(new) /\ late' = LateIfStale(a, n)
        \/ Written(None) /\ late' = late
        \/ binding[n][y] # None /\ Written(changed) /\ late' = LateIfStale(a, n)
        \/ binding' = binding /\ late' = late
    <3>1. bindingLag[n][y] = <<>> => Seen(bindingLag, binding, n, y) = binding[n][y]
      BY <1>1, SeenUpToDate
    <3> QED BY <3>1 DEF ReconcileRoleBinding
  <2>2. new.subject = a /\ (binding[n][y] # None => changed.subject = a)
    BY <1>4 DEF RoleBinding
  <2>3. ASSUME NEW v, Written(v)
        PROVE  /\ binding'[n][y] = v
               /\ \A m \in Namespaces, x \in Names :
                    <<m, x>> # <<n, y>> => binding'[m][x] = binding[m][x]
    BY <1>1, <2>3 DEF TypeInv, TypeOK
  <2> HIDE DEF new, changed, Written
  <2> QED BY <2>1, <2>2, <2>3
<1>6. late \subseteq late'
  BY <1>5 DEF LateIfStale
<1>7. ASSUME NEW m \in Namespaces, ~Pending(m)'
      PROVE  Leftover(m, binding[m])' \subseteq Leftover(m, binding[m]) \cup late'
  <2>1. CASE m # n \/ (binding'[n][y] \in {None, binding[n][y]} /\ late' = late)
    BY <1>1, <1>2, <1>5, <2>1, LeftoverShrinks
  <2>2. CASE m = n /\ binding'[n][y].subject = a /\ late' = LateIfStale(a, n)
    <3> SUFFICES ASSUME NEW p \in Leftover(n, binding[n])'
                 PROVE  p \in Leftover(n, binding[n]) \cup late'
      BY <2>2
    <3>1. PICK i \in Instances :
            /\ p = <<i, n>> /\ i # n /\ label'[n] # i
            /\ \E x \in Names : binding'[n][x] # None /\ binding'[n][x].subject = i
      BY LeftoverMember2
    <3>2. PICK x \in Names : binding'[n][x] # None /\ binding'[n][x].subject = i
      BY <3>1
    <3>3. CASE x = y
      <4>1. i = a /\ a # n /\ label[n] # a /\ ~Pending(n)
        BY <1>2, <1>3, <1>7, <2>2, <3>1, <3>2, <3>3
      <4> QED BY <2>2, <3>1, <4>1 DEF LateIfStale
    <3>4. CASE x # y
      <4>1. binding[n][x] # None /\ binding[n][x].subject = i
        BY <1>5, <3>2, <3>4
      <4> QED BY <1>2, <3>1, <4>1, LeftoverMember
    <3> QED BY <3>3, <3>4
  <2> QED BY <1>5, <2>1, <2>2
<1> QED BY <1>3, <1>6, <1>7, KeepsRevoked

LEMMA WorkerRevokes ==
  TypeInv /\ RevokedUnlessLate /\ (WorkerStep \/ \E a \in Instances : Reconcile(a))
    => RevokedUnlessLate'
<1> SUFFICES ASSUME TypeInv, RevokedUnlessLate,
                    WorkerStep \/ \E a \in Instances : Reconcile(a)
             PROVE  RevokedUnlessLate'
  OBVIOUS
<1>1. ASSUME UNCHANGED <<label, binding, late, events>>,
             handler'.pc = handler.pc, handler'.ev = handler.ev
      PROVE  RevokedUnlessLate'
  BY <1>1, QuietStep
<1>2. CASE \E a \in Instances : Reconcile(a)
  BY <1>1, <1>2 DEF Reconcile
<1>3. ASSUME NEW n \in Namespaces, ReleaseTerminating(n) PROVE RevokedUnlessLate'
  <2>1. worker.cr \in Instances
    BY <1>3 DEF ReleaseTerminating, TypeInv, PhaseOK
  <2>2. UNCHANGED <<binding, late, handler>>
    BY <1>3 DEF ReleaseTerminating, access
  <2>3. CASE label' = label /\ events' = events
    BY <1>1, <2>2, <2>3
  <2>4. CASE label[n] = worker.cr /\ label' = [label EXCEPT ![n] = None]
               /\ Notify(n, "update", label[n], None)
    <3>1. None # label[n] /\ Notify(n, "update", label[n], None)
      BY <2>1, <2>4, ConstantsAssumption
    <3> QED BY <2>2, <2>4, <3>1, RelabelRevokes
  <2> QED BY <1>3, <2>3, <2>4 DEF ReleaseTerminating
<1>4. ASSUME NEW n \in Namespaces, RemoveManagedByLabel(n) PROVE RevokedUnlessLate'
  <2>1. worker.cr \in Instances
    BY <1>4 DEF RemoveManagedByLabel, TypeInv, PhaseOK
  <2>2. UNCHANGED <<binding, late, handler>>
    BY <1>4 DEF RemoveManagedByLabel, access
  <2>3. CASE label' = label /\ events' = events
    BY <1>1, <2>2, <2>3
  <2>4. CASE label[n] = worker.cr /\ label' = [label EXCEPT ![n] = None]
               /\ Notify(n, "update", worker.cr, None)
    <3>1. None # label[n] /\ Notify(n, "update", label[n], None)
      BY <2>1, <2>4, ConstantsAssumption
    <3> QED BY <2>2, <2>4, <3>1, RelabelRevokes
  <2> QED BY <1>4, <2>3, <2>4 DEF RemoveManagedByLabel
<1>5. ASSUME NEW n \in Namespaces, ReconcileRole(n) PROVE RevokedUnlessLate'
  BY <1>1, <1>5 DEF ReconcileRole, objects
<1>6. CASE ListNamespaces \/ ReadSecret
  BY <1>1, <1>6 DEF ListNamespaces, ReadSecret, objects, access
<1>7. CASE WriteSecret
  <2>1. handler'.pc = handler.pc /\ handler'.ev = handler.ev
    BY <1>7 DEF WriteSecret, TypeInv, TypeOK, HandlerState
  <2> QED BY <1>1, <1>7, <2>1 DEF WriteSecret, objects, access
<1>8. CASE RemoveDeletionFinalizer
  <2>1. handler'.pc = handler.pc /\ handler'.ev = handler.ev
    BY <1>8 DEF RemoveDeletionFinalizer, TypeInv, TypeOK, HandlerState
  <2>2. UNCHANGED <<label, late, events>>
    BY <1>8 DEF RemoveDeletionFinalizer
  <2>3. \A n \in Namespaces : Pending(n) => Pending(n)'
    BY <2>1, <2>2 DEF Pending
  <2>4. \A n \in Namespaces, x \in Names :
          binding'[n][x] = binding[n][x] \/ binding'[n][x] = None
    <3> DEFINE a == worker.cr
               row == [x \in Names |-> LET b == binding[a][x] IN
                         IF b # None /\ b.creator = a THEN None ELSE b]
    <3>1. binding' = binding \/ binding' = [binding EXCEPT ![a] = row]
      BY <1>8 DEF RemoveDeletionFinalizer
    <3>2. binding \in [Namespaces -> [Names -> RoleBinding \cup {None}]]
      BY DEF TypeInv, TypeOK
    <3> QED BY <3>1, <3>2
  <2> QED BY <2>2, <2>3, <2>4, LeftoverShrinks, KeepsRevoked
<1> QED BY <1>2, <1>3, <1>4, <1>5, <1>6, <1>7, <1>8, ReconcileRoleBindingRevokes
  DEF WorkerStep

\* Users change labels; namespaces come and go; a restart forgets what was
\* pending, and puts it on record.
LEMMA EnvironmentRevokes ==
  TypeInv /\ RevokedUnlessLate /\ Environment => RevokedUnlessLate'
<1> SUFFICES ASSUME TypeInv, RevokedUnlessLate, Environment PROVE RevokedUnlessLate'
  OBVIOUS
<1>1. ASSUME NEW n \in Labelled, SetLabel(n) PROVE RevokedUnlessLate'
  BY <1>1, RelabelRevokes, ConstantsAssumption DEF SetLabel, Edited, access
<1>2. ASSUME NEW n \in Labelled, DeleteNamespace(n) \/ CreateNamespace(n)
      PROVE  RevokedUnlessLate'
  <2>1. n \in Namespaces /\ label[n] \in Instances \cup {None}
    BY ConstantsAssumption DEF TypeInv, TypeOK
  <2>2. UNCHANGED <<binding, late, handler>>
    BY <1>2 DEF DeleteNamespace, CreateNamespace, Edited, access
  <2>3. PICK e \in NsEvent : events' = Append(events, e)
    BY <1>2, <2>1 DEF DeleteNamespace, CreateNamespace, Notify, NsEvent
  <2>4. \A m \in Namespaces : Pending(m) => Pending(m)'
    BY <2>2, <2>3, PendingKept
  <2>5. \A m \in Namespaces : label'[m] = label[m] \/ label[m] = None
    BY <1>2, <2>1 DEF DeleteNamespace, CreateNamespace, TypeInv, TypeOK, AbsentOK
  <2> QED BY <2>2, <2>4, <2>5, LeftoverShrinks, KeepsRevoked
<1>3. ASSUME NEW a \in Instances,
             CreateCR(a) \/ DeleteCR(a) \/ EditCR(a) \/ Resync(a)
      PROVE  RevokedUnlessLate'
  <2>1. UNCHANGED <<label, binding, late, events, handler>>
    BY <1>3 DEF CreateCR, DeleteCR, EditCR, Resync, Edited, objects, access
  <2> QED BY <2>1, QuietStep
<1>4. ASSUME NEW n \in Namespaces, NamespaceGone(n) PROVE RevokedUnlessLate'
  <2>1. label[n] \in Instances \cup {None} /\ UNCHANGED <<late, handler>>
    BY <1>4 DEF NamespaceGone, TypeInv, TypeOK
  <2>2. PICK e \in NsEvent : events' = Append(events, e)
    BY <1>4, <2>1 DEF NamespaceGone, Notify, NsEvent
  <2>3. \A m \in Namespaces : Pending(m) => Pending(m)'
    BY <2>1, <2>2, PendingKept
  <2>4. ASSUME NEW m \in Namespaces
        PROVE  Leftover(m, binding[m])' \subseteq Leftover(m, binding[m])
    <3>1. CASE m # n
      <4>1. label'[m] = label[m] /\ binding'[m] = binding[m]
        BY <1>4, <3>1 DEF NamespaceGone, TypeInv, TypeOK
      <4> QED BY <4>1, LeftoverShrinks
    <3>2. CASE m = n
      <4>1. \A x \in Names : binding'[n][x] = None
        BY <1>4 DEF NamespaceGone, TypeInv, TypeOK
      <4>2. Leftover(n, binding[n])' = {}
        BY <4>1 DEF Leftover
      <4> QED BY <3>2, <4>2
    <3> QED BY <3>1, <3>2
  <2> QED BY <2>1, <2>3, <2>4, KeepsRevoked
<1>5. CASE Restart
  <2>1. \A n \in Namespaces : Leftover(n, binding[n])' = Leftover(n, binding[n])
    BY <1>5 DEF Restart, objects, Leftover
  <2> QED BY <1>5, <2>1 DEF Restart, RevokedUnlessLate
<1> QED BY <1>1, <1>2, <1>3, <1>4, <1>5, ConstantsAssumption DEF Environment

\* Access outlives the label only while the event that takes it away is pending,
\* or because a call of the handler failed, the operator restarted, or the worker
\* gave it after the event was handled: there is no fourth way, for any number
\* of instances, namespaces and CR names.
THEOREM AccessRevoked == Spec => []RevokedUnlessLate
<1>1. Init => RevokedUnlessLate
  <2> SUFFICES ASSUME Init PROVE RevokedUnlessLate
    OBVIOUS
  <2>1. \A n \in Namespaces, x \in Names :
          binding[n][x] # None => binding[n][x].subject = n
    BY DEF Init
  <2> QED BY <2>1, LeftoverMember DEF RevokedUnlessLate
<1>2. TypeInv /\ RevokedUnlessLate /\ [Next]_vars => RevokedUnlessLate'
  <2> SUFFICES ASSUME TypeInv, RevokedUnlessLate, [Next]_vars
               PROVE  RevokedUnlessLate'
    OBVIOUS
  <2>1. CASE UNCHANGED vars
    BY <2>1 DEF vars, objects, access, RevokedUnlessLate, Pending, Leftover
  <2>2. CASE InformerStep
    BY <2>2, QuietStep DEF InformerStep, RoleDelivered, BindingDelivered, objects
  <2> QED BY <2>1, <2>2, HandlerRevokes, WorkerRevokes, EnvironmentRevokes DEF Next
<1> QED BY <1>1, <1>2, InitTypeInv, TypeInvStep, PTL DEF Spec

=============================================================================
