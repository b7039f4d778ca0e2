------------------------- MODULE ManagedNamespaces -------------------------
(***************************************************************************)
(* The argocd.argoproj.io/managed-by label of a namespace names the Argo   *)
(* CD instance (by its namespace) that may manage it.  The label is what a *)
(* user writes; what gives the instance access is a Role and a RoleBinding *)
(* in the namespace and an entry in the instance's cluster secret.  Two    *)
(* goroutines keep them in step, without a lock between them:              *)
(*   - the controller's worker reconciles one ArgoCD CR at a time and      *)
(*     gives access, from the list of namespaces it read at the beginning  *)
(*     (r.ManagedNamespaces);                                              *)
(*   - the informer's handler runs namespaceFilterPredicate on each event  *)
(*     of a namespace, takes access away, and then queues the instances    *)
(*     that namespaceResourceMapper names.                                 *)
(* The worker reads Roles and RoleBindings from the informers' cache,      *)
(* which is behind the API server, while the handler deletes them there.   *)
(* The Role/RoleBinding pair modelled is the application controller's; the *)
(* other components' pairs go through the same functions.                  *)
(***************************************************************************)
EXTENDS Naturals, Sequences, FiniteSets

CONSTANTS
  Instances,    \* Argo CD instances, each called after its own namespace
  Namespaces,   \* every namespace, the instances' own included
  Names,        \* names of ArgoCD CRs: Roles are called after them
  CRName,       \* the name of each instance's CR
  Labelled,     \* namespaces whose label users edit
  Editable,     \* instances whose CR users create, edit and delete
  Environments, \* the operator's environments over restarts: is
                \* CONTROLLER_CLUSTER_ROLE set, which instances are in
                \* ARGOCD_CLUSTER_CONFIG_NAMESPACES
  RemoveLabel,  \* REMOVE_MANAGED_BY_LABEL_ON_ARGOCD_DELETION
  None,         \* absence: of a label, a Role, a RoleBinding, an instance
  Blank,        \* the empty string, as an element of a list of namespaces
  MaxLag,       \* bound: versions the cache is behind when an object is written
  MaxEdits,     \* bound: changes by users
  MaxFaults     \* bound: failing API calls and restarts

ASSUME ConstantsAssumption ==
  /\ Instances \subseteq Namespaces /\ Labelled \subseteq Namespaces
  /\ Editable \subseteq Instances
  /\ CRName \in [Instances -> Names]
  /\ Environments \subseteq BOOLEAN \X SUBSET Instances /\ Environments # {}
  /\ RemoveLabel \in BOOLEAN
  /\ {None, Blank} \cap Namespaces = {}
  /\ None \notin [creator : Instances, subject : Instances,
                  ref : {"Role", "ClusterRole"}]
  /\ MaxLag \in Nat \ {0} /\ MaxEdits \in Nat /\ MaxFaults \in Nat

VARIABLES
  cr,         \* "absent", "new" (no finalizer yet), "present", "terminating"
  enabled,    \* instances whose spec.controller.enabled is not false
  ns,         \* "active", "terminating" or "absent"
  label,      \* the managed-by label of each namespace
  role,       \* Roles in a namespace, by CR name: the instance that created it
  binding,    \* RoleBindings in a namespace, by CR name
  roleLag,    \* former versions of each Role, from the one in the cache on
  bindingLag, \* the same of each RoleBinding
  missed,     \* history: namespaces a pass took to be in order by an old read
  secretNs,   \* the "namespaces" list of each instance's cluster secret
  customRole, \* is a custom cluster role set in the operator's environment?
  clusterConfig, \* instances that are cluster scoped
  events,     \* namespace events not yet handed to the handler
  handler,    \* the informer's handler goroutine
  worker,     \* the controller's worker goroutine
  queued,     \* the controller's work queue
  late,       \* history: access that nothing will take away any more
  edits, faults  \* used-up bounds

access  == <<role, binding, roleLag, bindingLag, missed>>
objects == <<cr, enabled, ns, label>>
env     == <<customRole, clusterConfig>>
bounds  == <<edits, faults>>
vars    == <<objects, access, secretNs, env, events, handler, worker, queued,
             late, bounds>>

RoleBinding == [creator : Instances, subject : Instances,
                ref : {"Role", "ClusterRole"}]

\* A cluster secret: none, one without a "namespaces" key, one with a list.
ClusterSecret == [kind : {"none", "noList", "list"},
                  list : SUBSET (Namespaces \cup {Blank})]
NoSecret == [kind |-> "none", list |-> {}]
NoList   == [kind |-> "noList", list |-> {}]
ListOf(S) == [kind |-> "list", list |-> S]

NsEvent == [n : Namespaces, old : Instances \cup {None},
            new : Instances \cup {None}, op : {"create", "update", "delete"}]
NoEvent == [n |-> None, old |-> None, new |-> None, op |-> "none"]

\* The handler: where it is, the event it handles, and the copy of a cluster
\* secret it has read (fresh: nobody has written the secret since).
HandlerState == [pc : {"idle", "roles", "bindings", "read", "write", "enqueue"},
                 ev : NsEvent \cup {NoEvent},
                 read : ClusterSecret, fresh : BOOLEAN]

\* The worker: where it is, the instance, r.ManagedNamespaces (snap), what is
\* left of the current loop over it, the list and the copy of the secret that
\* reconcileClusterPermissionsSecret has read.
WorkerState == [pc : {"idle", "roles", "rolesAgain", "bindings", "list", "read",
                      "write", "unlabel", "finalize"},
                cr : Instances \cup {None},
                snap : [Namespaces -> {"no", "active", "terminating"}],
                todo : SUBSET Namespaces, want : SUBSET Namespaces,
                read : ClusterSecret, fresh : BOOLEAN]

IdleHandler == [pc |-> "idle", ev |-> NoEvent, read |-> NoSecret, fresh |-> FALSE]
IdleWorker == [pc |-> "idle", cr |-> None, snap |-> [n \in Namespaces |-> "no"],
               todo |-> {}, want |-> {}, read |-> NoSecret, fresh |-> FALSE]

TypeOK ==
  /\ cr \in [Instances -> {"absent", "new", "present", "terminating"}]
  /\ enabled \subseteq Instances
  /\ ns \in [Namespaces -> {"active", "terminating", "absent"}]
  /\ label \in [Namespaces -> Instances \cup {None}]
  /\ role \in [Namespaces -> [Names -> Instances \cup {None}]]
  /\ binding \in [Namespaces -> [Names -> RoleBinding \cup {None}]]
  /\ roleLag \in [Namespaces -> [Names -> Seq(Instances \cup {None})]]
  /\ bindingLag \in [Namespaces -> [Names -> Seq(RoleBinding \cup {None})]]
  /\ missed \subseteq Instances \X Namespaces
  /\ secretNs \in [Instances -> ClusterSecret]
  /\ customRole \in BOOLEAN /\ clusterConfig \subseteq Instances
  /\ events \in Seq(NsEvent)
  /\ handler \in HandlerState
  /\ worker \in WorkerState
  /\ queued \subseteq Instances
  /\ late \subseteq Instances \X Namespaces
  /\ edits \in Nat /\ faults \in Nat

\* The cache is up to date.
NoLag == [n \in Namespaces |-> [x \in Names |-> <<>>]]

\* The roleRef of a RoleBinding.
RoleRef == IF customRole THEN "ClusterRole" ELSE "Role"

\* The operator starts.  An instance is there already, with what it needs in its
\* own namespace, or is not; labels may have been set meanwhile.
Init ==
  /\ cr \in [Instances -> {"present", "absent"}]
  /\ enabled = Instances
  /\ ns = [n \in Namespaces |-> "active"]
  /\ label \in [Namespaces -> Instances \cup {None}]
  /\ \A n \in Namespaces \ Labelled : label[n] = None
  /\ \E e \in Environments : customRole = e[1] /\ clusterConfig = e[2]
  /\ role = [n \in Namespaces |-> [x \in Names |->
       IF ~customRole /\ n \in Instances /\ cr[n] = "present" /\ x = CRName[n]
       THEN n ELSE None]]
  /\ binding = [n \in Namespaces |-> [x \in Names |->
       IF n \in Instances /\ cr[n] = "present" /\ x = CRName[n]
       THEN [creator |-> n, subject |-> n, ref |-> RoleRef] ELSE None]]
  /\ roleLag = NoLag /\ bindingLag = NoLag /\ missed = {}
  /\ secretNs = [a \in Instances |->
       IF cr[a] = "present" /\ a \notin clusterConfig THEN ListOf({a}) ELSE NoSecret]
  /\ events = <<>>
  /\ handler = IdleHandler /\ worker = IdleWorker
  /\ queued = {a \in Instances : cr[a] = "present"}
  /\ late = {}
  /\ edits = 0 /\ faults = 0

Exists(a) == cr[a] # "absent"

\* An API call that fails.
Faulty ==
  /\ faults < MaxFaults
  /\ faults' = faults + 1
  /\ UNCHANGED edits

\* Bug variant: Roles and RoleBindings are not watched.
OwnerUnwatched(n, creator) == {}

\* A change of a Role or RoleBinding in namespace n queues the instance that
\* owns it, if any: only what an instance creates in its own namespace has an
\* owner reference.
OwnerOf(n, creator) == {a \in Instances : a = n /\ a = creator /\ Exists(a)}

\* Events that will still make the handler take away the access to n.
Pending(n) ==
  \/ \E i \in 1..Len(events) :
       events[i].n = n /\ events[i].op = "update"
         /\ events[i].old # None /\ events[i].old # events[i].new
  \/ handler.ev.n = n /\ handler.pc \in {"roles", "bindings"}

\* The watch reports a change of namespace n to the informer.
Notify(n, op, old, new) ==
  events' = Append(events, [n |-> n, old |-> old, new |-> new, op |-> op])

\* Instances with access to n although the label does not name them.
Leftover(n, bindings) ==
  {<<a, n>> : a \in {i \in Instances :
     /\ i # n /\ label[n] # i
     /\ \E x \in Names : bindings[x] # None /\ bindings[x].subject = i}}

-----------------------------------------------------------------------------
(* The informers' cache of Roles and RoleBindings.                         *)

\* Every version an object has had, from the one in the cache to the one in the
\* API server.
Versions(lag, table, n, x) == Append(lag[n][x], table[n][x])

\* What the worker's client reads.
Seen(lag, table, n, x) == Versions(lag, table, n, x)[1]

\* What the cache has to work off once a table of objects has changed.
Outdated(lag, table, new) ==
  [n \in Namespaces |-> [x \in Names |->
     IF new[n][x] = table[n][x] THEN lag[n][x] ELSE Append(lag[n][x], table[n][x])]]

\* The cache is not too far behind for what is written.
Bounded(lag, table, new) ==
  \A n \in Namespaces, x \in Names :
    new[n][x] # table[n][x] => Len(lag[n][x]) < MaxLag

\* The API server has changed Roles, RoleBindings.
RolesWritten ==
  Bounded(roleLag, role, role') /\ roleLag' = Outdated(roleLag, role, role')
BindingsWritten ==
  /\ Bounded(bindingLag, binding, binding')
  /\ bindingLag' = Outdated(bindingLag, binding, binding')

\* The cache takes over the next version of a Role.  Its event queues the owner
\* of the version before and of the one after.
RoleDelivered(n, x) ==
  /\ roleLag[n][x] # <<>>
  /\ LET v == Versions(roleLag, role, n, x) IN
       queued' = queued \cup OwnerOf(n, v[1]) \cup OwnerOf(n, v[2])
  /\ roleLag' = [roleLag EXCEPT ![n][x] = Tail(@)]
  /\ UNCHANGED <<objects, role, binding, bindingLag, missed, secretNs, env, events,
                 handler, worker, late, bounds>>

Creator(b) == IF b = None THEN None ELSE b.creator

\* The same for a RoleBinding.
BindingDelivered(n, x) ==
  /\ bindingLag[n][x] # <<>>
  /\ LET v == Versions(bindingLag, binding, n, x) IN
       queued' = queued \cup OwnerOf(n, Creator(v[1])) \cup OwnerOf(n, Creator(v[2]))
  /\ bindingLag' = [bindingLag EXCEPT ![n][x] = Tail(@)]
  /\ UNCHANGED <<objects, role, binding, roleLag, missed, secretNs, env, events,
                 handler, worker, late, bounds>>

-----------------------------------------------------------------------------
(* The informer's handler: namespaceFilterPredicate, then the mapper.      *)

\* Bug variant: the RBAC is removed with the label, but not when it changes.
LosesOwnerIfUnlabelled(ev) == ev.op = "update" /\ ev.old # None /\ ev.new = None

\* The label named an instance and does not name it any more.
LosesOwner(ev) == ev.op = "update" /\ ev.old # None /\ ev.old # ev.new

HandlerTakes ==
  /\ handler.pc = "idle" /\ events # <<>>
  /\ LET ev == Head(events) IN
       handler' = [IdleHandler EXCEPT
         !.ev = ev,
         !.pc = IF LosesOwner(ev) THEN "roles"
                ELSE IF ev.op = "delete" /\ ev.old # None THEN "read"
                ELSE "enqueue"]
  /\ events' = Tail(events)
  /\ UNCHANGED <<objects, access, secretNs, env, worker, queued, late, bounds>>

\* A row of a table by CR name, after all but the kept names were deleted.
Kept(row, kept) == [x \in Names |-> IF x \in kept THEN row[x] ELSE None]

\* Each Delete of a loop may fail, which is logged, and the loop goes on.
DeleteFails(kept) == IF kept = {} THEN UNCHANGED bounds ELSE Faulty

\* deleteRBACsForNamespace: every Role of any instance.  A failing List ends it.
DeleteRoles ==
  /\ handler.pc = "roles"
  /\ LET n == handler.ev.n IN
     \/ \E kept \in SUBSET Names :
          /\ DeleteFails(kept)
          /\ role' = [role EXCEPT ![n] = Kept(role[n], kept)]
          /\ handler' = [handler EXCEPT !.pc = "bindings"]
          /\ UNCHANGED late
     \/ /\ Faulty
        /\ handler' = [handler EXCEPT !.pc = "read"]
        /\ late' = late \cup Leftover(n, binding[n])
        /\ UNCHANGED role
  /\ RolesWritten
  /\ UNCHANGED <<objects, binding, bindingLag, missed, secretNs, env, events, worker,
                 queued>>

\* deleteRBACsForNamespace: every RoleBinding of any instance.  A failing List
\* keeps them all.
DeleteRoleBindings ==
  /\ handler.pc = "bindings"
  /\ LET n == handler.ev.n IN
     \E kept \in SUBSET Names :
       /\ DeleteFails(kept)
       /\ binding' = [binding EXCEPT ![n] = Kept(binding[n], kept)]
       /\ late' = {p \in late : p[2] # n} \cup Leftover(n, Kept(binding[n], kept))
  /\ handler' = [handler EXCEPT !.pc = "read"]
  /\ BindingsWritten
  /\ UNCHANGED <<objects, role, roleLag, missed, secretNs, env, events, worker, queued>>

\* deleteManagedNamespaceFromClusterSecret: read the former owner's secret ...
HandlerReadsSecret ==
  /\ handler.pc = "read"
  /\ LET s == secretNs[handler.ev.old] IN
     \/ /\ handler' = IF s.kind # "list"
                      THEN [handler EXCEPT !.pc = "enqueue"]
                      ELSE [handler EXCEPT !.pc = "write", !.read = s,
                                           !.fresh = TRUE]
        /\ UNCHANGED bounds
     \/ /\ Faulty
        /\ handler' = [handler EXCEPT !.pc = "enqueue"]
  /\ UNCHANGED <<objects, access, secretNs, env, events, worker, queued, late>>

\* Bug variant: the name is cut out of the string, its comma is not.
CutNamespace(s, n) == ListOf((s.list \ {n}) \cup {Blank})

\* The list without n.  An empty list is written, and read again, as "".
WithoutNamespace(s, n) == ListOf(IF s.list = {n} THEN {Blank} ELSE s.list \ {n})

\* ... and write it back without n.  The API server refuses the update if the
\* secret was written since; that error, like any other, is only logged.
HandlerWritesSecret ==
  /\ handler.pc = "write"
  /\ LET a == handler.ev.old
         new == WithoutNamespace(handler.read, handler.ev.n) IN
     \/ /\ new # handler.read /\ handler.fresh
        /\ secretNs' = [secretNs EXCEPT ![a] = new]
        /\ worker' = IF worker.cr = a THEN [worker EXCEPT !.fresh = FALSE]
                                      ELSE worker
        /\ queued' = queued \cup {i \in {a} : Exists(i)}
        /\ UNCHANGED bounds
     \/ /\ new = handler.read \/ ~handler.fresh
        /\ UNCHANGED <<secretNs, worker, queued, bounds>>
     \/ Faulty /\ UNCHANGED <<secretNs, worker, queued>>
  /\ handler' = [handler EXCEPT !.pc = "enqueue", !.read = NoSecret,
                                !.fresh = FALSE]
  /\ UNCHANGED <<objects, access, env, events, late>>

\* Bug variant: only the namespace as it was is mapped to an instance.
MappedOld(ev) == {a \in {ev.old} \ {None} : Exists(a)}

\* Bug variant: a namespace without the label is mapped like any other.
MappedUnlabelled(ev) == {ev.old, ev.new}

\* namespaceResourceMapper, of the namespace as it was and as it is; without the
\* managed-by label it serves the source namespaces, which are not modelled here.
Mapped(ev) == {a \in {ev.old, ev.new} \ {None} : Exists(a)}

HandlerEnqueues ==
  /\ handler.pc = "enqueue"
  /\ queued' = queued \cup Mapped(handler.ev)
  /\ handler' = IdleHandler
  /\ UNCHANGED <<objects, access, secretNs, env, events, worker, late, bounds>>

-----------------------------------------------------------------------------
(* The controller's worker: Reconcile of one instance.                     *)

\* Reconcile ends; an error puts the instance back into the queue, as do the
\* events of the objects it changed (who).
Return(failed, who) ==
  /\ worker' = IdleWorker
  /\ queued' = queued \cup who \cup (IF failed THEN {worker.cr} ELSE {})

Fails == Faulty /\ Return(TRUE, {})

\* Namespaces labelled with a's namespace, and that namespace itself.
NamespacesOf(a) ==
  {n \in Namespaces : ns[n] # "absent" /\ label[n] = a} \cup {a}

\* What setManagedNamespaces stores; a's own entry is made up, not read.
setManagedNamespaces(a) ==
  [n \in Namespaces |-> IF n = a THEN "active"
                        ELSE IF n \in NamespacesOf(a) THEN ns[n] ELSE "no"]

\* internalReconcile up to its first loop.  What it does for cluster resources,
\* source namespaces, metrics and token timers is not part of this module.
Reconcile(a) ==
  /\ worker.pc = "idle" /\ a \in queued
  /\ \/ /\ cr[a] = "absent"
        /\ queued' = queued \ {a}
        /\ UNCHANGED <<worker, cr>>
     \/ /\ cr[a] \in {"new", "present"}     \* the finalizer is added first
        /\ cr' = [cr EXCEPT ![a] = "present"]
        /\ queued' = IF cr[a] = "new" THEN queued ELSE queued \ {a}
        /\ worker' = [IdleWorker EXCEPT
             !.pc = "roles", !.cr = a, !.snap = setManagedNamespaces(a),
             !.todo = NamespacesOf(a)]
     \/ /\ cr[a] = "terminating"
        /\ queued' = queued \ {a}
        /\ worker' = IF RemoveLabel
                     THEN [IdleWorker EXCEPT !.pc = "unlabel", !.cr = a,
                                             !.todo = NamespacesOf(a)]
                     ELSE [IdleWorker EXCEPT !.pc = "finalize", !.cr = a]
        /\ UNCHANGED cr
  /\ missed' = {p \in missed : p[1] # a}
  /\ UNCHANGED <<enabled, ns, label, role, binding, roleLag, bindingLag, secretNs, env,
                 events, handler, late, bounds>>

\* Bug variant: reconcileRoleBinding does not go beyond its call of reconcileRole.
AfterRoles(pc) == IF pc = "roles" THEN "rolesAgain" ELSE "list"

\* n is done in this loop over r.ManagedNamespaces; after the last one the next
\* loop begins.  reconcileRoleBinding calls reconcileRole once more.
After(pc) ==
  IF pc = "roles" THEN "rolesAgain" ELSE IF pc = "rolesAgain" THEN "bindings"
  ELSE "list"
Done(n) ==
  LET rest == worker.todo \ {n}
      snap == [worker.snap EXCEPT ![n] = IF @ = "terminating" THEN "no" ELSE @]
  IN
    IF rest # {} THEN [worker EXCEPT !.snap = snap, !.todo = rest]
    ELSE [worker EXCEPT !.snap = snap, !.pc = After(worker.pc),
                        !.todo = {m \in Namespaces : snap[m] # "no"}]

\* A terminating namespace loses its label, with the copy read at the beginning
\* (a conflict if it changed since), and errors are ignored.  The label is
\* deleted from the copy in any case, so the later loops do not try again.
ReleaseTerminating(n) ==
  /\ worker.pc \in {"roles", "rolesAgain", "bindings"}
  /\ n \in worker.todo /\ worker.snap[n] = "terminating"
  /\ \/ /\ ns[n] = "terminating" /\ label[n] = worker.cr
        /\ label' = [label EXCEPT ![n] = None]
        /\ Notify(n, "update", label[n], None)
        /\ UNCHANGED bounds
     \/ /\ ns[n] # "terminating" \/ label[n] # worker.cr
        /\ UNCHANGED <<label, events, bounds>>
     \/ Faulty /\ UNCHANGED <<label, events>>
  /\ worker' = Done(n)
  /\ UNCHANGED <<cr, enabled, ns, access, secretNs, env, handler, queued, late>>

\* The pass takes the object in n to be in order, having seen one version of it
\* while another is live.  In the instance's own namespace the object is owned, and
\* its event queues the instance; elsewhere nothing does before the next resync.
\* The first loop over the Roles is repeated.
Overlooked(n, seen, live) ==
  IF n # worker.cr /\ worker.pc # "roles" /\ seen # live
  THEN missed \cup {<<worker.cr, n>>} ELSE missed

\* reconcileRole in one namespace: the cache decides, the API server may refuse
\* (AlreadyExists, NotFound, no content in a namespace that is not active).
ReconcileRole(n) ==
  /\ worker.pc \in {"roles", "rolesAgain"}
  /\ n \in worker.todo /\ worker.snap[n] = "active"
  /\ LET a == worker.cr
         x == CRName[a]
         live == role[n][x]
         seen == Seen(roleLag, role, n, x)
         create == seen = None /\ ~customRole /\ a \in enabled
         delete == seen # None /\ (customRole \/ a \notin enabled) IN
     \/ /\ create /\ live = None /\ ns[n] = "active"
        /\ role' = [role EXCEPT ![n][x] = a]
        /\ worker' = Done(n)
        /\ UNCHANGED <<missed, queued, bounds>>
     \/ /\ delete /\ live # None
        /\ role' = [role EXCEPT ![n][x] = None]
        /\ IF customRole /\ a \notin enabled    \* deleted twice: NotFound
           THEN Return(TRUE, {})
           ELSE worker' = Done(n) /\ UNCHANGED queued
        /\ UNCHANGED <<missed, bounds>>
     \/ /\ create => live # None \/ ns[n] # "active"
        /\ delete => live = None
        /\ create \/ delete
        /\ Return(TRUE, {})
        /\ UNCHANGED <<role, missed, bounds>>
     \/ /\ ~create /\ ~delete
        /\ missed' = Overlooked(n, seen, live)
        /\ worker' = Done(n)
        /\ UNCHANGED <<role, queued, bounds>>
     \/ Fails /\ UNCHANGED <<role, missed>>
  /\ RolesWritten
  /\ UNCHANGED <<objects, binding, bindingLag, secretNs, env, events, handler, late>>

\* a has written its RoleBinding in n: does anything still watch over it?
LateIfStale(a, n) ==
  IF a # n /\ label[n] # a /\ ~Pending(n) THEN late \cup {<<a, n>>} ELSE late

\* reconcileRoleBinding in one namespace.  A RoleBinding whose roleRef changes
\* is deleted and created anew; the update of an old copy is a conflict.
ReconcileRoleBinding(n) ==
  /\ worker.pc = "bindings"
  /\ n \in worker.todo /\ worker.snap[n] = "active"
  /\ LET a == worker.cr
         x == CRName[a]
         live == binding[n][x]
         seen == Seen(bindingLag, binding, n, x)
         create == a \in enabled /\ seen = None
         replace == a \in enabled /\ seen # None /\ seen.ref # RoleRef
         update == a \in enabled /\ seen # None /\ seen.ref = RoleRef /\ seen.subject # a
         delete == a \notin enabled /\ seen # None
         new == [creator |-> a, subject |-> a, ref |-> RoleRef] IN
     \/ /\ create /\ live = None /\ ns[n] = "active"
        /\ binding' = [binding EXCEPT ![n][x] = new]
        /\ BindingsWritten
        /\ late' = LateIfStale(a, n)
        /\ worker' = Done(n)
        /\ UNCHANGED <<missed, queued, bounds>>
     \/ /\ replace /\ live # None /\ ns[n] = "active"
        /\ binding' = [binding EXCEPT ![n][x] = new]
        /\ Len(bindingLag[n][x]) < MaxLag
        /\ bindingLag' = [bindingLag EXCEPT ![n][x] = Append(Append(@, live), None)]
        /\ late' = LateIfStale(a, n)
        /\ worker' = Done(n)
        /\ UNCHANGED <<missed, queued, bounds>>
     \/ /\ replace /\ live # None         \* deleted, but creating it fails
        /\ IF ns[n] = "active" THEN Faulty ELSE UNCHANGED bounds
        /\ binding' = [binding EXCEPT ![n][x] = None]
        /\ BindingsWritten
        /\ Return(TRUE, {})
        /\ UNCHANGED <<missed, late>>
     \/ /\ update /\ bindingLag[n][x] = <<>>
        /\ binding' = [binding EXCEPT ![n][x] = [live EXCEPT !.subject = a]]
        /\ BindingsWritten
        /\ late' = LateIfStale(a, n)
        /\ worker' = Done(n)
        /\ UNCHANGED <<missed, queued, bounds>>
     \/ /\ delete /\ live # None
        /\ binding' = [binding EXCEPT ![n][x] = None]
        /\ BindingsWritten
        /\ worker' = Done(n)
        /\ UNCHANGED <<missed, late, queued, bounds>>
     \/ /\ \/ create /\ (live # None \/ ns[n] # "active")
           \/ (replace \/ delete) /\ live = None
           \/ update /\ bindingLag[n][x] # <<>>
        /\ Return(TRUE, {})
        /\ UNCHANGED <<binding, bindingLag, missed, late, bounds>>
     \/ /\ ~create /\ ~replace /\ ~update /\ ~delete
        /\ missed' = Overlooked(n, seen, live)
        /\ worker' = Done(n)
        /\ UNCHANGED <<binding, bindingLag, late, queued, bounds>>
     \/ Fails /\ UNCHANGED <<binding, bindingLag, missed, late>>
  /\ UNCHANGED <<objects, role, roleLag, secretNs, env, events, handler>>

\* reconcileClusterPermissionsSecret: the namespaces as they are now ...
ListNamespaces ==
  /\ worker.pc = "list"
  /\ \/ /\ worker' = [worker EXCEPT !.pc = "read", !.want = NamespacesOf(worker.cr)]
        /\ UNCHANGED <<queued, bounds>>
     \/ Fails
  /\ UNCHANGED <<objects, access, secretNs, env, events, handler, late>>

\* ... the secret as it is now ...
ReadSecret ==
  /\ worker.pc = "read"
  /\ \/ /\ worker' = [worker EXCEPT !.pc = "write", !.read = secretNs[worker.cr],
                                    !.fresh = TRUE]
        /\ UNCHANGED <<queued, bounds>>
     \/ Fails
  /\ UNCHANGED <<objects, access, secretNs, env, events, handler, late>>

\* Bug variant: a list that is there is left alone.
KeepClusterSecretNamespaces(read, want) ==
  IF read.kind = "list" THEN read ELSE ListOf(want)

\* The list to write.  Splitting the missing list yields an empty string, which
\* is kept as an element like any other.
combineClusterSecretNamespacesWithManagedNamespaces(read, want) ==
  ListOf(want \cup IF read.kind = "noList" THEN {Blank} ELSE read.list)

\* ... and both combined.  A cluster-scoped instance has no list at all.
WriteSecret ==
  /\ worker.pc = "write"
  /\ LET a == worker.cr
         new == IF a \notin clusterConfig
                THEN combineClusterSecretNamespacesWithManagedNamespaces(
                       worker.read, worker.want)
                ELSE IF worker.read = NoSecret THEN NoSecret ELSE NoList IN
     \/ /\ new # worker.read /\ worker.fresh
        /\ secretNs' = [secretNs EXCEPT ![a] = new]
        /\ handler' = IF handler.ev.old = a THEN [handler EXCEPT !.fresh = FALSE]
                                            ELSE handler
        /\ Return(FALSE, {a})
        /\ UNCHANGED bounds
     \/ /\ new # worker.read /\ ~worker.fresh       \* conflict
        /\ Return(TRUE, {})
        /\ UNCHANGED <<secretNs, handler, bounds>>
     \/ /\ new = worker.read
        /\ Return(FALSE, {})
        /\ UNCHANGED <<secretNs, handler, bounds>>
     \/ Fails /\ UNCHANGED <<secretNs, handler>>
  /\ UNCHANGED <<objects, access, env, events, late>>

\* Bug variant: a namespace that has lost its label meanwhile is an error.
RemoveManagedByLabelStrict(n) ==
  /\ worker.pc = "unlabel" /\ n \in worker.todo
  /\ IF label[n] = worker.cr
     THEN /\ label' = [label EXCEPT ![n] = None]
          /\ Notify(n, "update", worker.cr, None)
          /\ worker' = [worker EXCEPT !.todo = @ \ {n}]
          /\ UNCHANGED queued
     ELSE Return(TRUE, {}) /\ UNCHANGED <<label, events>>
  /\ UNCHANGED <<cr, enabled, ns, access, secretNs, env, handler, late, bounds>>

\* removeManagedByLabelFromNamespaces: a failing update is only logged.
RemoveManagedByLabel(n) ==
  /\ worker.pc = "unlabel" /\ n \in worker.todo
  /\ LET w == [worker EXCEPT !.todo = @ \ {n}]
         done == [w EXCEPT !.pc = IF w.todo = {} THEN "finalize" ELSE "unlabel"] IN
     \/ /\ ns[n] = "absent"
        /\ Return(TRUE, {})
        /\ UNCHANGED <<label, events, bounds>>
     \/ /\ ns[n] # "absent" /\ label[n] = worker.cr
        /\ label' = [label EXCEPT ![n] = None]
        /\ Notify(n, "update", worker.cr, None)
        /\ worker' = done
        /\ UNCHANGED <<queued, bounds>>
     \/ /\ ns[n] # "absent" /\ label[n] # worker.cr
        /\ worker' = done
        /\ UNCHANGED <<label, events, queued, bounds>>
     \/ /\ Faulty
        /\ worker' = done
        /\ UNCHANGED <<label, events, queued>>
     \/ Fails /\ UNCHANGED <<label, events>>
  /\ UNCHANGED <<cr, enabled, ns, access, secretNs, env, handler, late>>

\* removeDeletionFinalizer: the CR goes, and what it owns in its namespace.
RemoveDeletionFinalizer ==
  /\ worker.pc = "finalize"
  /\ LET a == worker.cr IN
     \/ /\ cr' = [cr EXCEPT ![a] = "absent"]
        /\ role' = [role EXCEPT ![a] =
             [x \in Names |-> IF role[a][x] = a THEN None ELSE role[a][x]]]
        /\ binding' = [binding EXCEPT ![a] =
             [x \in Names |-> LET b == binding[a][x] IN
                IF b # None /\ b.creator = a THEN None ELSE b]]
        /\ secretNs' = [secretNs EXCEPT ![a] = NoSecret]
        /\ handler' = IF handler.ev.old = a THEN [handler EXCEPT !.fresh = FALSE]
                                            ELSE handler
        /\ Return(FALSE, {})
        /\ UNCHANGED bounds
     \/ Fails /\ UNCHANGED <<cr, role, binding, secretNs, handler>>
  /\ RolesWritten /\ BindingsWritten
  /\ UNCHANGED <<enabled, ns, label, missed, env, events, late>>

-----------------------------------------------------------------------------
(* Users, the cluster, restarts.                                           *)

Edited ==
  /\ edits < MaxEdits
  /\ edits' = edits + 1
  /\ UNCHANGED <<secretNs, env, handler, worker, late, faults>>

SetLabel(n) ==
  /\ ns[n] # "absent"
  /\ \E v \in (Instances \cup {None}) \ {label[n]} :
       /\ label' = [label EXCEPT ![n] = v]
       /\ Notify(n, "update", label[n], v)
  /\ Edited /\ UNCHANGED <<cr, enabled, ns, access, queued>>

DeleteNamespace(n) ==
  /\ ns[n] = "active" /\ n \notin Instances
  /\ ns' = [ns EXCEPT ![n] = "terminating"]
  /\ Notify(n, "update", label[n], label[n])
  /\ Edited /\ UNCHANGED <<cr, enabled, label, access, queued>>

CreateNamespace(n) ==
  /\ ns[n] = "absent"
  /\ ns' = [ns EXCEPT ![n] = "active"]
  /\ \E v \in Instances \cup {None} :
       /\ label' = [label EXCEPT ![n] = v]
       /\ Notify(n, "create", None, v)
  /\ Edited /\ UNCHANGED <<cr, enabled, access, queued>>

CreateCR(a) ==
  /\ cr[a] = "absent"
  /\ cr' = [cr EXCEPT ![a] = "new"]
  /\ queued' = queued \cup {a}
  /\ Edited /\ UNCHANGED <<enabled, ns, label, access, events>>

DeleteCR(a) ==
  /\ cr[a] \in {"new", "present"}
  /\ cr' = [cr EXCEPT ![a] = IF @ = "new" THEN "absent" ELSE "terminating"]
  /\ queued' = queued \cup {a}
  /\ Edited /\ UNCHANGED <<enabled, ns, label, access, events>>

\* spec.controller.enabled
EditCR(a) ==
  /\ cr[a] \in {"new", "present"}
  /\ enabled' = IF a \in enabled THEN enabled \ {a} ELSE enabled \cup {a}
  /\ queued' = queued \cup {a}
  /\ Edited /\ UNCHANGED <<cr, ns, label, access, events>>

\* The namespace controller has emptied a terminating namespace.
NamespaceGone(n) ==
  /\ ns[n] = "terminating"
  /\ ns' = [ns EXCEPT ![n] = "absent"]
  /\ label' = [label EXCEPT ![n] = None]
  /\ role' = [role EXCEPT ![n] = [x \in Names |-> None]]
  /\ binding' = [binding EXCEPT ![n] = [x \in Names |-> None]]
  /\ RolesWritten /\ BindingsWritten
  /\ Notify(n, "delete", label[n], None)
  /\ UNCHANGED <<cr, enabled, missed, secretNs, env, handler, worker, queued, late, bounds>>

\* The manager's periodic resync.
Resync(a) ==
  /\ Exists(a) /\ a \notin queued
  /\ queued' = queued \cup {a}
  /\ UNCHANGED <<objects, access, secretNs, env, events, handler, worker, late,
                 bounds>>

\* The operator restarts, perhaps with another environment: events not handled
\* are lost, the cache is filled anew, every CR is queued.
Restart ==
  /\ Faulty
  /\ \E e \in Environments : customRole' = e[1] /\ clusterConfig' = e[2]
  /\ events' = <<>>
  /\ handler' = IdleHandler /\ worker' = IdleWorker
  /\ queued' = {a \in Instances : Exists(a)}
  /\ late' = late \cup UNION {Leftover(n, binding[n]) : n \in Namespaces}
  /\ roleLag' = NoLag /\ bindingLag' = NoLag
  /\ UNCHANGED <<objects, role, binding, missed, secretNs>>

-----------------------------------------------------------------------------
HandlerStep ==
  \/ HandlerTakes \/ DeleteRoles \/ DeleteRoleBindings
  \/ HandlerReadsSecret \/ HandlerWritesSecret \/ HandlerEnqueues

WorkerStep ==
  \/ \E n \in Namespaces :
       \/ ReleaseTerminating(n) \/ ReconcileRole(n) \/ ReconcileRoleBinding(n)
       \/ RemoveManagedByLabel(n)
  \/ ListNamespaces \/ ReadSecret \/ WriteSecret
  \/ RemoveDeletionFinalizer

InformerStep ==
  \E n \in Namespaces, x \in Names : RoleDelivered(n, x) \/ BindingDelivered(n, x)

Environment ==
  \/ \E n \in Labelled : SetLabel(n) \/ DeleteNamespace(n) \/ CreateNamespace(n)
  \/ \E a \in Editable : CreateCR(a) \/ DeleteCR(a) \/ EditCR(a)
  \/ \E a \in Instances : Resync(a)
  \/ \E n \in Namespaces : NamespaceGone(n)
  \/ Restart

Next ==
  \/ HandlerStep \/ WorkerStep \/ InformerStep \/ Environment
  \/ \E a \in Instances : Reconcile(a)

Spec == Init /\ [][Next]_vars

(***************************************************************************)
(* Fairness: the handler and the worker run, the watches deliver, and the  *)
(* resync comes round.  The work queue is served first come, first served, *)
(* so that no instance waits forever for another that is queued again and  *)
(* again.                                                                  *)
(***************************************************************************)
Fairness ==
  /\ WF_vars(HandlerStep)
  /\ WF_vars(WorkerStep)
  /\ WF_vars(InformerStep)
  /\ \A a \in Instances : WF_vars(Resync(a))
  /\ \A a \in Instances : SF_vars(Reconcile(a))

FairSpec == Spec /\ Fairness

-----------------------------------------------------------------------------
(* Properties.                                                             *)

Quiescent ==
  /\ events = <<>> /\ handler.pc = "idle" /\ worker.pc = "idle" /\ queued = {}
  /\ roleLag = NoLag /\ bindingLag = NoLag

\* The Role and RoleBinding of a's application controller in n are in force,
\* and are of the kind the operator's environment asks for.
Granted(a, n) ==
  LET b == binding[n][CRName[a]] IN
    /\ b # None /\ b.subject = a
    /\ IF customRole THEN b.ref = "ClusterRole"
       ELSE b.ref = "Role" /\ role[n][CRName[a]] # None

\* Once the dust settles, an instance has access exactly as its CR says to the
\* namespaces labelled with it, although the handler deletes RBAC of every
\* instance, calls fail and the operator restarts.  The one exception (missed): a
\* managed namespace in which the last pass over the instance found a Role or
\* RoleBinding in the cache other than the live one (role.go:140,
\* rolebinding.go:145) and left it alone; the event of an object without an owner
\* queues nobody.  The next pass sees the cache as it is then.
AccessUnlessMissed ==
  Quiescent =>
    \A a \in Instances, n \in Namespaces :
      cr[a] = "present" /\ n \in NamespacesOf(a) /\ ns[n] = "active"
        => <<a, n>> \in missed \/ (Granted(a, n) <=> a \in enabled)

\* Once the dust settles, the cluster secret lists every namespace labelled with
\* the instance, although two goroutines write it; a cluster-scoped instance
\* has no list.
ListedWhenQuiescent ==
  Quiescent =>
    \A a \in Instances : cr[a] = "present" =>
      IF a \in clusterConfig THEN secretNs[a].kind # "list"
      ELSE secretNs[a].kind = "list" /\ NamespacesOf(a) \subseteq secretNs[a].list

\* Access outlives the label only while the event that will take it away is
\* pending, or for one of three reasons (late): a failing call of the handler,
\* a restart, a worker that gave access after that event was handled.
RevokedUnlessLate ==
  \A n \in Namespaces : ~Pending(n) => Leftover(n, binding[n]) \subseteq late

\* Some RoleBinding in n, with its Role, lets a's application controller in.
HasAccess(a, n) ==
  \E x \in Names :
    /\ binding[n][x] # None /\ binding[n][x].subject = a
    /\ binding[n][x].ref = "ClusterRole" \/ role[n][x] # None

\* As long as no call fails and the operator does not restart, an instance has,
\* once the dust settles, no access to a namespace that is not labelled with it.
RevokedWhenQuiescent ==
  Quiescent /\ faults = 0 =>
    \A a \in Instances, n \in Namespaces :
      HasAccess(a, n) => n = a \/ label[n] = a

\* Once the dust settles, the cluster secret of an instance that is not cluster
\* scoped restricts it to namespaces: no empty list, no empty entry, as long as
\* its own namespace is not labelled (the handler would empty the list) and its
\* scope does not change (secret.go:695 splits the missing list).
NamespaceScopedWhenQuiescent ==
  Quiescent =>
    \A a \in Instances :
      cr[a] = "present" /\ a \notin clusterConfig
        => Blank \notin secretNs[a].list

\* A labelled namespace gets access, or loses the label, or its CR goes: at the
\* latest with the next resync, if a pass has gone by what an old cache says.
LabelledIsGranted ==
  \A a \in Instances, n \in Labelled :
    (cr[a] = "present" /\ a \in enabled /\ label[n] = a /\ ns[n] = "active")
      ~> (Granted(a, n) \/ cr[a] # "present" \/ a \notin enabled
            \/ label[n] # a \/ ns[n] # "active")

\* The deletion of a CR completes.
DeletionCompletes ==
  \A a \in Instances : (cr[a] = "terminating") ~> (cr[a] = "absent")
=============================================================================
