# Formal model of the Argo CD operator

The Argo CD operator watches `ArgoCD` custom resources (CRs) and keeps, for each
of them, an Argo CD instance running in the CR's namespace: workloads, services,
configuration, Secrets, and the RBAC that lets the instance act in the namespaces
it manages. Most of the code builds one Kubernetes object, compares it with the
one in the cluster and creates, updates or deletes it. What is hard is that a
pass over some hundred such objects can fail, be overtaken or be interfered with
between any two of them, and where several goroutines, several instances, several
API versions or several writes have to agree.

| modules | what they are about |
| --- | --- |
| `Reconciler` | the worker, the events, people and faults, for any plan of calls |
| `LevelTriggered` | what a level-triggered controller promises; `Reconciler` implements it |
| `Resources` | the common shape of the `reconcileX` functions, as records |
| `AccessControl`, `Secrets`, `Configuration`, `Dex`, `Networking`, `Workloads`, `Monitoring`, `ApplicationSet`, `Notifications`, `ImageUpdater`, `NetworkPolicies`, `Agent` | the `reconcileX` functions of each part |
| `Operator`, `MCOperator` | the plan of a pass, `reconcileResources`; its properties; scenes for TLC |
| `LocalUsers`, `MCLocalUsers` | API tokens of local users and their renewal timers |
| `ManagedNamespaces`, `MCManagedNamespaces` | the `managed-by` label, the RBAC and the cluster-secret entry behind it |
| `CachedClient`, `Export`, `MCExport` | the cache that strips Secrets, and the ArgoCDExport controller that reads through it |
| `FieldPaths`, `V1alpha1Types`, `V1beta1Types`, `ConversionFields`, `Conversion`, `MCConversion` | the conversion between the versions of the ArgoCD resource |
| `ReconcilerProofs`, `OperatorProofs` | theorems about any plan, and about this one |
| `LocalUsersProofs`, `LocalUsersSettledProofs`, `ManagedNamespacesProofs`, `ManagedNamespacesSettledProofs` | theorems about every state, and about the states at rest |
| `ExportProofs`, `ConversionProofs` | theorems |

`PROJECT.json` lists components, runs, mutants, the map to the source, findings,
hazards and theorems. Paths below are relative to `src/controllers/argocd/` unless
they say otherwise.

## 1. Inventory

One operator process runs a controller-runtime manager. Each controller has a
work queue and one worker goroutine (the default `MaxConcurrentReconciles` is
1); each watched kind has an informer goroutine that runs predicates and mappers
and fills the queue. Local users add timers and goroutines of their own.

**ArgoCD controller** (`argocd_controller.go`, `util.go`). State: the CR with its
finalizer and status, the fields of `ReconcileArgoCD` that outlive a
reconciliation (`ManagedNamespaces`, `ManagedSourceNamespaces`, the two further
source-namespace maps, `LocalUsers`, `dexTokenRequeueAfter`) and the package
variables `ActiveInstanceMap` and `DeprecationEventEmissionTracker`. Operations:
`Reconcile`, its deletion path, `reconcileResources` (a pipeline that stops at the
first error), `setResourceWatches`. Hard: every prefix of the pipeline is a state
the cluster can be left in; the CR changes while the pipeline runs. Correct if: it
comes to rest, rests only when the cluster is as the CR asks, deletes what it made.

**Workloads, networking, configuration, monitoring, network policies, image
updater, Dex, ApplicationSet, notifications, Secrets, roles** (`deployment.go`,
`statefulset.go`, `repo_server.go`, `service.go`, `ingress.go`, `route.go`,
`hpa.go`, `configmap.go`, `prometheus.go`, `networkpolicies.go`,
`image_updater.go`, `dex.go`, `sso.go`, `applicationset.go`, `notifications.go`,
`secret.go`, `role.go`, `rolebinding.go`, `service_account.go`) and **Argo CD
agent** (`../argocdagent`): the functions that the pipeline calls, of one shape
each: look an object up, delete it, compare and update it, or create it. Hard:
conditions on creation and on deletion that must agree, comparisons that must
cover every field, objects that need each other. Correct if: what the CR asks for
exists and is up to date, and nothing else does.

**Local users** (`localusers.go`). State: per user a Secret `<user>-local-user`
with the token, the token's entry in `argocd-secret`, a map of timers under a
lock. Hard: two writes without a transaction, timers that fire while they are
being stopped, renewals that fail. Correct if: tokens exist exactly for the users
the CR asks for, the user's Secret holds the token that Argo CD accepts, expired
tokens are renewed, revoked tokens are really gone, no timer acts for a user that
is gone.

**Managed namespaces** (`role.go`, `rolebinding.go`, `util.go`). State: the
`managed-by` label of a namespace, Roles and RoleBindings, the `namespaces` list of
the instance's cluster secret. Hard: the predicate that takes access away and the
worker that gives it run concurrently without a lock; the worker reads Roles and
RoleBindings from a cache; the predicate's errors are not retried; label changes while
the operator is down produce no event. Correct
if: an instance has access to the namespaces labelled with it, and to no others.

**Source namespaces** (`util.go`, `role.go`, `rolebinding.go`,
`applicationset.go`, `notifications.go`). State: one map per feature, three
tracking labels, Roles and RoleBindings named after the CR. Hard: maps shared by
all CRs, instances that claim the same namespace, labels removed by hand.
**NamespaceManagement** (`namespaceManagement.go`): a second way to hand a
namespace to an instance.

**TLS rollouts** (`secret.go`, `repo_server.go`): checksums of TLS Secrets kept in
the CR's status that trigger rollouts. **Status and metrics** (`status.go`,
`metrics.go`): phase, conditions, gauges. **Watches and mappers**
(`custommapper.go`, `util.go`): which event queues which CR.

**ArgoCDExport controller** (`../argocdexport`). State: claim, Secret with the
backup key, Job or CronJob, phase. Hard: everything it decides on comes from a
cache. Correct if: a key that backups may be encrypted with is never replaced, an
export is complete when it says so, and completes if it can.
**NotificationsConfiguration controller** (`../notificationsconfiguration`): one
ConfigMap.

**Caching client** (`src/pkg/clientwrapper`, `src/pkg/cacheutils`): reads from a
cache that holds Secrets and ConfigMaps without data unless a label says that the
operator tracks them, and falls back to a live read.

**API types and conversion** (`src/api`): fields and the conversion webhook.
**Manager start-up** (`src/cmd`), **utilities** (`../argoutil`): single passes and
pure helpers.

## 2. The runs

| run | module | shows |
| --- | --- | --- |
| `OperatorSafety` | `MCOperator` | rest, content, deletion and order, in thirteen scenes; refinement of `LevelTriggered` |
| `OperatorLive` | `MCOperator` | the operator comes to rest |
| `LocalUsersSafety` | `MCLocalUsers` | timers, orphaned tokens, agreement at rest (timers included) and until a first fault |
| `LocalUsersLive` | `MCLocalUsers` | renewal, revocation, completion of deletion; timers only for tokens to be renewed |
| `LocalUsersOutOfSync` | `MCLocalUsers` | *violation*: a fault between the two writes of `issueToken` is never repaired |
| `ManagedNamespacesSafety` | `MCManagedNamespaces` | access and entries at rest, with a cache that lags; access outlives the label only for recorded reasons |
| `ManagedNamespacesEnv` | `MCManagedNamespaces` | the same where an instance's own namespace is handed over, with failing calls and restarts with another environment |
| `ManagedNamespacesLive` | `MCManagedNamespaces` | labelled namespaces are granted, deletion completes |
| `ManagedNamespacesStaleAccess` | `MCManagedNamespaces` | *violation*: access given from a list of namespaces that is out of date stays |
| `ConversionRoundTrip` | `MCConversion` | edits take effect, the rest survives, round trips are stable |
| `ConversionDataLoss` | `MCConversion` | *violation*: reading and writing back through v1alpha1 clears a field |
| `ExportAll` | `MCExport` | key, phase and completion of exports |

The three violations are findings: there the code contradicts what its comments
say, and `PROJECT.json` quotes them.

## 3. Resources, the components and Operator

### How a function is modelled

`Resources` gives the functions `reconcileX` one shape: a record that says which
object the function is about, whether the CR wants it, when an existing one is
deleted, the fields it is created with, and those that are compared and set again;
further fields are for what some functions do differently (return early if another
object exists or does not, set fields of an object only if it exists, fail, have their
error only logged, are called only after another change, ...). `Outcome` says what such a function does in a given cluster
and `Applied` what the cluster looks like then. Every function of the pipeline is
an operator of the same name that maps the set `on` - the options the CR sets and
the facts about the cluster - to that record, so that the conditions can be read
against the code line by line. A field has the value `Current` if it is computed
from settings of the CR, `Fixed` if it is the same whatever they are, and `NoValue`.
In the cluster a `Current` value carries the generation of the CR that it comes
from; this is what `UpToDate` looks at.

`Operator!reconcileResources` is the plan of a pass: the sequence of all these
calls, in the code's order. What a function would do is computed from the plan
alone, so `Reconciler`, which runs plans, knows nothing of any component, and its
theorems are about every plan.

Dex shows what that takes. `reconcileDexResources` looks after the Role, then through
`reconcileRoleBinding` after service account, Role and RoleBinding with the error only
logged, then after the same three again through `reconcileServiceAccountPermissions`,
where an error ends the pass. A logged error ends the first of these rounds in the code,
while the model goes on with the next call of it; the second round follows at once, and
does the same. The configuration of Dex in `argocd-cm` is written by an update of its own
(`reconcileDexConfiguration`), after which Dex's Deployment gets a label to start its pods
anew; then the data of `argocd-cm` are compared as a whole. `reconcileDexDeployment`
compares the labels of the pods, so its next call takes the label away again. Both writes
are calls of the plan, with the fact that the second follows upon the first. The rollout
of the server after a change of the web terminal's setting is left out.

### Reconciler: state and actions

| model | code |
| --- | --- |
| `spec` | options, generation and phase (present, deleting, gone) of the CR |
| `facts` | APIs that are installed, the operator's environment, Secrets of others |
| `live` | the objects that exist, with their fields |
| `pass` | the next call, the CR as the pass has read it, the changes made so far (`Remembered`) |
| `lost` | objects of which the last pass only logged an error |
| `queued`, `events`, `informed`, `handler` | the work queue, undelivered changes of the CR, the old object of the next event, the predicate at work |
| `StartPass`, `Call`, `CallFails`, `EndPass` | `internalReconcile` and `reconcileResources`; the error of any call ends the pass and queues the CR again, unless the caller only logs it |
| `Finalize`, `Forget`, `CollectGarbage` | the deletion path, which may fail half-way; the CR not found; Kubernetes |
| `Deliver`, `HandlerCall`, `HandlerEnds` | the watch on the CR and its predicate, which deletes the resources of notifications in the informer's goroutine |
| `Edit`, `Delete`, `Interfere`, `FactsChange`, `Restart` | users, other controllers, a restart, after which the environment may be another |

### Properties

- `ConsistentAtRest`: at rest, no call of a pass would change a watched object.
- `LevelTriggeredSpec`: the same and more as a refinement. `LevelTriggered` may come
  to rest only when world and wish agree, and leaves rest whenever the wish changes
  or the world does in a way that matters.
- `Settled`: at rest, the watched objects that exist are those that `Requested`
  lists. `Requested` is written from the descriptions of the CR's fields, by
  component, independently of the plan.
- `UpToDate`: at rest, every field that is computed from settings has those of the
  current generation.
- `PrerequisitesFirst`: until something goes wrong, a workload is created after what
  its pods need.
- `NothingElseLeft`: when the CR is gone, so is everything that was made for it.
- `ComesToRest`: no two calls undo each other's work for ever.

Where the code does otherwise, an operator says so, and the property holds of the
rest:

- `Deviates`: the announce Services of Redis HA are handled one at a time, so some
  may be missing or left; HA without a Redis of its own keeps part of it; the
  Deployment of an earlier version stays while the controller is disabled, and what is
  left of Grafana while it is configured; a StatefulSet under its old name is looked for
  only if the name was too long; the Ingress and the Route for webhooks stay when the
  ApplicationSet controller is disabled but still configured; resources of notifications
  stay if the handler fails or is overtaken and no setting of notifications is left;
  their metrics Service and the policies of Redis are never deleted; an instance that
  becomes cluster-scoped keeps its cluster secret; a refused combination of cluster
  roles leaves the bindings.
- `OnlyAtCreation`: fields that no comparison covers, above all the whole of the
  Ingresses for gRPC and for ApplicationSet webhooks.
- `LeftBehind`: the autoscaler, the NotificationsConfiguration, one ServiceMonitor and
  the image updater's roles in watched namespaces have no owner reference.
- `Undecided`: with Redis disabled and a remote repo server, one pass creates the
  repo server's Deployment and the next deletes it (`repo_server.go:512`).
- `Refusing`: a configuration that is refused makes every pass fail at the same call;
  an update of a `roleRef` by the agent's functions is of this kind
  (`../argocdagent/rolebinding.go:74`), and so is the image updater's `"*"` without
  cluster scope.

### Scenes and bounds

The plan has more than a hundred objects. `MCOperator` explores *scenes*: for each
part the objects that have to do with each other, all the options and facts that
matter to them, and the plan restricted to the calls about these objects. Calls of
other scenes touch none of these objects, so leaving them out removes stuttering
steps only; a check that can fail is kept in every scene. The scene `everything`
has all objects at once, for an edit between a nearly empty CR and one that uses
nearly everything. A CR is edited once (from any set of options to any other) and
may be deleted at any time; the budget allows one or two failing calls, restarts,
changes of a fact, deletions or edits of an object. One edit is enough for a pass
to work from an old generation, and for an edit to meet each step of a pass; the
proofs have no such bound. `OperatorLive` has seven of the scenes, with one fault.

### Fairness

Weak fairness of the worker, of the informer and of the garbage collector: each is a
goroutine or a process that does not stop, and the queue holds one CR. The retry of
a failed pass is rate-limited, never given up. People and faults are not fair.

### Proofs

**For any plan** (`ReconcilerProofs`): for any scenes that satisfy `PlanAssumption` (a
plan is a sequence of calls about objects of the scene) and `WatchAssumption` (what a
function about a watched object looks at is watched too), both of which TLC evaluates
for the real plan. `TypeOK` is inductive as it stands. `ConsistentAtRest` is not: it
needs to know what a pass has achieved so far. `SoFar` says that, unless the CR is
queued again or an event is on its way, the pass works from the current CR, has changed
no watched object, and every call that it has made would now do nothing; `Rested` says
the same of all calls once it has ended. A call preserves `SoFar` because a call that
changes a watched object queues the CR, and one that changes an object that is not
watched leaves the outcome of the earlier calls as it was (`WatchAssumption`).
`NothingOverlooked` and the step simulation `ImplementsLevelTriggered` follow.

**For the plan of the operator** (`OperatorProofs`): for any scenes that satisfy
`PartAssumption`, that is, whose plan is part of `reconcileResources`, in its order
(`order` says where each call is in the whole plan), and leaves out no call about an
object of the scene; the same of the handler's calls. The assumption also says that a
call about a watched object is reached whatever the facts of the scene (the API of a
kind that is watched does not go away), that the objects it waits for are in the scene,
that each watched object has a call about it that does more than amend it, or is one of
`Deviates`, and that facts are
`Facts` and objects of earlier versions `Leftovers`: facts are not options, and no
earlier version leaves what this one creates. TLC evaluates it for all thirteen scenes.

- `SettingsReachObjects` is `UpToDate`. `ConsistentAtRest` says that no call would
  change anything, which helps only if a call would change something whenever a field
  is out of date. `Fit` asks that of a call: it compares every field that is computed
  from settings, those of `OnlyAtCreation` excepted; nothing keeps it from looking, but
  for the Secrets `cluster` and `tls` that some calls wait for, and for the object itself
  where a call only amends it; and only Dex's errors are merely logged. There is one lemma for each component (`AccessFits`, `SecretsFit`,
  `DeploymentsFit`, ...), about all its functions and all options, and `PlanFits` puts
  them together. `LostInv` (only objects of Dex are in `lost`) and `MainSecretsExist`
  (at rest these Secrets, and the one of the certificate authority, exist) close the gaps.
- `OnlyTheUnownedLeft` is `NothingElseLeft`. It needs `GoneInv`: once the CR is gone no
  pass is under way and no cluster-wide object is left. The predicate may still be at
  work then, and it handles namespaced objects only (`CleanupNamespaced`). What has no
  owner and is not cluster-wide is in `LeftBehind`, again by the lemmas on the components.
- `SettledAsRequested` is `Settled`. `Obeys` asks of a call about a watched object that it
  is `Right`: it wants the object exactly if `Requested` lists it and deletes it otherwise,
  those of `Deviates` excepted; again one lemma for each component (`DexObeys`,
  `ServicesObey`, `AgentObeys`, ...), over all options and facts. What else can keep a pass
  from acting is `Hindered` (other objects that must be missing or have just been created)
  or the Secrets that calls wait for, which `MainSecretsExist` settles. One early return
  needs an invariant: the Deployment of the application controller, from earlier versions,
  is left alone if the StatefulSet exists. `Succession` says that the two never exist side
  by side: a pass comes to the Deployment before the StatefulSet. The lemmas are about
  every combination of options, of which the scenes have some: they are why `Requested`
  and `Deviates` are as precise as they are about, say, a gRPC Ingress, the Route of a
  principal that disables it, or the roles that the agent is told not to create.
- `WorkloadsAfterPrerequisites` is `PrerequisitesFirst`. `InOrder` is about the sequence:
  what a call relies on, an earlier call of the plan ensures (`Ensures`: it wants the
  object, is reached, returns early for nothing, and its error ends the pass). It holds of
  a scene because that keeps the order of the plan. The invariant is `Grounded`: as long as
  nothing has gone wrong, what the calls so far have ensured exists. It leaves out the
  service account of notifications, which the handler may delete while a pass that has
  seen an older generation creates the workload; `PrerequisitesFirst` leaves it out as well.

## 4. LocalUsers

### State and actions

| model | code |
| --- | --- |
| CR, its users and their lifetimes | `ArgoCD` CR, `LocalUserSpec` |
| user Secrets, registered tokens | `<user>-local-user` Secrets; `accounts.<user>.tokens` in `argocd-secret` |
| the lock, the timer map, the timers | `LocalUsersInfo`, `tokenRenewalTimer` |
| the call that holds the lock and its phase | a run of `reconcileLocalUsers`, or of a renewal |
| `TimerFires`, `TimerCallback` | `time.AfterFunc` and its function: first the test of `stopped` under the lock, then a goroutine that takes the lock anew |
| `ReconcileLocalUser`, `IssueTokenSecret`, `IssueTokenRegister`, `KeepToken` | `reconcileLocalUser`, `issueToken` |
| `CleanupLocalUsers*`, `CleanupLocalUser*` | `cleanupLocalUsers`, `cleanupLocalUser` |
| `CleanupNamespaceTokenTimers`, `RemoveDeletionFinalizer` | the deletion path of `internalReconcile` |

Each write to the API server is a step of its own, and each may fail: a call that
fails leaves the cluster as it was. Reads belong to the step of the write they
decide about; a cached read that is stale makes the following write fail with a
conflict, which is such a failure. Secrets a CR owns disappear with its
finalizer. Earlier steps of `reconcileResources` count only as success or failure.
A token is an identifier; its JWT contents are left out.

### Bounds

One user, four tokens, two timers, one edit, one deletion by someone else, two
faults (failing calls or crashes); users share only the lock, the timer map, whose
keys differ, and the order of the loop. `MaxWaiting` bounds the renewals that wait
for the lock, `MaxRenewals` the expirations; a CR that was deleted may be created
again. The bounds allow two tokens for a user
to overlap, a timer to be replaced while its callback waits, and a failure in the
middle of each multi-write operation. `NoLeakedTimer` and `NoOrphanToken` are proved
for any number of users.

`InSyncUntilFault` and `ScheduledUntilFault` say what a successful reconciliation
leaves behind as long as no call has failed. After a failure the first is refuted by
`LocalUsersOutOfSync`, and the second does not hold either: the map entry of a timer
that has fired is taken for a scheduled renewal.

`TimerOnlyIfAskedFor` is what holds of timers at rest with every lifetime and whatever
others delete. It leaves out two cases. A zero spelled `0h` is infinite when it is
parsed, but not yet where the timer is stopped (`localusers.go:169`), so the timer of the
former lifetime stays armed; when it fires, the user is reconciled once more, nothing
else. And the cleanup finds removed users by their Secrets, so a user whose Secret
somebody else has deleted keeps the timer. A third case is the deletion of the CR: a
renewal that gets the lock between the cleanup of the timers and the removal of the
finalizer arms a timer that outlives the CR, and if the CR is created anew without the
user, nothing stops it. `TimerOnlyIfRenewable`, checked in `LocalUsersLive`, is the stronger
statement that holds as long as nothing of the three happens (`Undisturbed`). It is
temporal, `[]Undisturbed => [](...)`: as an invariant that asks for `Undisturbed` only now
it would fail after a deletion followed by two edits.

### Fairness

Weak fairness for goroutines in progress (the Go scheduler), strong fairness for
taking the lock (Go's mutex hands it over to a waiter that has starved for a
millisecond), and the periodic resync of the informers (controller-runtime's
default `SyncPeriod`). Users, crashes and failing calls are not fair. Renewal after
a failed attempt rests on the resync alone: the timer does not retry.

### Proofs

`TypeCorrect` needs `CallOK`, which says what a running call knows in each phase.
`NoTimerLeaks` and `NoTokenOrphaned` are for any number of users, tokens and
timers. `NoOrphanToken` is not inductive: revocation unregisters the token before
it deletes the Secret, and issuing writes the Secret before it registers the
token, so `OrderOK` adds that the call in progress has done the first of its two
writes.

`LocalUsersSettledProofs` has the properties at rest, for any users, failures and
crashes: `IssuedAtRest`, `RevokedAtRest`, `TimersAskedForAtRest`. Their invariant
`SettledInv` is about the time in between: while nothing is queued, a running call works
on the CR as it is, the users it has handled are `Settled`, and all are when the worker
is idle. It rests on `CallInv` (who holds the lock, and what is left to do in each phase)
and `EntryOK` (the timer in the map for a user is that user's and has not been stopped),
since a renewal and the worker take turns within one another's calls.
`TokensInSync` and `RenewalsScheduled` are about what a success means until a first fault.
`SyncInv` says what holds between the two writes of `issueToken`. `ScheduleInv` says that
the timer in the map tells the truth about the token (`TimerTells`: it is armed for
this very token, or the token has expired): what `reconcileLocalUser` takes for granted
when it keeps a token because the map has an entry.

`TimersRenewableAtRest` needs that no timer is armed for a user without a Secret, since
`SettledInv` tells about timers of users with one. `BackedInv` is the invariant, as long as
the system is undisturbed: the cleanup stops the timer before it deletes the Secret, and
`issueToken` writes the Secret before the timer is started.

## 5. ManagedNamespaces

### State and actions

| model | code |
| --- | --- |
| `label`, `ns` | the `managed-by` label, active/terminating/absent namespaces |
| `role`, `binding` | Role and RoleBinding of the application controller in the API server, by CR name: names hold the CR's name, not its namespace |
| `roleLag`, `bindingLag` | the former versions of each that the informers' cache has yet to replace, the one it holds first |
| `missed` | history variable: namespaces in which the last pass over an instance left an object alone because of an old read |
| `secretNs` | `data.namespaces` of the cluster secret; `""` splits into one empty name, `Blank` |
| `events`, `handler` | the informer's queue and goroutine: `namespaceFilterPredicate`, then `namespaceResourceMapper` on the old and the new object |
| `worker` | the controller's worker; `worker.snap` is `r.ManagedNamespaces` |
| `queued` | the work queue, without duplicates |
| `late` | history variable: access that no pending event will take away |
| `Reconcile`, `ReleaseTerminating`, `ReconcileRole`, `ReconcileRoleBinding` | `internalReconcile`, the loops over `r.ManagedNamespaces` in `reconcileRole` (twice: `reconcileRoleBinding` calls it again) and `reconcileRoleBinding` |
| `ListNamespaces`, `ReadSecret`, `WriteSecret` | `reconcileClusterPermissionsSecret` |
| `DeleteRoles`, `DeleteRoleBindings` | `deleteRBACsForNamespace` |
| `HandlerReadsSecret`, `HandlerWritesSecret` | `deleteManagedNamespaceFromClusterSecret` |
| `RemoveManagedByLabel`, `RemoveDeletionFinalizer` | the deletion path |
| `RoleDelivered`, `BindingDelivered` | an informer takes over the next version; the event queues the owner, and only objects in the instance's own namespace have one (`role.go:155`, `rolebinding.go:212`) |

**The cache.** The worker's client reads from the informers' cache (`src/cmd/main.go:222`),
the handler lists and deletes with a client of its own. So `ReconcileRole` and
`ReconcileRoleBinding` decide on the version that the cache holds (`Seen`) and write to the
API server, which refuses a creation of what exists, a deletion of what does not, and an
update based on an old version; each of these ends the pass with an error, and it is
tried again. What it cannot refuse is a write that is not made: a label that goes and
comes back, a handler that has deleted the Role and the RoleBinding, and a worker that
still finds both in the cache leave the namespace without access, and since these objects
have no owner, their events queue nobody. The operator then rests without giving access,
until the periodic resync queues the CR. That is what `missed` records and what
`AccessUnlessMissed` excepts; `LabelledIsGranted` shows that the resync repairs it.

Other reads are live in the model, and an old one does no harm. A list of namespaces with
an old label: the event of that namespace is still on its way, and the mapper queues the
former and the new owner when it arrives. An old cluster secret: a write based on it is
refused, and if nothing is written, the event of the secret, which the CR owns, queues the
CR again. An old CR: the same.

`Init` is the start of the operator: each instance exists, with the Role, the RoleBinding
and the cluster secret that an earlier run of the operator gave it in its own namespace,
or does not exist; labels may have been set while the operator was down; every CR is queued.

One component stands for the components with a Role. The custom cluster role
(`CONTROLLER_CLUSTER_ROLE`) and the cluster-scoped instances
(`ARGOCD_CLUSTER_CONFIG_NAMESPACES`) are read from the environment, so they may
change when the operator restarts. A conflict on the cluster secret is exact
(`fresh`: has anybody written it since it was read?); a conflict on a namespace is
approximated by comparing label and state with those that were read. Steps of the
pipeline between the modelled ones count only as failures. NamespaceManagement
CRs, which feed the same list, and the mapper's branches for source namespaces are
left out.

### Bounds

Two instances and one further namespace are enough for a label to move from one to
the other and back; two edits let it change while an earlier change is being
handled (away and back again, which is what a lagging cache hides); a fault is a failing
call or a restart. `MaxLag` is how many versions the cache may be behind when an object is
written. With 1, a read is current or one version old, or two while a RoleBinding is being
replaced; a cache that is further behind shows the same two things, an object that is
there or one that is not, and the theorems have no such bound.

In `ManagedNamespacesSafety` the CRs have one name, so that they share Roles and
RoleBindings, exist or not from the beginning, and nothing fails: 1.7 million states, with
the two instances interchangeable (`SYMMETRY`). In `ManagedNamespacesEnv` they have two
names, the namespace of one instance is handed to the other, the CR of that instance is
created, edited and deleted (`Editable`), and one call fails or the operator restarts in
one of the `Environments`. `ManagedNamespacesLive` has one instance, two edits and one
fault. "At rest" (`Quiescent`) means no event, no queued CR, both goroutines idle and the
cache up to date; no property at rest is vacuous, since TLC reaches such states after every kind
of edit, and each property has a mutant that breaks it.

Two more facts bound what the passing runs say. Entries of the cluster secret may
stay after the label has gone, by the same race as in
`ManagedNamespacesStaleAccess`: `combineClusterSecretNamespacesWithManagedNamespaces`
never drops one. And `NamespaceScopedWhenQuiescent` holds where the list cannot
become empty or be missing; an instance whose own namespace was labelled with
itself for a while, or that was cluster scoped, gets a list with an empty name.

### Fairness

Weak fairness for the handler, for the worker within a reconciliation and for the
informers: none of these goroutines stops. Weak fairness for the periodic resync of each
CR, controller-runtime's default `SyncPeriod`, which `LabelledIsGranted` needs after an old
read. Strong fairness for serving each queued instance, since the work queue is first
come, first served and a CR that is queued again goes to its end.

### Proofs

`ManagedTypeCorrect` needs `PhaseOK` (while the worker works it has an instance;
while the handler takes access away the event has a former owner) and `AbsentOK`
(a namespace that is gone has no label). `AccessRevoked` shows
`RevokedUnlessLate` for any instances, namespaces, CR names and environments. The
invariant is inductive together with these. Its argument: a label that stops
naming an instance appends an event; a pending event stays in the queue until the
handler takes it, and the handler is then committed to deleting every RoleBinding
of the namespace (`PendingKept`, `PendingNew`, `HandlerRevokes`); whatever else
may leave access behind is one of the steps that record it in `late`: a failing
call of the handler, a restart, a RoleBinding written by a worker whose list is
stale and for which no event is pending. `RevokedWhenQuiescent`, which has no such
exception, is refuted by `ManagedNamespacesStaleAccess`.

`ManagedNamespacesSettledProofs` has the properties at rest, for any number of instances
and namespaces and whatever fails or restarts. Rest is a statement about the whole system
and no use in an induction; the invariants are about one instance `a` at a time, and
`Calm(a)`: `a` is not queued and no event that is pending or being handled concerns it.

- `ListedAtRest`: `SecretInv`, while `a` is calm, its cluster secret lists its namespaces
  (`Listed`), or the pass over it works from what is still so (`Looked`).
- `AccessAtRest`: `AccessInv`, while `a` is calm and the cache has no version of `a`'s own
  objects left to deliver (`Delivered`), it has its Roles and RoleBindings, those in `missed`
  excepted, and a pass over another instance will not touch them (`Given`), or its own pass
  has given it what it has come to (`GivenSoFar`). In a managed namespace an old read is
  recorded in `missed` the moment a pass relies on it. In `a`'s own namespace there is no
  such exception: while an object that `a` owns is on its way to the cache the invariant
  claims nothing, and its delivery queues `a`, so `a` is not calm then (`DeliveredStep`). It
  needs what labels, snapshots, names and events
  may say (`WorldOK`, `SnapOK`, `NamedOK`, `EventOK`) and one hypothesis, `NamesApart`:
  of two instances with the same CR name, neither's own namespace may be labelled with
  the other. The RoleBinding is called after the CR's name and has one subject
  (`rolebinding.go:140`), so there each would overwrite the other's
  (`rolebinding.go:202`), and only the last to write would have access. The passing
  runs satisfy the hypothesis, one with equal names and one with an own namespace labelled.
- `NamespaceScopedAtRest`: `ScopeInv`, the list is `Clean` and so is every copy that the
  handler or the worker may write back, under `ScopesKept`: own namespaces of instances
  are not labelled, and `ARGOCD_CLUSTER_CONFIG_NAMESPACES` stays the same over restarts.
  The paragraph above says what happens otherwise.

## 6. CachedClient and Export

`CachedClient` keeps, for each object, the versions from the one that the cache
holds to the one that the API server holds. `Get` reads the oldest, stripped of its
data if it is a Secret without the tracking label, in which case the wrapper reads
the newest instead and adds the label. A write needs the newest version as its base,
or is refused. `Export` is the ArgoCDExport controller on top of it: one action per
write of a pass (`validateExport`, `reconcileStorage`, `FindSecret`, `LabelSecret`,
`CreateSecret`, `reconcileExportSecret`, `reconcileExport`), deliveries by the
informers in any order between objects, the Job's pod, the garbage collector, users
who write or delete anything, failing calls and restarts.

`ExportAll` starts from every configuration (storage unset, local or other; with a
Secret of the user's own, of whatever content, or without; with a schedule or
without) and allows one edit and one mishap; every stale read is possible without
either, since informers lag at will. A key is the user's or one of `GeneratedKeys`, any of
which `generateBackupKey` may return; two are enough to see one generated key replaced by
another. `BackupKeyKept` is about a read that is old or
stripped, `CompletedIsExported` about a phase written from an old copy, and
`ExportCompletes` about everything that must be created again. Weak fairness of the
worker, of each informer, of the pod and of the garbage collector: none of them
stops, and each event is delivered once.

What the properties leave out, and the code does: writing the key to a Secret
without any data panics (`../argocdexport/export.go:80`), pass after pass; a Secret
of the user's that is deleted goes unnoticed, since it has no owner; a storage
without a backend is not the local one; switching a schedule on or off leaves the
Job or the CronJob of before. The garbage collector is assumed to be slower than the
informer of the CR. Two versions of an object that are alike are not told apart, so
a write based on the former is accepted.

**Proofs** (`ExportProofs`), for any schedules, generated keys and bounds: `ExportTypeCorrect`, with
`HistoryOK` for the versions and what a pass knows at each step; `BackupKeySafe`, an
action property: the only write to a Secret that exists either adds a label to the
newest version or is based on a version that has no key and is the newest.
`CompletedSafe` needs `JobsSeen`: a Job of which any version says that it has
succeeded implies `exported`, so what a pass reads of it in the cache is true
although it may be old.

## 7. Conversion

`V1alpha1Types` and `V1beta1Types` give each struct of the two versions the set of
the paths of its fields; `ConversionFields` gives each conversion function the set of
the paths that it copies, and `Conversion` what `ConvertTo` does beyond copying: the
deprecated fields for Keycloak and Dex replace their successors. A resource is a
partial function from paths to values. Clients of v1beta1 edit the stored resource;
a client of v1alpha1 reads, edits and writes back, and is refused if the resource has
changed meanwhile.

`ConversionRoundTrip` starts from an empty resource and from one with every field,
and lets any field of either version be edited first, then one of those that
`ConvertTo` treats specially, so that each pair of interest occurs. `DroppedFields`
are those of both versions that the conversion forgets in one or both directions:
the network policy, the installation ID, the image pull policy and the rollouts UI
of the server. A `.spec.dex` that sets neither `config` nor `openShiftOAuth` is ignored by
`ConvertTo`. `EditsTakeEffect` excepts both. Setting any of the four deprecated fields of Keycloak overwrites all
four successors. `ConversionDataLoss` finds a field that is lost although the
comment in `ConvertFrom` says that none is.

**Proofs** (`ConversionProofs`), for every resource, all sequences of edits and any
fields that clients edit: `ConversionTypeCorrect`, `RoundTripsSettle`, `UneditedSurvive`,
`EditsEffective`. All but the first are about the two functions on resources. One lemma
for each pair of conversion functions says that the paths they copy in the two
directions agree; from the structs at the leaves they go up to `ResourceAgrees`, where
`spec` and the server's part of it agree except for `DroppedFields`. The rest is the
order in which `ConvertTo` writes: copied fields first, deprecated ones over them.
`TypeOK` is all the invariant that is needed.

## 8. Assumptions of the proofs

The named `ASSUME`s: types of the constants, that the value for "none" is none of
the things it is absent from, the three assumptions on plans and scenes in section
3, and that what clients edit are fields of one of the two versions
(`EditedAssumption`). Bounds are any natural numbers. TLC evaluates the assumptions
on every run. Two theorems of section 5 have hypotheses of their own, `NamesApart`
and `ScopesKept`; `ManagedNamespacesSafety` satisfies both.

## 9. Only model-checked

- Everything that needs fairness, which is beyond the prover: `ComesToRest`,
  `ExportCompletes`, `ExpiredIsRenewed`, `RemovedIsRevoked`, `DeletionCompletes`,
  `LabelledIsGranted`.

Every invariant, every action property and the refinement that the passing runs check is
stated by a theorem; the small instances of the runs say that the hypotheses are met and
the properties not empty.

## 10. Not modelled, and limits

- Source namespaces, TLS rollouts, status and metrics, the NotificationsConfiguration
  controller, NamespaceManagement: see `PROJECT.json`. Next in line would be source
  namespaces, a module like `ManagedNamespaces` with a map that all CRs share, and
  `RevokedWhenQuiescent`-like properties of it.
- A lagging cache is modelled in `Export` and, for Roles and RoleBindings, in
  `ManagedNamespaces`; `Reconciler` reads the newest version. There, an old read makes an
  update fail with a conflict, and a creation with "already exists": both end the pass and
  are covered by `CallFails`. If it makes the pass leave an object alone, the event of that
  object is still on its way, and queues the CR if the object is watched; the properties
  at rest are about watched objects only.
- Hazards that no property catches, because the code is known to do otherwise and the
  property exempts it (`Undecided`, `Deviates`, `OnlyAtCreation`, `lost`, `Refusing`, a lifetime
  spelled `0h`, two local users, a list split from nothing), say so in `PROJECT.json`.
- In `Reconciler` a CR that is gone is not created again, the finalizer is taken to
  be present when the CR is deleted, and only one CR is considered. `lost` outlives a
  restart until the next pass starts.
- Contents of manifests are fields with three values; log messages, events and the
  bytes of generated passwords are data that no property tells apart. A Secret of
  someone else's that a CR refers to for webhooks is not watched by the operator.
- Generated code, declarations, start-up.
