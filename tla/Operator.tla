------------------------------ MODULE Operator ------------------------------
(***************************************************************************)
(* The plan of a pass: reconcileResources of src/controllers/argocd/       *)
(* util.go, which calls the functions of the other modules in this order.  *)
(* Local users are in LocalUsers, and other namespaces in                  *)
(* ManagedNamespaces; the rollouts after a change of a TLS certificate or  *)
(* of the web terminal's switch are not modelled.                          *)
(***************************************************************************)
EXTENDS Reconciler, AccessControl, Secrets, Configuration, Dex, Networking, Workloads,
        Monitoring, ApplicationSet, Notifications, ImageUpdater, NetworkPolicies, Agent

(* Bug variant: the Deployments come before the service accounts. *)
DeploymentsFirst(on) ==
  reconcileDeployments(Logged(reconcileDexDeployment(on)), on)
    \o reconcileSSO(reconcileArgoConfigMap(on), on)
    \o reconcileRoles(on)
    \o reconcileRoleBindings(on)
    \o reconcileServiceAccounts(on)
    \o reconcileCertificateAuthority(on)
    \o reconcileSecrets(on)
    \o reconcileConfigMaps(on)
    \o reconcileServices(Logged(reconcileDexService(on)), on)
    \o reconcileStatefulSets(on)
    \o reconcileAutoscalers(on)
    \o reconcileIngresses(on)
    \o Guarded(reconcileRoutes(on), RouteAPI(on))
    \o reconcileMonitoring(on)
    \o reconcileApplicationSetController(on)
    \o reconcileNotificationsController(on)
    \o reconcileImageUpdaterController(on)
    \o ReconcileNetworkPolicies(on)
    \o reconcileArgoCDAgent(on)

reconcileResources(on) ==
  reconcileSSO(reconcileArgoConfigMap(on), on)
    \o reconcileRoles(on)
    \o reconcileRoleBindings(on)
    \o reconcileServiceAccounts(on)
    \o reconcileCertificateAuthority(on)
    \o reconcileSecrets(on)
    \o reconcileConfigMaps(on)
    \o reconcileServices(Logged(reconcileDexService(on)), on)
    \o reconcileDeployments(Logged(reconcileDexDeployment(on)), on)
    \o reconcileStatefulSets(on)
    \o reconcileAutoscalers(on)
    \o reconcileIngresses(on)
    \o Guarded(reconcileRoutes(on), RouteAPI(on))
    \o reconcileMonitoring(on)
    \o reconcileApplicationSetController(on)
    \o reconcileNotificationsController(on)
    \o reconcileImageUpdaterController(on)
    \o ReconcileNetworkPolicies(on)
    \o reconcileArgoCDAgent(on)

(* The kinds whose changes lead to a pass, if the object is owned by the   *)
(* ArgoCD resource. Those of cluster-wide roles lead to one by annotation. *)
OwnedKinds ==
  {"ConfigMap", "Secret", "Service", "Deployment", "Ingress", "StatefulSet",
   "NetworkPolicy", "Role", "RoleBinding", "NotificationsConfiguration", "Route",
   "Prometheus", "ServiceMonitor"}
MappedKinds == {"ClusterRole", "ClusterRoleBinding"}

setResourceWatches(obj, owned) ==
  obj[1] \in MappedKinds \/ (obj[1] \in OwnedKinds /\ owned)

(* Bug variant: the bindings are forgotten. *)
deleteClusterRolesOnly(obj) == obj[1] = "ClusterRole"

(* Deleting the resource takes its cluster-wide objects along. *)
deleteClusterResources(obj) == obj[1] \in MappedKinds

-----------------------------------------------------------------------------
(* Which objects the ArgoCD resource asks for, by component and said       *)
(* independently of the code, after the descriptions of the fields in      *)
(* api/v1beta1/argocd_types.go.                                            *)
Of(name, kinds) == {<<kind, name>> : kind \in kinds}

Requested(on) ==
  LET if(condition, objs) == IF condition THEN objs ELSE {}
      redis == RedisEnabled(on) /\ ~RedisRemote(on)
      appset == "appset" \in on /\ "appset.disabled" \notin on
      updater == {"image-updater", "image-updater.api"} \subseteq on
      monitored == {"prometheus", "prometheus.api"} \subseteq on
      namespaced == {"Role", "RoleBinding"}
      wide == {"ClusterRole", "ClusterRoleBinding"}
      component(name, kinds) ==
        Of(name, namespaced \cup kinds)
          \cup if("cluster-scoped" \in on, Of(name, wide))
          \cup if("netpol.disabled" \notin on, {Policy(name)})
      declined(side) ==
        if("custom-agent-role" \in on, Of(side, {"Role"}))
          \cup if(Custom(on), Of(side, wide))
  IN {CfgMap(name) : name \in {"argocd-cm", "argocd-rbac-cm", "argocd-ssh-known-hosts-cm",
                               "argocd-tls-certs-cm", "argocd-gpg-keys-cm",
                               "argocd-cmd-params-cm", "argocd-ca"}}
       \cup {Sec(name) : name \in {"cluster", "ca", "tls", "redis-initial-password",
                                   "argocd-secret"}}
       \cup if("cluster-scoped" \notin on, {Sec("default-cluster-config")})
       \cup Of("redis-ha", namespaced) \cup {Svc("metrics"), Svc("server-metrics")}
       \cup if(RedisEnabled(on), Of("redis", namespaced))
       \cup if(redis /\ ~HA(on), {Depl("redis"), Svc("redis")})
       \cup if(redis /\ HA(on),
               {Depl("redis-ha-haproxy"), Sts("redis-ha-server"), CfgMap("redis-ha"),
                CfgMap("redis-ha-health"), Svc("redis-ha"), Svc("redis-ha-haproxy")}
                 \cup {AnnounceService(i) : i \in 0..2})
       \cup if(RepoEnabled(on) /\ ~RepoRemote(on), {Depl("repo-server"), Svc("repo-server")})
       \cup if(ServerEnabled(on), Of("server", namespaced \cup {"Deployment", "Service"}))
       \cup if("server.ingress" \in on, {Ing("server")})
       \cup if("server.grpc.ingress" \in on, {Ing("grpc")})
       \cup if({"server.route", "route.api"} \subseteq on, {Rt("server")})
       \cup if(ControllerEnabled(on),
               Of("application-controller", namespaced \cup {"StatefulSet"}))
       \cup if(DefaultRole(on), Of("application-controller", wide) \cup Of("server", wide))
       \cup if(DefaultRole(on) /\ "aggregated" \in on,
               Of("application-controller-view", {"ClusterRole"})
                 \cup Of("application-controller-admin", {"ClusterRole"}))
       \cup if("netpol.disabled" \notin on,
               {Policy(name) : name \in {"server", "redis", "redis-ha", "repo-server",
                                         "application-controller"}})
       \cup if("dex" \in on,
               component("dex-server", {"Service", "Deployment"}) \ Of("dex-server", wide))
       \cup if("notifications" \in on,
               component("notifications-controller", {"Deployment"})
                 \cup {Svc("notifications-controller-metrics"),
                       Sec("argocd-notifications-secret")})
       \cup if(appset, component("applicationset-controller", {"Deployment", "Service"}))
       \cup if(appset /\ "appset.ingress" \in on, {Ing("applicationset")})
       \cup if(appset /\ {"appset.route", "route.api"} \subseteq on,
               {Rt("applicationset-webhook")})
       \cup if(updater,
               (component("image-updater", {"Deployment"}) \ Of("image-updater", wide))
                 \cup {CfgMap("argocd-image-updater-config"),
                       CfgMap("argocd-image-updater-ssh-config"),
                       Sec("argocd-image-updater-secret")})
       \cup if(updater /\ "image-updater.all" \in on, Of("image-updater", wide))
       \cup if(monitored, {Monitor("metrics"), Monitor("server-metrics"),
                           Monitor("repo-server-metrics")})
       \cup if("agent-principal" \in on,
               (component(Principal, {"Deployment", "Service"})
                  \cup {<<"Service", Principal, port>> :
                          port \in {"metrics", "redisproxy", "resource-proxy", "healthz"}}
                  \cup if("route.api" \in on /\ "principal.route.disabled" \notin on,
                          {Rt(Principal)})
                  \cup if(monitored, {<<"ServiceMonitor", Principal, "metrics">>}))
                 \ declined(Principal))
       \cup if("agent-agent" \in on,
               (component(AgentSide, {"Deployment"})
                  \cup {<<"Service", AgentSide, port>> : port \in {"metrics", "healthz"}}
                  \cup if(monitored, {<<"ServiceMonitor", AgentSide, "metrics">>}))
                 \ ({Policy(AgentSide)} \cup declined(AgentSide)))

(* Where the code does otherwise. The announce Services are created one    *)
(* after another only if none exists; HA mode without a Redis of its own   *)
(* has part of the objects of one; a Deployment of an earlier version is   *)
(* left while the controller is disabled, and so is what is left of        *)
(* Grafana while it is configured; only a name that is too long has an old *)
(* form; the webhooks of a disabled ApplicationSet controller keep their   *)
(* Ingress and Route; the resources of notifications are left to the       *)
(* handler, which may fail or be overtaken by a pass that still wants      *)
(* them, if no setting of notifications is left; their metrics Service and *)
(* the policies of Redis are never deleted; an instance that becomes       *)
(* cluster-scoped keeps its cluster secret; and a check that fails leaves  *)
(* the bindings.                                                           *)
Deviates(o, on) ==
  \/ o \in {AnnounceService(1), AnnounceService(2)}
  \/ /\ HA(on) /\ (RedisRemote(on) \/ ~RedisEnabled(on))
     /\ o \in {Depl("redis-ha-haproxy"), CfgMap("redis-ha"), CfgMap("redis-ha-health"),
               AnnounceService(0), Sts("redis-ha-server")}
  \/ /\ HA(on) /\ RedisRemote(on) /\ RedisEnabled(on)
     /\ o \in {Svc("redis-ha"), Svc("redis-ha-haproxy")}
  \/ ~ControllerEnabled(on) /\ o = Depl("application-controller")
  \/ "grafana" \in on /\ o \in {Svc("grafana"), Ing("grafana"), Rt("grafana")}
  \/ "long-name" \notin on /\ o[2] = "old"
  \/ "appset.disabled" \in on /\ o \in {Ing("applicationset"), Rt("applicationset-webhook")}
  \/ /\ on \cap {"notifications", "notifications.spec"} = {}
     /\ o \in Of("notifications-controller", OwnedKinds \cup MappedKinds)
               \cup {Sec("argocd-notifications-secret")}
  \/ "notifications" \notin on /\ o = Svc("notifications-controller-metrics")
  \/ "netpol.disabled" \in on /\ o \in {Policy("redis"), Policy("redis-ha")}
  \/ "cluster-scoped" \in on /\ o = Sec("default-cluster-config")
  \/ /\ ~verifyInstallationMode(on)
     /\ o \in {<<"ClusterRoleBinding", name>> : name \in {"application-controller", "server"}}

(* What holds of the cluster and of the operator's environment, and what   *)
(* an earlier version may have left; the other names that the plan asks    *)
(* about are options of the resource.                                      *)
Facts ==
  {"route.api", "prometheus.api", "image-updater.api", "cluster-scoped",
   "custom-agent-role", "dex.token", "ingress-config", "certificate-secret",
   "long-name", "invalid-image", "notifications.managed", "source-namespace",
   "redis.tls.user", "repo.tls.user", "server.tls.user"}

Leftovers ==
  {Depl("application-controller"), Svc("grafana"), Ing("grafana"), Rt("grafana"),
   Ing("prometheus"), Rt("prometheus"), <<"Prometheus", "prometheus">>}
    \cup {<<"StatefulSet", "old", name>> : name \in {"application-controller",
                                                    "redis-ha-server"}}

(* A scene is a part of this plan. It has the calls about its objects that *)
(* are reached, in their order, and the handler's calls about them. A call *)
(* about a watched object is reached whatever the facts of the scene, and  *)
(* what it waits for is in the scene; there is one about each such object, *)
(* more than an amendment, save those that nobody looks at. The facts do   *)
(* not decide which objects the calls are about. An object has an owner    *)
(* unless some call creates it without one.                                *)
Members(calls) == {calls[i] : i \in DOMAIN calls}

IsPartFor(part, on) ==
  LET all == reconcileResources(on)
      order == part.order[on]
      calls == part.plan[on]
  IN /\ calls = [k \in DOMAIN order |-> all[order[k]]]
     /\ \A k \in DOMAIN order :
          order[k] \in DOMAIN all /\ \A j \in DOMAIN order : j < k => order[j] < order[k]
     /\ \A i \in DOMAIN all :
          all[i].reached /\ all[i].obj \in part.objects
            => \E k \in DOMAIN order : order[k] = i
     /\ \A r \in Members(calls) :
          r.obj \in part.watched =>
            /\ r.reached /\ r.awaits \subseteq part.objects
            /\ setResourceWatches(r.obj, r.owned)
     /\ \A o \in part.watched :
          Deviates(o, on) \/ \E r \in Members(calls) : r.obj = o /\ o \notin r.awaits
     /\ Members(part.cleanup[on]) \subseteq Members(deleteNotificationsResources(on))
     /\ \A r \in Members(deleteNotificationsResources(on)) :
          r.reached /\ r.obj \in part.objects => r \in Members(part.cleanup[on])

IsPartOfPlan(part) ==
  /\ \A on \in part.specs, known \in part.facts : IsPartFor(part, on \cup known)
  /\ \A on \in part.specs, known \in part.facts, other \in part.facts :
       LET calls == part.plan[on \cup known]
           others == part.plan[on \cup other]
       IN DOMAIN calls = DOMAIN others /\ \A i \in DOMAIN calls : calls[i].obj = others[i].obj
  /\ part.facts \subseteq SUBSET Facts /\ part.legacy \subseteq Leftovers
  /\ part.clusterWide = {o \in part.objects : deleteClusterResources(o)}
  /\ \A o \in part.objects \ part.owned :
       \E on \in part.specs, known \in part.facts :
         \E r \in Members(reconcileResources(on \cup known)) : r.obj = o /\ ~r.owned

ASSUME PartAssumption == \A s \in DOMAIN Scene : IsPartOfPlan(Scene[s])

(* At rest, the watched objects that exist are those that the ArgoCD       *)
(* resource asks for, in whichever state the pass has found them, and      *)
(* whatever came between its steps: reconcileResources brings back what is *)
(* missing and removes what is no longer wanted.                           *)
Settled ==
  AtRest /\ spec.phase = "present" =>
    LET requested == Requested(spec.on \cup facts)
    IN \A o \in This.watched \ lost :
         ~Deviates(o, spec.on \cup facts) => (o \in DOMAIN live <=> o \in requested)

(* The settings that an object is given when it is created, and not again: *)
(* what users then edit, the replicas that an autoscaler looks after, what *)
(* the notifications controller takes over from the live Deployment, and   *)
(* all of the Ingresses for gRPC and for ApplicationSet webhooks.          *)
OnlyAtCreation(on) ==
  {<<CfgMap("argocd-ssh-known-hosts-cm"), "data">>,
   <<CfgMap("argocd-tls-certs-cm"), "data">>,
   <<NotifObj("Deployment"), "placement">>}
    \cup {<<Ing(name), f>> : name \in {"grpc", "applicationset"},
                             f \in {"annotations", "rules", "class", "tls"}}
    \cup (IF "server.autoscale" \in on THEN {<<Depl("server"), "replicas">>} ELSE {})

(* At rest, every object that the operator looks after holds the settings  *)
(* of the ArgoCD resource as it is now, not those of an earlier            *)
(* generation nor what someone else has written: the comparison in each    *)
(* reconcileX covers every field that it computes from them.               *)
UpToDate ==
  AtRest /\ spec.phase = "present" =>
    LET calls == Calls(spec.on)
    IN \A i \in DOMAIN calls :
         LET r == calls[i]
             manifest == With(r.created, r.updated)
         IN r.obj \in (DOMAIN live \cap This.watched) \ lost =>
              \A f \in DOMAIN manifest :
                manifest[f] = Current /\ <<r.obj, f>> \notin OnlyAtCreation(spec.on \cup facts) =>
                  Field(live[r.obj], f) = At(Current, spec.rev)

(* As long as nothing goes wrong, a workload is created only when what its *)
(* pods cannot start without is there: the order of the calls in           *)
(* reconcileResources, of which reconcileSSO comes first. What the handler *)
(* of the watch deletes, it may delete in the middle of a pass.            *)
Deletable == {CleanupCalls[i].obj : i \in DOMAIN CleanupCalls}

PrerequisitesFirst ==
  [][pass.at > 0 /\ pass.at \in DOMAIN PassCalls /\ budget = This.budget =>
       LET r == PassCalls[pass.at]
       IN r.obj \in DOMAIN live' \ DOMAIN live
            => (r.needs \ Deletable) \cap This.objects \subseteq DOMAIN live]_vars

(* Objects without an owner reference, which the deletion of the ArgoCD    *)
(* resource leaves behind. The image updater's roles in the namespaces it  *)
(* watches are among them: only a pass deletes those.                      *)
LeftBehind ==
  {<<"HorizontalPodAutoscaler", "server">>, <<"NotificationsConfiguration", "default">>,
   <<"ServiceMonitor", "notifications-controller-metrics">>,
   <<"Role", "image-updater", "watched">>, <<"RoleBinding", "image-updater", "watched">>}

(* When the ArgoCD resource is gone, everything that was created for it    *)
(* goes too, whatever the operator and the handler of its events were      *)
(* doing when it was deleted: by owner reference, or by                    *)
(* deleteClusterResources before the finalizer is removed.                 *)
NothingElseLeft ==
  spec.phase = "gone" /\ AtRest /\ DOMAIN live \cap This.owned = {}
    => DOMAIN live \subseteq LeftBehind

(* The configuration is refused. *)
Refusing ==
  \E i \in DOMAIN Calls(spec.on) :
    Outcome(Calls(spec.on)[i], spec.rev, live, {}) = "error"

(* A repo server that is elsewhere, and Redis disabled: the Deployment is  *)
(* created by one pass and deleted by the next, for ever.                  *)
Undecided == {"repo.remote", "redis.disabled"} \subseteq spec.on

(* Once people and faults leave it alone, the operator comes to rest, or   *)
(* goes on refusing the configuration: no two calls of a pass undo each    *)
(* other's work.                                                           *)
ComesToRest == <>[](AtRest \/ (spec.phase = "present" /\ (Refusing \/ Undecided)))
=============================================================================
