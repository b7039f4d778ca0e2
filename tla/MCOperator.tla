----------------------------- MODULE MCOperator -----------------------------
(***************************************************************************)
(* The plan of a pass of the operator, in scenes that TLC can explore.     *)
(***************************************************************************)
EXTENDS Operator, TLC

(* Combining a function with the empty one makes TLC compute it once. *)
Tabulated(f) == f @@ <<>>

SetOf(seq) == {seq[i] : i \in DOMAIN seq}
Objects(calls) == {r.obj : r \in calls}

(* Where the calls of a pass are that are about the given objects; a check *)
(* is about all of them. Calls that are not reached, whatever the facts,   *)
(* are left out.                                                           *)
Part(calls, on, factSets, objs) ==
  LET about(i) == \E known \in factSets :
                    LET r == calls[(on \ UNION factSets) \cup known][i]
                    IN r.reached /\ (r.obj \in objs \/ r.obj[1] = "check")
  IN SelectSeq([i \in DOMAIN calls[on] |-> i], about)

(* A scene about some objects, given the plan and the cleanup of the whole *)
(* operator.                                                               *)
Restricted(part, plan, cleanup, all) ==
  LET order(calls) ==
        Tabulated([on \in DOMAIN calls |-> Part(calls, on, part.facts, part.objects)])
      of(calls) ==
        LET kept == order(calls)
        IN Tabulated([on \in DOMAIN calls |->
                        [k \in DOMAIN kept[on] |-> calls[on][kept[on][k]]]])
      unowned == Objects({r \in all : ~r.owned})
  IN [objects |-> part.objects,
      owned |-> part.objects \ unowned,
      watched |-> {o \in part.objects : setResourceWatches(o, o \notin unowned)},
      clusterWide |-> {o \in part.objects : deleteClusterResources(o)},
      plan |-> of(plan), order |-> order(plan), cleanup |-> of(cleanup),
      specs |-> part.specs, facts |-> part.facts, volatile |-> part.volatile,
      legacy |-> part.legacy, edits |-> part.edits, budget |-> part.budget]

(* No objects stand for all. *)
Completed(part, plan, cleanup, all) ==
  Restricted([part EXCEPT !.objects = IF @ = {} THEN {o \in Objects(all) : o[1] # "check"}
                                      ELSE @],
             plan, cleanup, all)

Planned(part, plan, cleanup) ==
  Completed(part, plan, cleanup, UNION {SetOf(plan[on]) : on \in DOMAIN plan})

MakeScene(part) ==
  LET every == {on \cup known : on \in part.specs, known \in part.facts}
  IN Planned(part, Tabulated([on \in every |-> reconcileResources(on)]),
             Tabulated([on \in every |-> deleteNotificationsResources(on)]))

PartOf(objs, specs, factSets, volatile, legacy, edits, n) ==
  [objects |-> objs, specs |-> specs, facts |-> factSets, volatile |-> volatile,
   legacy |-> legacy, edits |-> edits, budget |-> n]

NoFacts == {{}}

RedisObjects ==
  {Depl("redis"), Svc("redis"), Depl("redis-ha-haproxy"), Sts("redis-ha-server"),
   CfgMap("redis-ha"), AnnounceService(0), AnnounceService(1)}

(* Nearly all components at once. *)
Full ==
  {"ha", "repo.autotls", "server.autoscale", "server.ingress", "server.route", "dex",
   "dex.config", "rbac", "appset", "appset.ingress", "notifications", "prometheus",
   "monitoring", "image-updater", "image-updater.list", "agent-principal"}
FullFacts ==
  {"route.api", "prometheus.api", "image-updater.api", "cluster-scoped", "dex.token",
   "ingress-config"}

SceneTable ==
  [redis |->
     PartOf(RedisObjects, SUBSET {"redis.disabled", "redis.remote", "ha"},
               {{}, {"route.api"}}, {}, {}, 1, 1),
   repo |->
     PartOf({Depl("repo-server"), Svc("repo-server")},
               SUBSET {"repo.disabled", "repo.remote", "redis.disabled"},
               {{"route.api"}, {"route.api", "repo.tls.user"}}, {"repo.tls.user"}, {}, 1, 2),
   server |->
     PartOf({Depl("server"), Svc("server"), <<"HorizontalPodAutoscaler", "server">>,
                Ing("server"), Rt("server")},
               {{}, {"server.disabled"}, {"server.autoscale"},
                {"server.autoscale", "server.hpa", "server.ingress", "server.route"},
                {"server.ingress", "server.route", "server.route.overrides"}},
               {{"route.api"}}, {}, {}, 1, 1),
   dex |->
     PartOf({<<"ServiceAccount", "dex-server">>, <<"Role", "dex-server">>,
                <<"RoleBinding", "dex-server">>, <<"Service", "dex-server">>,
                <<"Deployment", "dex-server">>, CfgMap("argocd-cm")},
               {{}, {"dex", "dex.config"}, {"dex", "dex.openshift"}},
               NoFacts, {}, {}, 1, 1),
   controller |->
     PartOf({Sts("application-controller"), <<"StatefulSet", "old", "application-controller">>,
                Depl("application-controller"), <<"ServiceAccount", "application-controller">>},
               SUBSET {"controller.disabled"}, {{"long-name"}}, {},
               {<<"StatefulSet", "old", "application-controller">>,
                Depl("application-controller")}, 1, 2),
   notifications |->
     PartOf({NotifObj(kind) : kind \in {"ServiceAccount", "Role", "RoleBinding", "Deployment"}}
                 \cup {<<"NotificationsConfiguration", "default">>},
               SUBSET {"notifications", "notifications.spec"}, NoFacts, {}, {}, 1, 1),
   appset |->
     PartOf(Of("applicationset-controller",
                  {"ServiceAccount", "Role", "Deployment", "ClusterRole", "ClusterRoleBinding"}),
               SUBSET {"appset", "appset.disabled"}, {{}, {"cluster-scoped"}}, {}, {}, 1, 1),
   updater |->
     PartOf(Of("image-updater", {"Role", "Deployment", "ClusterRole", "NetworkPolicy"}),
               {{}, {"netpol.disabled"}, {"image-updater"}, {"image-updater", "netpol.disabled"},
                {"image-updater", "image-updater.all"}},
               {{"image-updater.api"}, {"image-updater.api", "cluster-scoped"}}, {}, {}, 1, 1),
   agent |->
     PartOf(Of(Principal, {"ServiceAccount", "Role", "RoleBinding", "Deployment"})
                 \cup Of(AgentSide, {"Deployment"}),
               SUBSET {"agent-principal", "agent-agent"},
               {{}, {"custom-agent-role"}}, {}, {}, 1, 1),
   cluster |->
     PartOf({<<"ClusterRole", "application-controller">>,
                <<"ClusterRole", "application-controller-view">>,
                <<"ClusterRoleBinding", "application-controller">>},
               SUBSET {"default-role.disabled", "aggregated"},
               {{}, {"cluster-scoped"}}, {}, {}, 1, 2),
   secrets |->
     PartOf({Sec(name) : name \in {"ca", "cluster", "tls", "argocd-secret",
                                   "default-cluster-config"}} \cup {CfgMap("argocd-ca")},
               {{}, {"webhooks"}, {"dex", "dex.openshift"}},
               {{}, {"cluster-scoped"}, {"dex.token"}}, {"dex.token"}, {}, 1, 1),
   everything |->
     PartOf({}, {{}, Full}, {FullFacts}, {}, {}, 1, 0),
   others |->
     PartOf({Policy("server"), Policy("redis"), Monitor("metrics"),
                CfgMap("argocd-tls-certs-cm"), Rt("grafana"), Ing("prometheus")},
               SUBSET {"prometheus", "netpol.disabled"},
               {{"prometheus.api", "route.api"}}, {},
               {Rt("grafana"), Ing("prometheus")}, 1, 1)]

AllScenes == Tabulated([name \in DOMAIN SceneTable |-> MakeScene(SceneTable[name])])

MCScene == AllScenes

(* The scenes for liveness, with one fault. *)
LiveScenes ==
  Tabulated([name \in {"repo", "dex", "controller", "notifications", "agent", "cluster",
                       "others"} |->
               MakeScene([SceneTable[name] EXCEPT !.budget = 1])])

MCLiveScene == LiveScenes
=============================================================================
