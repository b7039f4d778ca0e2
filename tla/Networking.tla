----------------------------- MODULE Networking -----------------------------
(***************************************************************************)
(* Services, autoscalers, ingresses and routes: service.go, hpa.go,        *)
(* ingress.go, route.go and the Service of repo_server.go, in              *)
(* src/controllers/argocd.                                                 *)
(***************************************************************************)
EXTENDS Resources

Svc(name) == <<"Service", name>>
Ing(name) == <<"Ingress", name>>
Rt(name) == <<"Route", name>>

(* The annotation that asks OpenShift for a serving certificate. It is not *)
(* added while a TLS secret exists that OpenShift did not create.          *)
ensureAutoTLSAnnotation(r, wanted, userSecret, on) ==
  LET annotation(set) == [f \in {"autotls"} |-> IF set THEN Fixed ELSE NoValue]
      api == RouteAPI(on)
  IN [r EXCEPT
        !.created = With(@, annotation(api /\ wanted /\ ~userSecret)),
        !.updated = IF api THEN With(@, annotation(wanted)) ELSE @,
        !.sparing = IF userSecret THEN @ \cup {"autotls"} ELSE @]

RedisAutoTLS(r, on) ==
  ensureAutoTLSAnnotation(r, "redis.autotls" \in on, "redis.tls.user" \in on, on)
RepoAutoTLS(r, on) ==
  ensureAutoTLSAnnotation(r, "repo.autotls" \in on, "repo.tls.user" \in on, on)
ServerAutoTLS(r, on) ==
  ensureAutoTLSAnnotation(r, "server.autotls" \in on, "server.tls.user" \in on, on)

(* A Service whose selector and ports are set when it is created. *)
Endpoint(name, wanted) ==
  Resource(Svc(name), wanted, Constants({"selector", "ports"}), {})

reconcileGrafanaService(on) == Legacy(Svc("grafana"), "grafana" \notin on)

reconcileMetricsService(on) == Endpoint("metrics", TRUE)

(* The loop over the announce Services goes on to the next one only after  *)
(* it has created one: it returns at the first that exists, and, when      *)
(* Redis does not run in HA mode, at the first that does not.              *)
AnnounceService(i) == <<"Service", "redis-ha-announce", i>>

reconcileRedisHAAnnounceServices(on) ==
  [i \in 1..3 |->
     After(Resource(AnnounceService(i - 1), HA(on) /\ RedisEnabled(on),
                    Constants({"selector", "ports", "publish", "annotations"}),
                    {}),
           IF i = 1 THEN <<>> ELSE <<"create", AnnounceService(i - 2)>>)]

reconcileRedisHAMasterService(on) ==
  Endpoint("redis-ha", HA(on) /\ RedisEnabled(on))

reconcileRedisHAProxyService(on) ==
  RedisAutoTLS(Endpoint("redis-ha-haproxy", HA(on) /\ RedisEnabled(on)), on)

reconcileRedisHAServices(on) ==
  reconcileRedisHAAnnounceServices(on)
    \o <<reconcileRedisHAMasterService(on), reconcileRedisHAProxyService(on)>>

(* A Service that HA mode or a remote Redis makes superfluous is deleted   *)
(* only once its annotation is as it should be.                            *)
reconcileRedisService(on) ==
  LET superfluous == HA(on) \/ RedisRemote(on)
  IN DeletedLateIf(
       DoomedIf(RedisAutoTLS(Endpoint("redis", RedisEnabled(on) /\ ~superfluous), on),
                ~RedisEnabled(on)),
       superfluous)

reconcileRepoService(on) ==
  DeletedLateIf(
    DoomedIf(RepoAutoTLS(Endpoint("repo-server", RepoEnabled(on) /\ ~RepoRemote(on)), on),
             ~RepoEnabled(on)),
    RepoRemote(on))

reconcileServerMetricsService(on) == Endpoint("server-metrics", TRUE)

reconcileServerService(on) ==
  ServerAutoTLS(
    Resource(Svc("server"), ServerEnabled(on),
             With(Constants({"selector", "ports"}), Settings({"type"})), {"type"}),
    on)

(* An error of the Service of Dex is only logged. *)
reconcileServices(dexService, on) ==
  <<dexService, reconcileGrafanaService(on), reconcileMetricsService(on)>>
    \o reconcileRedisHAServices(on)
    \o <<reconcileRedisService(on), reconcileRepoService(on),
         reconcileServerMetricsService(on), reconcileServerService(on)>>
-----------------------------------------------------------------------------
(* The HorizontalPodAutoscaler of the server has no owner reference, and   *)
(* does not ask whether the server is enabled. It is compared only if the  *)
(* ArgoCD resource gives a specification of it.                            *)
reconcileServerHPA(on) ==
  LET given == "server.hpa" \in on
  IN Unowned(Resource(<<"HorizontalPodAutoscaler", "server">>,
                      "server.autoscale" \in on,
                      IF given THEN Settings({"spec"}) ELSE Constants({"spec"}),
                      IF given THEN {"spec"} ELSE {}))

reconcileAutoscalers(on) == <<reconcileServerHPA(on)>>
-----------------------------------------------------------------------------
(* A new Ingress has default annotations unless the resource gives some;   *)
(* an existing one is given the annotations of the resource.               *)
reconcileArgoServerIngress(on) ==
  LET given == "server.ingress.annotations" \in on
      others == Settings({"class", "rules", "tls"})
      annotated(values) ==
        With(others, IF given THEN Settings({"annotations"}) ELSE values)
  IN Updating(Resource(Ing("server"), "server.ingress" \in on,
                       annotated(Constants({"annotations"})), {}),
              annotated(Absent({"annotations"})))

reconcileArgoServerGRPCIngress(on) ==
  Resource(Ing("grpc"), "server.grpc.ingress" \in on,
           Settings({"annotations", "class", "rules", "tls"}), {})

reconcileGrafanaIngress(on) ==
  Legacy(Ing("grafana"), "grafana" \notin on \/ "grafana.ingress" \notin on)

reconcilePrometheusIngress(on) == Legacy(Ing("prometheus"), TRUE)

reconcileApplicationSetControllerIngress(on) ==
  Resource(Ing("applicationset"), {"appset", "appset.ingress"} \subseteq on,
           Settings({"annotations", "rules", "tls"}), {})

reconcileIngresses(on) ==
  <<reconcileArgoServerIngress(on), reconcileArgoServerGRPCIngress(on),
    reconcileGrafanaIngress(on), reconcilePrometheusIngress(on),
    reconcileApplicationSetControllerIngress(on)>>
-----------------------------------------------------------------------------
reconcileGrafanaRoute(on) ==
  Legacy(Rt("grafana"), "grafana" \notin on \/ "grafana.route" \notin on)

reconcilePrometheusRoute(on) == Legacy(Rt("prometheus"), TRUE)

(* A certificate that the resource refers to must be in a TLS secret.      *)
(* Without one of its own the resource leaves the choice of the            *)
(* termination to the caller.                                              *)
overrideRouteTLS(r, certificate, on) ==
  FailingIf(r, certificate \in on /\ "certificate-secret" \notin on)

(* The host, the annotations and the wildcard policy of the resource       *)
(* override those of the Route only if it gives some.                      *)
Overridden(r, overrides, on) ==
  LET fields == {"host", "annotations", "wildcard"}
  IN IF overrides \in on
     THEN [r EXCEPT !.created = With(@, Settings(fields)),
                    !.updated = With(@, Settings(fields))]
     ELSE [r EXCEPT !.created = With(@, Absent(fields))]

reconcileServerRoute(on) ==
  LET fields == {"port", "tls", "to", "path"}
  IN overrideRouteTLS(
       Overridden(Resource(Rt("server"), "server.route" \in on,
                           Settings(fields), fields),
                  "server.route.overrides", on),
       "server.route.certificate", on)

(* The default host needs the Ingress configuration of the cluster. *)
reconcileApplicationSetControllerWebhookRoute(on) ==
  LET fields == {"port", "tls", "to", "host"}
      route == overrideRouteTLS(
                 Resource(Rt("applicationset-webhook"),
                          {"appset", "appset.route"} \subseteq on,
                          Settings(fields), fields),
                 "appset.route.certificate", on)
  IN FailingIf(route,
               \/ route.fails
               \/ "appset.host" \notin on /\ "ingress-config" \notin on)

reconcileRoutes(on) ==
  <<reconcileGrafanaRoute(on), reconcilePrometheusRoute(on),
    reconcileServerRoute(on), reconcileApplicationSetControllerWebhookRoute(on)>>
=============================================================================
