------------------------------ MODULE Workloads -----------------------------
(***************************************************************************)
(* The Deployments and StatefulSets of Argo CD: deployment.go,             *)
(* statefulset.go and repo_server.go of src/controllers/argocd.            *)
(***************************************************************************)
EXTENDS Resources

Depl(name) == <<"Deployment", name>>
Sts(name) == <<"StatefulSet", name>>
SA(name) == <<"ServiceAccount", name>>
CM(name) == <<"ConfigMap", name>>
RedisAuth == <<"Secret", "redis-initial-password">>

(* What the pods of every workload are computed from. *)
PodFields == {"image", "pullPolicy", "placement", "env", "volumes",
              "resources", "security"}
-----------------------------------------------------------------------------
RedisManifest ==
  With(Settings(PodFields \cup {"args", "annotations", "labels"}),
       Constants({"ports", "serviceAccount"}))

(* Bug variant: a Deployment that exists is kept when HA mode is enabled. *)
RedisDeploymentKeptInHA(on) ==
  DoomedIf(Resource(Depl("redis"),
                    RedisEnabled(on) /\ ~RedisRemote(on) /\ ~HA(on),
                    RedisManifest, DOMAIN RedisManifest \ {"ports"}),
           ~RedisEnabled(on) \/ RedisRemote(on))

reconcileRedisDeployment(on) ==
  Needing(Resource(Depl("redis"),
                   RedisEnabled(on) /\ ~RedisRemote(on) /\ ~HA(on),
                   RedisManifest, DOMAIN RedisManifest \ {"ports"}),
          {SA("redis"), RedisAuth})

HAProxyManifest ==
  With(Settings(PodFields \cup {"init", "replicas"}),
       Constants({"affinity", "probe", "ports", "strategy", "serviceAccount"}))

(* Only HA mode decides: the proxy is kept if Redis is disabled or remote. *)
reconcileRedisHAProxyDeployment(on) ==
  Needing(Resource(Depl("redis-ha-haproxy"), HA(on), HAProxyManifest,
                   DOMAIN HAProxyManifest \ {"affinity", "probe", "ports"}),
          {SA("redis-ha"), CM("redis-ha"), RedisAuth})

RepoManifest ==
  With(Settings(PodFields \cup {"args", "command", "init", "sidecars", "replicas",
                                "automount", "serviceAccount", "annotations",
                                "labels"}),
       Constants({"ports", "probe"}))

(* Whether a remote repo server is respected depends on Redis when the     *)
(* Deployment is created, and on the repo server alone when it exists.     *)
reconcileRepoDeployment(on) ==
  Needing(DoomedIf(Resource(Depl("repo-server"),
                            RepoEnabled(on) /\ ~(RedisEnabled(on) /\ RepoRemote(on)),
                            RepoManifest, DOMAIN RepoManifest \ {"ports", "probe"}),
                   ~RepoEnabled(on) \/ RepoRemote(on)),
          {CM("argocd-ssh-known-hosts-cm"), CM("argocd-tls-certs-cm"),
           CM("argocd-gpg-keys-cm"), RedisAuth})

ServerManifest ==
  With(Settings(PodFields \cup {"args", "command", "init", "sidecars", "replicas",
                                "annotations", "labels"}),
       Constants({"ports", "probe", "serviceAccount"}))

(* Bug variant: the environment is not compared. *)
ServerDeploymentStaleEnv(on) ==
  Resource(Depl("server"), ServerEnabled(on), ServerManifest,
           DOMAIN ServerManifest \ {"ports", "probe", "env"})

(* The replicas are left to the autoscaler while there is one. *)
reconcileServerDeployment(on) ==
  LET compared == DOMAIN ServerManifest \ {"ports", "probe"}
  IN Needing(Resource(Depl("server"), ServerEnabled(on), ServerManifest,
                      IF "server.autoscale" \in on THEN compared \ {"replicas"}
                      ELSE compared),
             {SA("server"), CM("argocd-ssh-known-hosts-cm"),
              CM("argocd-tls-certs-cm"), RedisAuth})

(* Nothing is done for Grafana any more. An error of the Deployment of Dex *)
(* is only logged.                                                         *)
reconcileDeployments(dexDeployment, on) ==
  <<dexDeployment, reconcileRedisDeployment(on),
    reconcileRedisHAProxyDeployment(on), reconcileRepoDeployment(on),
    reconcileServerDeployment(on)>>
-----------------------------------------------------------------------------
(* A StatefulSet whose name an earlier version of the operator did not     *)
(* shorten enough. The one with the new name is created by the pass after  *)
(* the one that deletes it.                                                *)
OldName(sts, on) ==
  LET old == <<"StatefulSet", "old", sts.obj[2]>>
  IN <<Legacy(old, "long-name" \in on), NotAfterDeleting(sts, old, sts.obj)>>

RedisHAManifest ==
  With(Settings(PodFields \cup {"init", "annotations", "labels"}),
       Constants({"affinity", "replicas", "serviceName", "serviceAccount"}))

(* A StatefulSet that exists is kept if a remote Redis is configured. *)
reconcileRedisStatefulSet(on) ==
  OldName(
    Needing(DoomedIf(Resource(Sts("redis-ha-server"),
                              RedisEnabled(on) /\ ~RedisRemote(on) /\ HA(on),
                              RedisHAManifest,
                              PodFields \cup {"init", "annotations", "labels"}),
                     ~HA(on) \/ ~RedisEnabled(on)),
            {SA("redis-ha"), CM("redis-ha"), CM("redis-ha-health"), RedisAuth}),
    on)

ControllerManifest ==
  With(Settings(PodFields \cup {"command", "init", "sidecars", "replicas",
                                "annotations", "labels"}),
       Constants({"ports", "probe", "affinity", "serviceAccount"}))

(* The StatefulSet of a pod whose image cannot be pulled is deleted and    *)
(* created again. Deleting it fails if it is already gone while its pod is *)
(* still there.                                                            *)
containsInvalidImage(on) ==
  OnlyIf([Legacy(Sts("application-controller"), TRUE) EXCEPT
            !.wanted = TRUE, !.fails = TRUE],
         "invalid-image" \in on)

(* A Deployment of an earlier version is deleted when the StatefulSet is   *)
(* about to be created.                                                    *)
reconcileApplicationControllerStatefulSet(on) ==
  LET sts == OldName(
               Needing(Resource(Sts("application-controller"), ControllerEnabled(on),
                                ControllerManifest,
                                DOMAIN ControllerManifest
                                  \ {"ports", "probe", "affinity", "serviceAccount"}),
                       {SA("application-controller"), RedisAuth}),
               on)
  IN <<containsInvalidImage(on), sts[1],
       NotAfterDeleting(
         Unless(Legacy(Depl("application-controller"), ControllerEnabled(on)),
                Sts("application-controller")),
         sts[1].obj, sts[2].obj),
       sts[2]>>

reconcileStatefulSets(on) ==
  reconcileApplicationControllerStatefulSet(on) \o reconcileRedisStatefulSet(on)
=============================================================================
