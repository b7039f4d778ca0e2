---------------------------- MODULE Configuration ---------------------------
(***************************************************************************)
(* The ConfigMaps of Argo CD: configmap.go of src/controllers/argocd.      *)
(***************************************************************************)
EXTENDS Resources

CfgMap(name) == <<"ConfigMap", name>>

(* The owner reference is compared and set again with the data. *)
modifyOwnerReferenceIfNeeded(manifest) == With(manifest, Constants({"owner"}))

(* Dex reads its configuration from argocd-cm. If it differs there, it is  *)
(* written first, on its own, and Dex is told by a label of its            *)
(* Deployment, which the next look at the Deployment takes away again.     *)
ArgoCM == CfgMap("argocd-cm")

reconcileDexConfiguration(on) ==
  <<Amendment(ArgoCM, Settings({"dex.config"})),
    After(Amendment(<<"Deployment", "dex-server">>, [labels |-> "rollout"]),
          <<"update", ArgoCM>>)>>

(* Then all the data are compared; without Dex it has no configuration. *)
ArgoData(on) ==
  With(Settings({"data"}),
       IF UseDex(on) THEN Settings({"dex.config"}) ELSE Absent({"dex.config"}))

reconcileArgoConfigMap(on) ==
  LET manifest == modifyOwnerReferenceIfNeeded(ArgoData(on))
  IN Guarded(reconcileDexConfiguration(on), UseDex(on))
       \o <<Resource(ArgoCM, TRUE, manifest, DOMAIN manifest)>>

reconcileRedisHAConfigMap(on) ==
  LET manifest == modifyOwnerReferenceIfNeeded(Settings({"data"}))
  IN Resource(CfgMap("redis-ha"), HA(on), manifest, DOMAIN manifest)

reconcileRedisHAHealthConfigMap(on) ==
  LET manifest == modifyOwnerReferenceIfNeeded(Settings({"data"}))
  IN Resource(CfgMap("redis-ha-health"), HA(on), manifest, DOMAIN manifest)

reconcileRedisConfiguration(on) ==
  <<reconcileRedisHAConfigMap(on), reconcileRedisHAHealthConfigMap(on)>>

(* A policy that the ArgoCD resource does not give has a default when the  *)
(* ConfigMap is created, and is left alone afterwards.                     *)
RBACData(on) ==
  IF "rbac" \in on THEN Settings({"policy", "scopes"})
  ELSE Constants({"policy", "scopes"})

reconcileRBACConfigMap(on) ==
  LET manifest == modifyOwnerReferenceIfNeeded(RBACData(on))
  IN Resource(CfgMap("argocd-rbac-cm"), TRUE, manifest,
              IF "rbac" \in on THEN DOMAIN manifest ELSE {"owner"})

(* What the user may change after the ConfigMap was created. *)
InitialData(name) ==
  Resource(CfgMap(name), TRUE,
           modifyOwnerReferenceIfNeeded(Settings({"data"})), {"owner"})

reconcileSSHKnownHosts(on) == InitialData("argocd-ssh-known-hosts-cm")
reconcileTLSCerts(on) == InitialData("argocd-tls-certs-cm")

reconcileGPGKeysConfigMap(on) ==
  Resource(CfgMap("argocd-gpg-keys-cm"), TRUE, Constants({"owner"}), {"owner"})

reconcileArgoCmdParamsConfigMap(on) ==
  LET manifest == modifyOwnerReferenceIfNeeded(Settings({"data"}))
  IN Resource(CfgMap("argocd-cmd-params-cm"), TRUE, manifest, DOMAIN manifest)

reconcileConfigMaps(on) ==
  reconcileArgoConfigMap(on)
    \o reconcileRedisConfiguration(on)
    \o <<reconcileRBACConfigMap(on), reconcileSSHKnownHosts(on),
         reconcileTLSCerts(on), reconcileArgoCmdParamsConfigMap(on),
         reconcileGPGKeysConfigMap(on)>>
=============================================================================
