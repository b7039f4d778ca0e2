------------------------------- MODULE Secrets ------------------------------
(***************************************************************************)
(* The Secrets of Argo CD and the ConfigMap of its certificate authority:  *)
(* secret.go and part of configmap.go of src/controllers/argocd. Most are  *)
(* generated once, and left alone from then on. The tokens of local users  *)
(* are in LocalUsers, and the namespaces of the cluster secret in          *)
(* ManagedNamespaces.                                                      *)
(***************************************************************************)
EXTENDS Resources

Sec(name) == <<"Secret", name>>

Generated(name) == Resource(Sec(name), TRUE, Constants({"owner"}), {})

reconcileClusterMainSecret(on) == Generated("cluster")
reconcileClusterCASecret(on) == Generated("ca")

(* Generated again only if one of its keys is missing. *)
reconcileRedisInitialPasswordSecret(on) == Generated("redis-initial-password")

(* The certificate of the server is signed by the certificate authority. *)
reconcileClusterTLSSecret(on) == Demanding(Generated("tls"), {Sec("ca")})

(* A copy of the certificate, made once. *)
reconcileCAConfigMap(on) ==
  Awaiting(Resource(<<"ConfigMap", "argocd-ca">>, TRUE, Constants({"data"}), {}),
           {Sec("ca")})

reconcileCertificateAuthority(on) ==
  <<reconcileClusterCASecret(on), reconcileCAConfigMap(on)>>

(* An instance with cluster-wide access has no list of namespaces; a       *)
(* secret that exists is kept without it.                                  *)
reconcileClusterPermissionsSecret(on) ==
  LET everywhere == "cluster-scoped" \in on
  IN Updating(Kept(Resource(Sec("default-cluster-config"), ~everywhere,
                            Constants({"server", "namespaces"}), {})),
              IF everywhere THEN Absent({"namespaces"}) ELSE <<>>)

reconcileClusterSecrets(on) ==
  <<reconcileClusterMainSecret(on), reconcileRedisInitialPasswordSecret(on),
    reconcileClusterCASecret(on), reconcileClusterTLSSecret(on),
    reconcileClusterPermissionsSecret(on)>>

(* The keys of webhooks are copied from the Secrets that the resource      *)
(* refers to, and left alone if it says nothing of webhooks.               *)
applyDeclarativeWebhookSecrets(on) ==
  IF "webhooks" \in on THEN Settings({"webhooks"}) ELSE <<>>

DexSecret(on) == IF "dex" \in on THEN Constants({"dex"}) ELSE <<>>

(* The password and the session key of an existing Secret are left alone.  *)
reconcileExistingArgoSecret(on) ==
  With(Constants({"tls"}), With(DexSecret(on), applyDeclarativeWebhookSecrets(on)))

(* Dex asks OpenShift who the users are with the token of its service      *)
(* account.                                                                *)
reconcileArgoSecret(on) ==
  LET manifest == With(Constants({"password", "session"}),
                       reconcileExistingArgoSecret(on))
  IN Awaiting(FailingIf(Resource(Sec("argocd-secret"), TRUE, manifest,
                                 DOMAIN reconcileExistingArgoSecret(on)),
                        "dex" \in on /\ "dex.token" \notin on),
              {Sec("cluster"), Sec("tls")})

(* The token of Dex's service account is a fact here, and so are the       *)
(* Secrets that hold it.                                                   *)
reconcileSecrets(on) ==
  reconcileClusterSecrets(on) \o <<reconcileArgoSecret(on)>>
=============================================================================
