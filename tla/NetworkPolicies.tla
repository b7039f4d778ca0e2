--------------------------- MODULE NetworkPolicies --------------------------
(***************************************************************************)
(* The NetworkPolicies of Argo CD: networkpolicies.go of                   *)
(* src/controllers/argocd.                                                 *)
(***************************************************************************)
EXTENDS Resources

PoliciesEnabled(on) == "netpol.disabled" \notin on

Policy(name) == <<"NetworkPolicy", name>>

(* What every policy consists of. *)
PolicySpec == Constants({"podSelector", "policyTypes", "ingress"})

Policed(name, wanted) == Resource(Policy(name), wanted, PolicySpec, DOMAIN PolicySpec)

(* Redis admits the agent too, if there is one. Both policies of Redis are *)
(* kept whatever the resource says of policies and of Redis.               *)
ReconcileRedisNetworkPolicy(on) ==
  LET manifest == With(PolicySpec, Settings({"ingress"}))
  IN Resource(Policy("redis"), TRUE, manifest, DOMAIN manifest)

ReconcileRedisHANetworkPolicy(on) == Policed("redis-ha", TRUE)

ReconcileNotificationsControllerNetworkPolicy(on) ==
  Policed("notifications-controller", "notifications" \in on)

ReconcileDexServerNetworkPolicy(on) == Policed("dex-server", "dex" \in on)

ReconcileApplicationSetControllerNetworkPolicy(on) ==
  Policed("applicationset-controller",
          "appset" \in on /\ "appset.disabled" \notin on)

ReconcileArgoCDServerNetworkPolicy(on) == Policed("server", TRUE)

ReconcileArgoCDApplicationControllerNetworkPolicy(on) ==
  Policed("application-controller", TRUE)

ReconcileArgoCDRepoServerNetworkPolicy(on) == Policed("repo-server", TRUE)

(* Deleted with the other resources of the image updater when that is      *)
(* disabled, and with the other policies when those are.                   *)
reconcileImageUpdaterNetworkPolicy(on) ==
  OnlyIf(Policed("image-updater", TRUE),
         {"image-updater.api", "image-updater"} \subseteq on /\ PoliciesEnabled(on))

deleteArgoCDNetworkPolicies(on) ==
  LET names == <<"notifications-controller", "dex-server",
                 "applicationset-controller", "server", "application-controller",
                 "repo-server", "image-updater">>
  IN [i \in DOMAIN names |-> Legacy(Policy(names[i]), TRUE)]

ReconcileNetworkPolicies(on) ==
  <<reconcileImageUpdaterNetworkPolicy(on), ReconcileRedisNetworkPolicy(on),
    ReconcileRedisHANetworkPolicy(on)>>
    \o (IF PoliciesEnabled(on)
        THEN <<ReconcileNotificationsControllerNetworkPolicy(on),
               ReconcileDexServerNetworkPolicy(on),
               ReconcileApplicationSetControllerNetworkPolicy(on),
               ReconcileArgoCDServerNetworkPolicy(on),
               ReconcileArgoCDApplicationControllerNetworkPolicy(on),
               ReconcileArgoCDRepoServerNetworkPolicy(on)>>
        ELSE deleteArgoCDNetworkPolicies(on))
=============================================================================
