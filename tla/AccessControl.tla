---------------------------- MODULE AccessControl ---------------------------
(***************************************************************************)
(* The service accounts of the components of Argo CD, their roles in the   *)
(* namespace of the ArgoCD resource, and their cluster-wide roles:         *)
(* role.go, rolebinding.go and service_account.go of                       *)
(* src/controllers/argocd. Other namespaces, and roles that the            *)
(* administrator of the operator supplies, are in ManagedNamespaces.       *)
(***************************************************************************)
EXTENDS Resources

Components == <<"application-controller", "dex-server", "server", "redis-ha", "redis">>

(* Bug variant: Dex is taken to be looked after elsewhere. *)
InstalledButDex(name, on) ==
  CASE name = "application-controller" -> ControllerEnabled(on)
    [] name = "dex-server" -> FALSE
    [] name = "server" -> ServerEnabled(on)
    [] name = "redis" -> RedisEnabled(on)
    [] OTHER -> TRUE

(* Whether the component is installed. Redis HA is not asked about. *)
Installed(name, on) ==
  CASE name = "application-controller" -> ControllerEnabled(on)
    [] name = "dex-server" -> "dex" \in on
    [] name = "server" -> ServerEnabled(on)
    [] name = "redis" -> RedisEnabled(on)
    [] OTHER -> TRUE

(* A service account is created and never changed; only the one of Dex is  *)
(* ever deleted.                                                           *)
reconcileServiceAccount(name, on) ==
  Resource(<<"ServiceAccount", name>>, name = "dex-server" => "dex" \in on,
           Constants({"owner"}), {})

reconcileRole(name, on) ==
  Resource(<<"Role", name>>, Installed(name, on), Constants({"rules"}), {"rules"})

RoleBindingFor(name, on) ==
  Resource(<<"RoleBinding", name>>, Installed(name, on), Constants({"subjects"}),
           {"subjects"})

(* The service account and the role are looked after with the binding. *)
reconcileRoleBinding(name, on) ==
  <<reconcileServiceAccount(name, on), reconcileRole(name, on),
    RoleBindingFor(name, on)>>
-----------------------------------------------------------------------------
(* Cluster-wide roles are for the instances that the administrator allows  *)
(* to have them ("cluster-scoped"). Such an instance may do without the    *)
(* default roles, or have them aggregated from other roles.                *)
Custom(on) == "default-role.disabled" \in on
Aggregated(on) == {"cluster-scoped", "aggregated"} \subseteq on

verifyInstallationMode(on) == ~{"default-role.disabled", "aggregated"} \subseteq on

DefaultRole(on) == "cluster-scoped" \in on /\ ~Custom(on)

(* In aggregated mode Kubernetes fills in the rules of the controller, and *)
(* those of the server are left alone.                                     *)
matchDefaultClusterRoleFields(name) ==
  With(Constants({"rules"}),
       IF name = "application-controller" THEN Absent({"aggregation"}) ELSE <<>>)

matchAggregatedClusterRoleFields(name) ==
  IF name = "application-controller"
  THEN [f \in {"rules", "aggregation"} |-> "aggregated"] ELSE <<>>

reconcileClusterRole(name, on) ==
  LET default == matchDefaultClusterRoleFields(name)
      match == IF Aggregated(on) THEN matchAggregatedClusterRoleFields(name)
               ELSE default
  IN Updating(Unowned(Resource(<<"ClusterRole", name>>, DefaultRole(on),
                               With(default, match), {})),
              match)

(* The roles that the controller's is aggregated from. *)
aggregatedPart(name, on) ==
  Unowned(Resource(<<"ClusterRole", name>>, DefaultRole(on) /\ Aggregated(on),
                   Constants({"labels"}), {"labels"}))

ModeCheck(on) ==
  Refused("roles", "cluster-scoped" \in on /\ ~verifyInstallationMode(on))

(* An error of the check is swallowed here. *)
reconcileClusterRoleBinding(name, on) ==
  OnlyIf(Unowned(Resource(<<"ClusterRoleBinding", name>>, DefaultRole(on),
                          Constants({"subjects"}), {"subjects"})),
         verifyInstallationMode(on))

reconcileServiceAccountClusterPermissions(name, on) ==
  <<reconcileServiceAccount(name, on), ModeCheck(on), reconcileClusterRole(name, on),
    reconcileClusterRoleBinding(name, on)>>
-----------------------------------------------------------------------------
reconcileRoles(on) ==
  [i \in DOMAIN Components |-> reconcileRole(Components[i], on)]
    \o <<ModeCheck(on), reconcileClusterRole("application-controller", on),
         reconcileClusterRole("server", on),
         aggregatedPart("application-controller-view", on),
         aggregatedPart("application-controller-admin", on)>>

reconcileRoleBindings(on) ==
  reconcileRoleBinding(Components[1], on)
    \o reconcileRoleBinding(Components[2], on)
    \o reconcileRoleBinding(Components[3], on)
    \o reconcileRoleBinding(Components[4], on)
    \o reconcileRoleBinding(Components[5], on)

reconcileServiceAccounts(on) ==
  reconcileRoleBindings(on)
    \o reconcileServiceAccountClusterPermissions("application-controller", on)
    \o reconcileServiceAccountClusterPermissions("server", on)
=============================================================================
