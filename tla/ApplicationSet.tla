---------------------------- MODULE ApplicationSet --------------------------
(***************************************************************************)
(* The resources of the ApplicationSet controller in the namespace of the  *)
(* ArgoCD resource: applicationset.go of src/controllers/argocd. What it   *)
(* creates in other namespaces is not modelled.                            *)
(***************************************************************************)
EXTENDS Resources

AppSetObj(kind) == <<kind, "applicationset-controller">>

(* Specified, and not disabled. *)
AppSetEnabled(on) == "appset" \in on /\ "appset.disabled" \notin on

reconcileApplicationSetServiceAccount(on) ==
  Resource(AppSetObj("ServiceAccount"), AppSetEnabled(on), Constants({"owner"}), {})

(* The Role and the RoleBinding are written on every pass. The role that a *)
(* binding refers to cannot be changed, and is left out.                   *)
reconcileApplicationSetRole(on) ==
  Resource(AppSetObj("Role"), AppSetEnabled(on), Constants({"rules"}), {"rules"})

reconcileApplicationSetRoleBinding(on) ==
  Resource(AppSetObj("RoleBinding"), AppSetEnabled(on),
           Constants({"subjects"}), {"subjects"})

(* The command is computed from the namespaces that both the applications  *)
(* and the application sets may be in. *)
getArgoApplicationSetCommand(on) ==
  [f \in {"command"} |->
     IF {"cluster-scoped", "source-namespace"} \subseteq on THEN "namespaces"
     ELSE Current]

ApplicationSetManifest(on) ==
  With(Settings({"image", "env", "volumes", "resources", "placement", "security",
                 "annotations", "labels"}),
       With(getArgoApplicationSetCommand(on), Constants({"selector", "serviceAccount"})))

(* If one of the compared fields differs, all of them are set. *)
reconcileApplicationSetDeployment(on) ==
  Needing(Resource(AppSetObj("Deployment"), AppSetEnabled(on),
                   ApplicationSetManifest(on), DOMAIN ApplicationSetManifest(on)),
          {AppSetObj("ServiceAccount"), <<"ConfigMap", "argocd-ssh-known-hosts-cm">>,
           <<"ConfigMap", "argocd-tls-certs-cm">>,
           <<"ConfigMap", "argocd-gpg-keys-cm">>})

reconcileApplicationSetService(on) ==
  Resource(AppSetObj("Service"), AppSetEnabled(on),
           Constants({"ports", "selector"}), {})

(* Cluster-wide objects have no owner reference. *)
reconcileApplicationSetClusterRole(on) ==
  Unowned(Resource(AppSetObj("ClusterRole"),
                   AppSetEnabled(on) /\ "cluster-scoped" \in on,
                   Constants({"rules"}), {"rules"}))

reconcileApplicationSetClusterRoleBinding(on) ==
  Unowned(Resource(AppSetObj("ClusterRoleBinding"),
                   AppSetEnabled(on) /\ "cluster-scoped" \in on,
                   Constants({"subjects"}), {"subjects"}))

reconcileApplicationSetController(on) ==
  <<reconcileApplicationSetServiceAccount(on), reconcileApplicationSetRole(on),
    reconcileApplicationSetRoleBinding(on), reconcileApplicationSetDeployment(on),
    reconcileApplicationSetService(on), reconcileApplicationSetClusterRole(on),
    reconcileApplicationSetClusterRoleBinding(on)>>
=============================================================================
