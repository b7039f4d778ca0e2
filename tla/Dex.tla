--------------------------------- MODULE Dex --------------------------------
(***************************************************************************)
(* Single sign-on: sso.go and dex.go of src/controllers/argocd. The        *)
(* resources of Dex are looked after first of all, before the roles and    *)
(* service accounts, if the configuration is legal; what remains of them   *)
(* is deleted later in the pass, with the other Services and Deployments.  *)
(***************************************************************************)
EXTENDS Resources

(* Dex needs a configuration, and no other provider may be named or        *)
(* configured. "sso.other" stands for Keycloak, for an unknown provider,   *)
(* and for the settings of Dex without a provider.                         *)
IllegalSSO(on) ==
  \/ "sso.other" \in on
  \/ UseDex(on) /\ on \cap {"dex.openshift", "dex.config"} = {}

DexRole(on) == Resource(<<"Role", "dex-server">>, UseDex(on), Constants({"rules"}), {"rules"})

DexRoleBinding(on) ==
  Resource(<<"RoleBinding", "dex-server">>, UseDex(on), Constants({"subjects"}), {"subjects"})

DexServiceAccount(on) ==
  Resource(<<"ServiceAccount", "dex-server">>, UseDex(on),
           Constants({"owner"}), {})

(* The service account tells OpenShift where to send the users back to. *)
reconcileDexServiceAccount(on) ==
  OnlyIf(Updating(Kept(DexServiceAccount(on)), Settings({"redirect"})),
         "dex.openshift" \in on)

reconcileDexService(on) ==
  Resource(<<"Service", "dex-server">>, UseDex(on), Constants({"selector", "ports"}), {})

DexManifest ==
  With(Settings({"image", "pullPolicy", "placement", "env", "volumes", "resources",
                 "security", "init", "annotations", "labels"}),
       Constants({"command", "probe", "ports", "serviceAccount"}))

reconcileDexDeployment(on) ==
  Needing(Resource(<<"Deployment", "dex-server">>, UseDex(on), DexManifest,
                   DOMAIN DexManifest \ {"command", "probe", "ports"}),
          {<<"ServiceAccount", "dex-server">>})

(* The binding comes with its service account and its role. All three are  *)
(* looked after twice, the first time with errors logged; such an error    *)
(* ends the first round, and the second starts at once.                    *)
reconcileServiceAccountPermissions(on) ==
  <<DexServiceAccount(on), DexRole(on), DexRoleBinding(on)>>

DexPermissions(on) ==
  <<DexRole(on), Logged(DexServiceAccount(on)), Logged(DexRole(on)),
    Logged(DexRoleBinding(on))>> \o reconcileServiceAccountPermissions(on)

(* Dex reads its configuration from argocd-cm. *)
reconcileDexResources(argoConfigMap, on) ==
  DexPermissions(on) \o <<reconcileDexServiceAccount(on)>> \o argoConfigMap
    \o <<reconcileDexService(on), reconcileDexDeployment(on)>>

(* An illegal configuration ends the pass with an error. *)
reconcileSSO(argoConfigMap, on) ==
  <<Refused("sso", IllegalSSO(on))>>
    \o Guarded(reconcileDexResources(argoConfigMap, on), UseDex(on))
=============================================================================
