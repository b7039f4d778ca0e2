---------------------------- MODULE ImageUpdater ----------------------------
(***************************************************************************)
(* The resources of the image updater: image_updater.go of                 *)
(* src/controllers/argocd. It watches its own namespace, a list of         *)
(* namespaces ("image-updater.list"; the list has one, "watched"), or all  *)
(* of them ("image-updater.all").                                          *)
(***************************************************************************)
EXTENDS Resources

UpdaterObj(kind) == <<kind, "image-updater">>
UpdaterEnabled(on) == "image-updater" \in on
WatchesAll(on) == "image-updater.all" \in on
WatchesList(on) == "image-updater.list" \in on /\ ~WatchesAll(on)

reconcileImageUpdaterServiceAccount(on) ==
  Resource(UpdaterObj("ServiceAccount"), UpdaterEnabled(on), Constants({"owner"}), {})

reconcileRoleHelper(obj, wanted, rules) ==
  Resource(obj, wanted, [f \in {"rules"} |-> rules], {"rules"})

(* In its own namespace alone the updater has all rules in one role. *)
reconcileImageUpdaterRole(on) ==
  reconcileRoleHelper(UpdaterObj("Role"), UpdaterEnabled(on),
                      IF WatchesAll(on) \/ WatchesList(on) THEN "base" ELSE "all")

reconcileRoleBindingHelper(obj, wanted) ==
  Resource(obj, wanted, Constants({"subjects"}), {"subjects"})

reconcileImageUpdaterRoleBinding(on) ==
  reconcileRoleBindingHelper(UpdaterObj("RoleBinding"), UpdaterEnabled(on))

(* Cluster-wide objects are deleted when all namespaces are no longer      *)
(* watched.                                                                *)
reconcileImageUpdaterClusterRole(on) ==
  Unowned(reconcileRoleHelper(UpdaterObj("ClusterRole"),
                              UpdaterEnabled(on) /\ WatchesAll(on), "manager"))

reconcileImageUpdaterClusterRoleBinding(on) ==
  Unowned(reconcileRoleBindingHelper(UpdaterObj("ClusterRoleBinding"),
                                     UpdaterEnabled(on) /\ WatchesAll(on)))

deleteImageUpdaterClusterRBAC(on) ==
  Guarded(<<Legacy(UpdaterObj("ClusterRole"), TRUE),
            Legacy(UpdaterObj("ClusterRoleBinding"), TRUE)>>,
          ~WatchesAll(on))

reconcileImageUpdaterRoleForNamespace(on) ==
  Unowned(reconcileRoleHelper(<<"Role", "image-updater", "watched">>,
                              UpdaterEnabled(on) /\ WatchesList(on), "manager"))

reconcileImageUpdaterRoleBindingForNamespace(on) ==
  Unowned(reconcileRoleBindingHelper(<<"RoleBinding", "image-updater", "watched">>,
                                     UpdaterEnabled(on) /\ WatchesList(on)))

(* Roles in a namespace that is no longer in the list are found by label. *)
pruneImageUpdaterNamespaceRBAC(on) ==
  Guarded(<<Legacy(<<"Role", "image-updater", "watched">>, TRUE),
            Legacy(<<"RoleBinding", "image-updater", "watched">>, TRUE)>>,
          ~(UpdaterEnabled(on) /\ WatchesList(on)))

reconcileSecretConfigMapHelper(obj, on) ==
  Resource(obj, UpdaterEnabled(on), Constants({"owner"}), {})

reconcileImageUpdaterSecret(on) ==
  reconcileSecretConfigMapHelper(<<"Secret", "argocd-image-updater-secret">>, on)

reconcileImageUpdaterConfigMap(name, on) ==
  reconcileSecretConfigMapHelper(<<"ConfigMap", name>>, on)

UpdaterManifest ==
  With(Settings({"args", "image", "pullPolicy", "env", "resources", "placement"}),
       Constants({"command", "volumes", "security", "serviceAccount", "labels",
                  "selector", "strategy", "probe"}))

reconcileImageUpdaterDeployment(on) ==
  Immutable(Needing(Resource(UpdaterObj("Deployment"), UpdaterEnabled(on),
                             UpdaterManifest,
                             DOMAIN UpdaterManifest \ {"strategy", "probe"}),
                    {UpdaterObj("ServiceAccount"),
                     <<"ConfigMap", "argocd-tls-certs-cm">>}),
            {"selector"})

ConfigOf(on) ==
  <<reconcileImageUpdaterSecret(on),
    reconcileImageUpdaterConfigMap("argocd-image-updater-config", on),
    reconcileImageUpdaterConfigMap("argocd-image-updater-ssh-config", on)>>

(* All namespaces are for an instance that may have cluster-wide access. *)
reconcileImageUpdaterControllerEnabled(on) ==
  <<reconcileImageUpdaterServiceAccount(on)>>
    \o deleteImageUpdaterClusterRBAC(on)
    \o <<Refused("image-updater", WatchesAll(on) /\ "cluster-scoped" \notin on),
         reconcileImageUpdaterRole(on), reconcileImageUpdaterRoleBinding(on)>>
    \o Guarded(<<reconcileImageUpdaterClusterRole(on),
                 reconcileImageUpdaterClusterRoleBinding(on)>>, WatchesAll(on))
    \o Guarded(<<reconcileImageUpdaterRoleForNamespace(on),
                 reconcileImageUpdaterRoleBindingForNamespace(on)>>, WatchesList(on))
    \o pruneImageUpdaterNamespaceRBAC(on)
    \o ConfigOf(on)
    \o <<reconcileImageUpdaterDeployment(on)>>

reconcileImageUpdaterControllerDisabled(on) ==
  <<Legacy(<<"NetworkPolicy", "image-updater">>, TRUE),
    reconcileImageUpdaterDeployment(on), reconcileImageUpdaterRoleBinding(on),
    reconcileImageUpdaterClusterRoleBinding(on), reconcileImageUpdaterServiceAccount(on),
    reconcileImageUpdaterRole(on), reconcileImageUpdaterClusterRole(on)>>
    \o pruneImageUpdaterNamespaceRBAC(on)
    \o ConfigOf(on)

reconcileImageUpdaterController(on) ==
  Guarded(IF UpdaterEnabled(on) THEN reconcileImageUpdaterControllerEnabled(on)
          ELSE reconcileImageUpdaterControllerDisabled(on),
          "image-updater.api" \in on)
=============================================================================
