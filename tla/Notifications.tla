---------------------------- MODULE Notifications ---------------------------
(***************************************************************************)
(* The resources of the notifications controller: notifications.go of      *)
(* src/controllers/argocd. A pass creates and deletes them in one order;   *)
(* the handler of the event that notifications were disabled deletes them  *)
(* in another.                                                             *)
(***************************************************************************)
EXTENDS Resources

NotifObj(kind) == <<kind, "notifications-controller">>

(* Enabled; "notifications.spec" says that some other setting of the       *)
(* section is given.                                                       *)
isNotificationsEnabled(on) == "notifications" \in on

(* Without a setting a pass does not look at the resources, unless a       *)
(* namespace has notifications of its own.                                 *)
NotificationsReached(on) ==
  on \cap {"notifications", "notifications.spec", "notifications.managed"} # {}

reconcileNotificationsServiceAccount(on) ==
  Resource(NotifObj("ServiceAccount"), isNotificationsEnabled(on),
           Constants({"owner"}), {})

reconcileNotificationsRole(on) ==
  Resource(NotifObj("Role"), isNotificationsEnabled(on),
           Constants({"rules"}), {"rules"})

reconcileNotificationsRoleBinding(on) ==
  Resource(NotifObj("RoleBinding"), isNotificationsEnabled(on),
           Constants({"subjects"}), {"subjects"})

reconcileNotificationsClusterRole(on) ==
  Unowned(Resource(NotifObj("ClusterRole"),
                   isNotificationsEnabled(on) /\ "cluster-scoped" \in on,
                   Constants({"rules"}), {"rules"}))

reconcileNotificationsClusterRoleBinding(on) ==
  Unowned(Resource(NotifObj("ClusterRoleBinding"),
                   isNotificationsEnabled(on) /\ "cluster-scoped" \in on,
                   Constants({"subjects"}), {"subjects"}))

(* The NotificationsConfiguration is created with default content, without *)
(* an owner reference, and never changed.                                  *)
reconcileNotificationsConfigurationCR(on) ==
  Unowned(Resource(<<"NotificationsConfiguration", "default">>,
                   isNotificationsEnabled(on), Constants({"spec"}), {}))

reconcileNotificationsSecret(on) ==
  Resource(<<"Secret", "argocd-notifications-secret">>, isNotificationsEnabled(on),
           Constants({"owner"}), {})

(* What the manifest does not overwrite is taken from the live Deployment, *)
(* and so never differs from it.                                           *)
reconcileDeploymentHelper(obj, wanted, overwritten, fromLive) ==
  Resource(obj, wanted, With(overwritten, fromLive), DOMAIN overwritten)

reconcileNotificationsDeployment(on) ==
  Needing(reconcileDeploymentHelper(
            NotifObj("Deployment"), isNotificationsEnabled(on),
            With(Settings({"command", "image", "env", "resources"}),
                 Constants({"volumes", "security", "serviceAccount"})),
            With(Settings({"placement"}),
                 Constants({"labels", "selector", "replicas"}))),
          {NotifObj("ServiceAccount"), <<"ConfigMap", "argocd-tls-certs-cm">>})

(* Neither the Service nor the ServiceMonitor asks whether notifications   *)
(* are enabled, and neither is ever deleted.                               *)
reconcileNotificationsMetricsService(on) ==
  Resource(<<"Service", "notifications-controller-metrics">>, TRUE,
           Constants({"selector", "ports"}), {})

reconcileNotificationsServiceMonitor(on) ==
  OnlyIf(Unowned(Resource(<<"ServiceMonitor", "notifications-controller-metrics">>,
                          TRUE, With(Constants({"selector"}), Settings({"endpoints"})),
                          {"endpoints"})),
         "prometheus.api" \in on)

(* What a pass does. *)
reconcileNotificationsController(on) ==
  Guarded(
        <<reconcileNotificationsServiceAccount(on), reconcileNotificationsRole(on),
          reconcileNotificationsRoleBinding(on), reconcileNotificationsClusterRole(on),
          reconcileNotificationsClusterRoleBinding(on),
          reconcileNotificationsConfigurationCR(on), reconcileNotificationsSecret(on),
          reconcileNotificationsDeployment(on),
          reconcileNotificationsMetricsService(on),
          reconcileNotificationsServiceMonitor(on)>>,
        NotificationsReached(on))

(* What the handler does of the event that notifications were disabled. *)
deleteNotificationsResources(on) ==
  <<reconcileNotificationsDeployment(on), reconcileNotificationsMetricsService(on),
    reconcileNotificationsServiceMonitor(on), reconcileNotificationsSecret(on),
    reconcileNotificationsRoleBinding(on), reconcileNotificationsRole(on),
    reconcileNotificationsServiceAccount(on),
    reconcileNotificationsConfigurationCR(on)>>
=============================================================================
