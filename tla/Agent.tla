-------------------------------- MODULE Agent -------------------------------
(***************************************************************************)
(* The principal and the agent of Argo CD Agent: src/controllers/          *)
(* argocdagent and src/controllers/argocdagent/agent. The two packages     *)
(* mirror each other; `side` is the component.                             *)
(***************************************************************************)
EXTENDS Resources

Principal == "agent-principal"
AgentSide == "agent-agent"

(* The section of the component is given, and enabled. *)
hasPrincipal(on) == Principal \in on
hasAgent(on) == AgentSide \in on

(* Both cannot be enabled. *)
AgentConflict(on) == hasPrincipal(on) /\ hasAgent(on)

ServiceAccountOf(side, enabled) ==
  Resource(<<"ServiceAccount", side>>, enabled, Constants({"owner"}), {})

(* A role that the administrator of the operator names in its environment  *)
(* replaces the Role.                                                      *)
RoleOf(side, enabled, on) ==
  Resource(<<"Role", side>>, enabled /\ "custom-agent-role" \notin on,
           Constants({"rules"}), {"rules"})

(* Cluster-wide access is for instances that may have it, unless the       *)
(* resource declines the default role.                                     *)
ClusterWide(enabled, on) ==
  enabled /\ "cluster-scoped" \in on /\ "default-role.disabled" \notin on

ClusterRoleOf(side, enabled, rules, on) ==
  Unowned(Resource(<<"ClusterRole", side>>, ClusterWide(enabled, on), rules, {"rules"}))

(* A changed reference to the role is written in place, which the API      *)
(* server refuses.                                                         *)
RoleBindingOf(side, enabled, on) ==
  LET manifest ==
        With(Constants({"subjects"}),
             [f \in {"roleRef"} |->
                IF "custom-agent-role" \in on THEN "custom" ELSE Fixed])
  IN Immutable(Resource(<<"RoleBinding", side>>, enabled, manifest, DOMAIN manifest),
               {"roleRef"})

ClusterRoleBindingOf(side, enabled, on) ==
  Unowned(Resource(<<"ClusterRoleBinding", side>>, ClusterWide(enabled, on),
                   Constants({"subjects", "roleRef"}), {"subjects", "roleRef"}))

ServiceSpec == Constants({"ports", "selector", "type"})

ServiceOf(side, name, enabled) ==
  Resource(<<"Service", side, name>>, enabled, ServiceSpec, DOMAIN ServiceSpec)

ServiceMonitorOf(side, enabled, on) ==
  LET manifest == With(Constants({"selector"}), Settings({"endpoints"}))
  IN OnlyIf(Resource(<<"ServiceMonitor", side, "metrics">>,
                     enabled /\ "prometheus" \in on, manifest, DOMAIN manifest),
            "prometheus.api" \in on)
-----------------------------------------------------------------------------
ReconcilePrincipalServiceAccount(on) == ServiceAccountOf(Principal, hasPrincipal(on))
ReconcilePrincipalRole(on) == RoleOf(Principal, hasPrincipal(on), on)
ReconcilePrincipalClusterRoles(on) ==
  ClusterRoleOf(Principal, hasPrincipal(on), Constants({"rules"}), on)
ReconcilePrincipalRoleBinding(on) == RoleBindingOf(Principal, hasPrincipal(on), on)
ReconcilePrincipalClusterRoleBinding(on) ==
  ClusterRoleBindingOf(Principal, hasPrincipal(on), on)

(* The type of the Service is a setting. *)
ReconcilePrincipalService(on) ==
  LET manifest == With(ServiceSpec, Settings({"type"}))
  IN Resource(<<"Service", Principal>>, hasPrincipal(on), manifest, DOMAIN manifest)

ReconcilePrincipalMetricsService(on) ==
  ServiceOf(Principal, "metrics", hasPrincipal(on))
ReconcilePrincipalServiceMonitor(on) ==
  ServiceMonitorOf(Principal, hasPrincipal(on), on)
ReconcilePrincipalRedisProxyService(on) ==
  ServiceOf(Principal, "redisproxy", hasPrincipal(on))
ReconcilePrincipalResourceProxyService(on) ==
  ServiceOf(Principal, "resource-proxy", hasPrincipal(on))
ReconcilePrincipalHealthzService(on) ==
  ServiceOf(Principal, "healthz", hasPrincipal(on))

ReconcilePrincipalNetworkPolicy(on) ==
  Resource(<<"NetworkPolicy", Principal>>,
           hasPrincipal(on) /\ "netpol.disabled" \notin on,
           Constants({"spec"}), {"spec"})

(* There is a Route unless the resource declines it. *)
ReconcilePrincipalRoute(on) ==
  OnlyIf(Resource(<<"Route", Principal>>,
                  hasPrincipal(on) /\ "principal.route.disabled" \notin on,
                  Constants({"port", "to", "tls"}), {"port", "to", "tls"}),
         RouteAPI(on))

PrincipalSpec ==
  With(Settings({"image", "pullPolicy", "env", "resources"}),
       Constants({"selector", "name", "args", "volumes", "security", "ports",
                  "serviceAccount"}))

ReconcilePrincipalDeployment(on) ==
  Immutable(Needing(Resource(<<"Deployment", Principal>>, hasPrincipal(on),
                             PrincipalSpec, DOMAIN PrincipalSpec),
                    {<<"ServiceAccount", Principal>>}),
            {"selector"})
-----------------------------------------------------------------------------
ReconcileAgentServiceAccount(on) == ServiceAccountOf(AgentSide, hasAgent(on))
ReconcileAgentRole(on) == RoleOf(AgentSide, hasAgent(on), on)
ReconcileAgentClusterRoles(on) ==
  ClusterRoleOf(AgentSide, hasAgent(on), Settings({"rules"}), on)
ReconcileAgentRoleBinding(on) == RoleBindingOf(AgentSide, hasAgent(on), on)
ReconcileAgentClusterRoleBinding(on) ==
  ClusterRoleBindingOf(AgentSide, hasAgent(on), on)
ReconcileAgentMetricsService(on) == ServiceOf(AgentSide, "metrics", hasAgent(on))
ReconcileAgentServiceMonitor(on) == ServiceMonitorOf(AgentSide, hasAgent(on), on)
ReconcileAgentHealthzService(on) == ServiceOf(AgentSide, "healthz", hasAgent(on))

(* The pull policy of the agent is always the same, and never set again. *)
AgentSpec == With(PrincipalSpec, Constants({"pullPolicy"}))

ReconcileAgentDeployment(on) ==
  Immutable(Needing(Resource(<<"Deployment", AgentSide>>, hasAgent(on),
                             AgentSpec, DOMAIN AgentSpec \ {"pullPolicy"}),
                    {<<"ServiceAccount", AgentSide>>}),
            {"selector"})

reconcileArgoCDAgent(on) ==
  <<Refused("agent", AgentConflict(on)),
    ReconcilePrincipalServiceAccount(on), ReconcilePrincipalRole(on),
    ReconcilePrincipalClusterRoles(on), ReconcilePrincipalRoleBinding(on),
    ReconcilePrincipalClusterRoleBinding(on), ReconcilePrincipalService(on),
    ReconcilePrincipalMetricsService(on), ReconcilePrincipalServiceMonitor(on),
    ReconcilePrincipalRedisProxyService(on),
    ReconcilePrincipalResourceProxyService(on),
    ReconcilePrincipalHealthzService(on), ReconcilePrincipalNetworkPolicy(on),
    ReconcilePrincipalRoute(on), ReconcilePrincipalDeployment(on),
    ReconcileAgentServiceAccount(on), ReconcileAgentRole(on),
    ReconcileAgentClusterRoles(on), ReconcileAgentRoleBinding(on),
    ReconcileAgentClusterRoleBinding(on), ReconcileAgentMetricsService(on),
    ReconcileAgentServiceMonitor(on), ReconcileAgentHealthzService(on),
    ReconcileAgentDeployment(on)>>
=============================================================================
