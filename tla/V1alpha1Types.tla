---------------------------- MODULE V1alpha1Types ----------------------------
(***************************************************************************)
(* The v1alpha1 (spoke) ArgoCD resource, src/api/v1alpha1/argocd_types.go, *)
(* in the same form as V1beta1Types: a Go struct is the set of the paths of *)
(* its fields.                                                             *)
(***************************************************************************)
EXTENDS FieldPaths

ArgoCDIngressSpec ==
  Leaves({"Annotations", "Enabled", "IngressClassName", "Path", "TLS"})

ArgoCDRouteSpec ==
  Leaves({"Annotations", "Labels", "Enabled", "Path", "TLS", "WildcardPolicy"})

WebhookServerSpec ==
  Leaves({"Host"})
    \cup Under("Ingress", ArgoCDIngressSpec)
    \cup Under("Route", ArgoCDRouteSpec)

ArgoCDApplicationSet ==
  Leaves({"Env", "ExtraCommandArgs", "Image", "Version", "Resources",
          "LogLevel", "LogFormat"})
    \cup Under("WebhookServer", WebhookServerSpec)

ArgoCDApplicationControllerProcessorsSpec == Leaves({"Operation", "Status"})

ArgoCDApplicationControllerShardSpec ==
  Leaves({"Enabled", "Replicas", "DynamicScalingEnabled", "MinShards",
          "MaxShards", "ClustersPerShard", "DistributionAlgorithm"})

ArgoCDMetricsSpec == Leaves({"Interval", "ScrapeTimeout"})

ArgoCDApplicationControllerSpec ==
  Leaves({"LogLevel", "LogFormat", "Resources", "ParallelismLimit", "AppSync",
          "Env"})
    \cup Under("Processors", ArgoCDApplicationControllerProcessorsSpec)
    \cup Under("Sharding", ArgoCDApplicationControllerShardSpec)
    \cup Under("Metrics", ArgoCDMetricsSpec)

ArgoCDGrafanaSpec ==
  Leaves({"Enabled", "Host", "Image", "Resources", "Size", "Version"})
    \cup Under("Ingress", ArgoCDIngressSpec)
    \cup Under("Route", ArgoCDRouteSpec)

ArgoCDHASpec ==
  Leaves({"Enabled", "RedisProxyImage", "RedisProxyVersion", "Resources"})

ArgoCDImportSpec == Leaves({"Name", "Namespace"})

SSHHostsSpec == Leaves({"ExcludeDefaultHosts", "Keys"})

KustomizeVersionSpec == Leaves({"Version", "Path"})

ArgoCDMonitoringSpec == Leaves({"Enabled", "DisableMetrics"})

ArgoCDNetworkPolicySpec == Leaves({"Enabled"})

ArgoCDNodePlacementSpec == Leaves({"NodeSelector", "Tolerations"})

ArgoCDNotifications ==
  Leaves({"Replicas", "Enabled", "SourceNamespaces", "Env", "Image", "Version",
          "Resources", "LogLevel", "Logformat", "LogFormat"})
    \cup Under("Metrics", ArgoCDMetricsSpec)

ArgoCDPrometheusSpec ==
  Leaves({"Enabled", "Host", "Size"})
    \cup Under("Ingress", ArgoCDIngressSpec)
    \cup Under("Route", ArgoCDRouteSpec)

ArgoCDRBACSpec ==
  Leaves({"DefaultPolicy", "Policy", "Scopes", "PolicyMatcherMode"})

ArgoCDRedisSpec ==
  Leaves({"Image", "Resources", "Version", "DisableTLSVerification", "AutoTLS",
          "Annotations", "Labels"})

ArgoCDRepoSpec ==
  Leaves({"ExtraRepoCommandArgs", "LogLevel", "LogFormat", "MountSAToken",
          "Replicas", "Resources", "ServiceAccount", "VerifyTLS", "AutoTLS",
          "Image", "Version", "ExecTimeout", "Env", "Volumes", "VolumeMounts",
          "InitContainers", "SidecarContainers"})
    \cup Under("Metrics", ArgoCDMetricsSpec)

ResourceHealthCheck == Leaves({"Group", "Kind", "Check"})

IgnoreDifferenceCustomization ==
  Leaves({"JqPathExpressions", "JsonPointers", "ManagedFieldsManagers"})

ResourceIdentifiers ==
  Leaves({"Group", "Kind"})
    \cup Under("Customization", IgnoreDifferenceCustomization)

ResourceIgnoreDifference ==
  Under("All", IgnoreDifferenceCustomization)
    \cup Under("ResourceIdentifiers", ResourceIdentifiers)

ResourceAction == Leaves({"Group", "Kind", "Action"})

ArgoCDServerAutoscaleSpec == Leaves({"Enabled", "HPA"})

ArgoCDServerGRPCSpec ==
  Leaves({"Host"})
    \cup Under("Ingress", ArgoCDIngressSpec)

ArgoCDServerServiceSpec == Leaves({"Type"})

ArgoCDServerSpec ==
  Leaves({"EnableRolloutsUI", "Host", "Insecure", "LogLevel", "LogFormat",
          "Replicas", "Resources", "Env", "ExtraCommandArgs"})
    \cup Under("Autoscale", ArgoCDServerAutoscaleSpec)
    \cup Under("GRPC", ArgoCDServerGRPCSpec)
    \cup Under("Ingress", ArgoCDIngressSpec)
    \cup Under("Route", ArgoCDRouteSpec)
    \cup Under("Service", ArgoCDServerServiceSpec)
    \cup Under("Metrics", ArgoCDMetricsSpec)

ArgoCDDexSpec ==
  Leaves({"Config", "Groups", "Image", "OpenShiftOAuth", "Resources",
          "Version", "Annotations", "Labels"})

ArgoCDKeycloakSpec ==
  Leaves({"Image", "Resources", "RootCA", "Version", "VerifyTLS", "Host"})

ArgoCDSSOSpec ==
  Leaves({"Provider", "Image", "Resources", "VerifyTLS", "Version"})
    \cup Under("Dex", ArgoCDDexSpec)
    \cup Under("Keycloak", ArgoCDKeycloakSpec)

ArgoCDCASpec == Leaves({"ConfigMapName", "SecretName"})

ArgoCDTLSSpec ==
  Leaves({"InitialCerts"})
    \cup Under("CA", ArgoCDCASpec)

Banner == Leaves({"Content", "URL", "Permanent", "Position"})

ArgoCDAgentPrincipalServiceSpec == Leaves({"Type"})

ArgoCDAgentPrincipalRouteSpec == Leaves({"Enabled"})

PrincipalServerSpec ==
  Leaves({"EnableWebSocket", "KeepAliveMinInterval"})
    \cup Under("Service", ArgoCDAgentPrincipalServiceSpec)
    \cup Under("Route", ArgoCDAgentPrincipalRouteSpec)

PrincipalNamespaceSpec ==
  Leaves({"AllowedNamespaces", "EnableNamespaceCreate",
          "NamespaceCreatePattern", "NamespaceCreateLabels"})

PrincipalResourceProxySpec == Leaves({"SecretName", "CASecretName"})

PrincipalRedisSpec == Leaves({"ServerAddress", "CompressionType"})

PrincipalTLSSpec ==
  Leaves({"SecretName", "RootCASecretName", "InsecureGenerate"})

PrincipalJWTSpec == Leaves({"InsecureGenerate", "SecretName"})

PrincipalSpec ==
  Leaves({"Enabled", "Auth", "LogLevel", "LogFormat", "Image", "LabelSelector",
          "Env"})
    \cup Under("Server", PrincipalServerSpec)
    \cup Under("Namespace", PrincipalNamespaceSpec)
    \cup Under("ResourceProxy", PrincipalResourceProxySpec)
    \cup Under("Redis", PrincipalRedisSpec)
    \cup Under("TLS", PrincipalTLSSpec)
    \cup Under("JWT", PrincipalJWTSpec)
    \cup Under("Metrics", ArgoCDMetricsSpec)

AgentClientSpec ==
  Leaves({"PrincipalServerAddress", "PrincipalServerPort", "Mode",
          "EnableWebSocket", "EnableCompression", "KeepAliveInterval"})

AgentTLSSpec == Leaves({"SecretName", "RootCASecretName", "Insecure"})

AgentRedisSpec == Leaves({"ServerAddress"})

AgentSpec ==
  Leaves({"Enabled", "Creds", "LogLevel", "LogFormat", "Image",
          "LabelSelector", "Env"})
    \cup Under("Client", AgentClientSpec)
    \cup Under("TLS", AgentTLSSpec)
    \cup Under("Redis", AgentRedisSpec)
    \cup Under("Metrics", ArgoCDMetricsSpec)

ArgoCDAgentSpec ==
  Under("Principal", PrincipalSpec)
    \cup Under("Agent", AgentSpec)

ManagedNamespaces == Leaves({"Name", "AllowManagedBy"})

WebhookSecretKeySelector == Leaves({"Name", "Key"})

ArgoCDWebhookSecretsGitHub ==
  Under("WebhookSecretRef", WebhookSecretKeySelector)

ArgoCDWebhookSecretsGitLab ==
  Under("WebhookSecretRef", WebhookSecretKeySelector)

ArgoCDWebhookSecretsBitbucket ==
  Under("WebhookUUIDSecretRef", WebhookSecretKeySelector)

ArgoCDWebhookSecretsBitbucketServer ==
  Under("WebhookSecretRef", WebhookSecretKeySelector)

ArgoCDWebhookSecretsGogs == Under("WebhookSecretRef", WebhookSecretKeySelector)

ArgoCDWebhookSecretsAzureDevOps ==
  Under("UsernameSecretRef", WebhookSecretKeySelector)
    \cup Under("PasswordSecretRef", WebhookSecretKeySelector)

ArgoCDWebhookSecretsSpec ==
  Under("GitHub", ArgoCDWebhookSecretsGitHub)
    \cup Under("GitLab", ArgoCDWebhookSecretsGitLab)
    \cup Under("Bitbucket", ArgoCDWebhookSecretsBitbucket)
    \cup Under("BitbucketServer", ArgoCDWebhookSecretsBitbucketServer)
    \cup Under("Gogs", ArgoCDWebhookSecretsGogs)
    \cup Under("AzureDevOps", ArgoCDWebhookSecretsAzureDevOps)

ArgoCDSpecHead ==
  Leaves({"ApplicationInstanceLabelKey", "InstallationID",
          "ConfigManagementPlugins", "DisableAdmin", "ExtraConfig",
          "GATrackingID", "GAAnonymizeUsers", "HelpChatURL", "HelpChatText",
          "Image", "ImagePullPolicy", "InitialRepositories",
          "KustomizeBuildOptions", "OIDCConfig", "RepositoryCredentials",
          "ResourceCustomizations"})
    \cup Under("ApplicationSet", ArgoCDApplicationSet)
    \cup Under("Controller", ArgoCDApplicationControllerSpec)
    \cup Under("Grafana", ArgoCDGrafanaSpec)
    \cup Under("HA", ArgoCDHASpec)
    \cup Under("Import", ArgoCDImportSpec)
    \cup Under("InitialSSHKnownHosts", SSHHostsSpec)
    \cup Under("KustomizeVersions", KustomizeVersionSpec)
    \cup Under("Monitoring", ArgoCDMonitoringSpec)
    \cup Under("NetworkPolicy", ArgoCDNetworkPolicySpec)
    \cup Under("NodePlacement", ArgoCDNodePlacementSpec)
    \cup Under("Notifications", ArgoCDNotifications)
    \cup Under("Prometheus", ArgoCDPrometheusSpec)
    \cup Under("RBAC", ArgoCDRBACSpec)
    \cup Under("Redis", ArgoCDRedisSpec)
    \cup Under("Repo", ArgoCDRepoSpec)

ArgoCDSpec ==
  ArgoCDSpecHead
    \cup Leaves({"ResourceExclusions", "ResourceInclusions",
                 "ResourceTrackingMethod", "SourceNamespaces",
                 "StatusBadgeEnabled", "UsersAnonymousEnabled", "Version",
                 "DefaultClusterScopedRoleDisabled", "AggregatedClusterRoles"})
    \cup Under("ResourceHealthChecks", ResourceHealthCheck)
    \cup Under("ResourceIgnoreDifferences", ResourceIgnoreDifference)
    \cup Under("ResourceActions", ResourceAction)
    \cup Under("Server", ArgoCDServerSpec)
    \cup Under("SSO", ArgoCDSSOSpec)
    \cup Under("TLS", ArgoCDTLSSpec)
    \cup Under("Banner", Banner)
    \cup Under("Dex", ArgoCDDexSpec)
    \cup Under("ArgoCDAgent", ArgoCDAgentSpec)
    \cup Under("NamespaceManagement", ManagedNamespaces)
    \cup Under("WebhookSecrets", ArgoCDWebhookSecretsSpec)

ArgoCDStatus ==
  Leaves({"ApplicationController", "ApplicationSetController", "SSO",
          "NotificationsController", "Phase", "Redis", "Repo", "Server",
          "RepoTLSChecksum", "RedisTLSChecksum", "Host", "Conditions"})

ArgoCD ==
  Leaves({"ObjectMeta"})
    \cup Under("Spec", ArgoCDSpec)
    \cup Under("Status", ArgoCDStatus)
=============================================================================
