-------------------------- MODULE ConversionFields --------------------------
(***************************************************************************)
(* What the conversion functions of src/api/v1alpha1/argocd_conversion.go  *)
(* copy. A Go conversion function of a struct builds the struct of the     *)
(* other version field by field; it is modelled by the set of the paths it *)
(* copies. A field that is assigned is a leaf, a type conversion T(src.F)  *)
(* copies every path of T, a call of another conversion function copies    *)
(* what that function copies. A field that no line assigns is dropped.     *)
(***************************************************************************)
EXTENDS FieldPaths

Alpha == INSTANCE V1alpha1Types
Beta == INSTANCE V1beta1Types

ConvertAlphaToBetaMetrics == Beta!ArgoCDMetricsSpec

ConvertAlphaToBetaController ==
  Leaves({"LogLevel", "LogFormat", "Resources", "ParallelismLimit", "AppSync",
          "Env"})
    \cup Under("Processors", Beta!ArgoCDApplicationControllerProcessorsSpec)
    \cup Under("Sharding", Beta!ArgoCDApplicationControllerShardSpec)
    \cup Under("Metrics", ConvertAlphaToBetaMetrics)

ConvertBetaToAlphaMetrics == Alpha!ArgoCDMetricsSpec

ConvertAlphaToBetaRedis ==
  Leaves({"Annotations", "AutoTLS", "DisableTLSVerification", "Image",
          "Labels", "Resources", "Version"})

ConvertAlphaToBetaRepo ==
  Leaves({"AutoTLS", "Env", "ExecTimeout", "ExtraRepoCommandArgs", "Image",
          "InitContainers", "LogFormat", "LogLevel", "MountSAToken",
          "Replicas", "Resources", "ServiceAccount", "SidecarContainers",
          "VerifyTLS", "Version", "VolumeMounts", "Volumes"})
    \cup Under("Metrics", ConvertAlphaToBetaMetrics)

(* Bug variant: the settings of the Route are not copied. *)
ConvertAlphaToBetaWebhookServerNoRoute ==
  Leaves({"Host"}) \cup Under("Ingress", Beta!ArgoCDIngressSpec)

ConvertAlphaToBetaWebhookServer ==
  Leaves({"Host"})
    \cup Under("Ingress", Beta!ArgoCDIngressSpec)
    \cup Under("Route", Beta!ArgoCDRouteSpec)

ConvertAlphaToBetaApplicationSet ==
  Leaves({"Env", "ExtraCommandArgs", "Image", "Version", "Resources",
          "LogLevel", "LogFormat"})
    \cup Under("WebhookServer", ConvertAlphaToBetaWebhookServer)

ConvertAlphaToBetaGrafana ==
  Leaves({"Enabled", "Host", "Image", "Resources", "Size", "Version"})
    \cup Under("Ingress", Beta!ArgoCDIngressSpec)
    \cup Under("Route", Beta!ArgoCDRouteSpec)

ConvertAlphaToBetaPrometheus ==
  Leaves({"Enabled", "Host", "Size"})
    \cup Under("Ingress", Beta!ArgoCDIngressSpec)
    \cup Under("Route", Beta!ArgoCDRouteSpec)

ConvertAlphaToBetaDex ==
  Leaves({"Annotations", "Config", "Groups", "Image", "Labels",
          "OpenShiftOAuth", "Resources", "Version"})

ConvertAlphaToBetaSSO ==
  Leaves({"Provider"})
    \cup Under("Dex", ConvertAlphaToBetaDex)
    \cup Under("Keycloak", Beta!ArgoCDKeycloakSpec)

ConvertAlphaToBetaHA ==
  Leaves({"Enabled", "RedisProxyImage", "RedisProxyVersion", "Resources"})

ConvertAlphaToBetaTLS ==
  Leaves({"InitialCerts"})
    \cup Under("CA", Beta!ArgoCDCASpec)

ConvertAlphaToBetaGRPC ==
  Leaves({"Host"})
    \cup Under("Ingress", Beta!ArgoCDIngressSpec)

ConvertAlphaToBetaServer ==
  Leaves({"Host", "Insecure", "LogLevel", "LogFormat", "Replicas", "Resources",
          "Env", "ExtraCommandArgs"})
    \cup Under("Autoscale", Beta!ArgoCDServerAutoscaleSpec)
    \cup Under("GRPC", ConvertAlphaToBetaGRPC)
    \cup Under("Ingress", Beta!ArgoCDIngressSpec)
    \cup Under("Route", Beta!ArgoCDRouteSpec)
    \cup Under("Service", Beta!ArgoCDServerServiceSpec)
    \cup Under("Metrics", ConvertAlphaToBetaMetrics)

ConvertAlphaToBetaKustomizeVersions == Leaves({"Version", "Path"})

ConvertAlphaToBetaResourceIdentifiers ==
  Leaves({"Group", "Kind"})
    \cup Under("Customization", Beta!IgnoreDifferenceCustomization)

ConvertAlphaToBetaResourceIgnoreDifferences ==
  Under("All", Beta!IgnoreDifferenceCustomization)
    \cup Under("ResourceIdentifiers", ConvertAlphaToBetaResourceIdentifiers)

ConvertAlphaToBetaResourceActions == Leaves({"Group", "Kind", "Action"})

ConvertAlphaToBetaResourceHealthChecks == Leaves({"Group", "Kind", "Check"})

ConvertBetaToAlphaController ==
  Leaves({"LogLevel", "LogFormat", "Resources", "ParallelismLimit", "AppSync",
          "Env"})
    \cup Under("Processors", Alpha!ArgoCDApplicationControllerProcessorsSpec)
    \cup Under("Sharding", Alpha!ArgoCDApplicationControllerShardSpec)
    \cup Under("Metrics", ConvertBetaToAlphaMetrics)

ConvertBetaToAlphaWebhookServer ==
  Leaves({"Host"})
    \cup Under("Ingress", Alpha!ArgoCDIngressSpec)
    \cup Under("Route", Alpha!ArgoCDRouteSpec)

ConvertBetaToAlphaApplicationSet ==
  Leaves({"Env", "ExtraCommandArgs", "Image", "Version", "Resources",
          "LogLevel", "LogFormat"})
    \cup Under("WebhookServer", ConvertBetaToAlphaWebhookServer)

ConvertBetaToAlphaGrafana ==
  Leaves({"Enabled", "Host", "Image", "Resources", "Size", "Version"})
    \cup Under("Ingress", Alpha!ArgoCDIngressSpec)
    \cup Under("Route", Alpha!ArgoCDRouteSpec)

ConvertBetaToAlphaPrometheus ==
  Leaves({"Enabled", "Host", "Size"})
    \cup Under("Ingress", Alpha!ArgoCDIngressSpec)
    \cup Under("Route", Alpha!ArgoCDRouteSpec)

ConvertAlphaToBetaNotifications ==
  Leaves({"Replicas", "Enabled", "SourceNamespaces", "Env", "Image", "Version",
          "Resources", "LogLevel", "Logformat", "LogFormat"})
    \cup Under("Metrics", ConvertAlphaToBetaMetrics)

ConvertBetaToAlphaNotifications ==
  Leaves({"Replicas", "Enabled", "SourceNamespaces", "Env", "Image", "Version",
          "Resources", "LogLevel", "Logformat", "LogFormat"})
    \cup Under("Metrics", ConvertBetaToAlphaMetrics)

ConvertBetaToAlphaDex ==
  Leaves({"Annotations", "Config", "Groups", "Image", "Labels",
          "OpenShiftOAuth", "Resources", "Version"})

ConvertBetaToAlphaSSO ==
  Leaves({"Provider"})
    \cup Under("Dex", ConvertBetaToAlphaDex)
    \cup Under("Keycloak", Alpha!ArgoCDKeycloakSpec)

ConvertBetaToAlphaHA ==
  Leaves({"Enabled", "RedisProxyImage", "RedisProxyVersion", "Resources"})

ConvertBetaToAlphaTLS ==
  Leaves({"InitialCerts"})
    \cup Under("CA", Alpha!ArgoCDCASpec)

ConvertBetaToAlphaGRPC ==
  Leaves({"Host"})
    \cup Under("Ingress", Alpha!ArgoCDIngressSpec)

ConvertBetaToAlphaServer ==
  Leaves({"Host", "Insecure", "LogLevel", "LogFormat", "Replicas", "Resources",
          "Env", "ExtraCommandArgs"})
    \cup Under("Autoscale", Alpha!ArgoCDServerAutoscaleSpec)
    \cup Under("GRPC", ConvertBetaToAlphaGRPC)
    \cup Under("Ingress", Alpha!ArgoCDIngressSpec)
    \cup Under("Route", Alpha!ArgoCDRouteSpec)
    \cup Under("Service", Alpha!ArgoCDServerServiceSpec)
    \cup Under("Metrics", ConvertBetaToAlphaMetrics)

ConvertBetaToAlphaKustomizeVersions == Leaves({"Version", "Path"})

ConvertBetaToAlphaResourceIdentifiers ==
  Leaves({"Group", "Kind"})
    \cup Under("Customization", Alpha!IgnoreDifferenceCustomization)

ConvertBetaToAlphaResourceIgnoreDifferences ==
  Under("All", Alpha!IgnoreDifferenceCustomization)
    \cup Under("ResourceIdentifiers", ConvertBetaToAlphaResourceIdentifiers)

ConvertBetaToAlphaResourceActions == Leaves({"Group", "Kind", "Action"})

ConvertBetaToAlphaResourceHealthChecks == Leaves({"Group", "Kind", "Check"})

ConvertBetaToAlphaRedis ==
  Leaves({"Annotations", "AutoTLS", "DisableTLSVerification", "Image",
          "Labels", "Resources", "Version"})

ConvertBetaToAlphaRepo ==
  Leaves({"AutoTLS", "Env", "ExecTimeout", "ExtraRepoCommandArgs", "Image",
          "InitContainers", "LogFormat", "LogLevel", "MountSAToken",
          "Replicas", "Resources", "ServiceAccount", "SidecarContainers",
          "VerifyTLS", "Version", "VolumeMounts", "Volumes"})
    \cup Under("Metrics", ConvertBetaToAlphaMetrics)

ConvertAlphaToBetaPrincipalServer ==
  Leaves({"EnableWebSocket", "KeepAliveMinInterval"})
    \cup Under("Service", Beta!ArgoCDAgentPrincipalServiceSpec)
    \cup Under("Route", Beta!ArgoCDAgentPrincipalRouteSpec)

ConvertAlphaToBetaPrincipalRedis ==
  Leaves({"ServerAddress", "CompressionType"})

ConvertAlphaToBetaPrincipalNamespace ==
  Leaves({"AllowedNamespaces", "EnableNamespaceCreate",
          "NamespaceCreatePattern", "NamespaceCreateLabels"})

ConvertAlphaToBetaPrincipalTLS ==
  Leaves({"SecretName", "RootCASecretName", "InsecureGenerate"})

ConvertAlphaToBetaPrincipalResourceProxy ==
  Leaves({"SecretName", "CASecretName"})

ConvertAlphaToBetaPrincipalJWT == Leaves({"SecretName", "InsecureGenerate"})

ConvertAlphaToBetaPrincipal ==
  Leaves({"Enabled", "Auth", "LogLevel", "LogFormat", "Image", "LabelSelector",
          "Env"})
    \cup Under("Server", ConvertAlphaToBetaPrincipalServer)
    \cup Under("Redis", ConvertAlphaToBetaPrincipalRedis)
    \cup Under("Namespace", ConvertAlphaToBetaPrincipalNamespace)
    \cup Under("TLS", ConvertAlphaToBetaPrincipalTLS)
    \cup Under("ResourceProxy", ConvertAlphaToBetaPrincipalResourceProxy)
    \cup Under("JWT", ConvertAlphaToBetaPrincipalJWT)
    \cup Under("Metrics", ConvertAlphaToBetaMetrics)

ConvertAlphaToBetaAgentClient ==
  Leaves({"PrincipalServerAddress", "PrincipalServerPort", "Mode",
          "EnableWebSocket", "EnableCompression", "KeepAliveInterval"})

ConvertAlphaToBetaAgentRedis == Leaves({"ServerAddress"})

ConvertAlphaToBetaAgentTLS ==
  Leaves({"SecretName", "RootCASecretName", "Insecure"})

ConvertAlphaToBetaAgent ==
  Leaves({"Enabled", "Creds", "LogLevel", "LogFormat", "Image",
          "LabelSelector", "Env"})
    \cup Under("Client", ConvertAlphaToBetaAgentClient)
    \cup Under("Redis", ConvertAlphaToBetaAgentRedis)
    \cup Under("TLS", ConvertAlphaToBetaAgentTLS)
    \cup Under("Metrics", ConvertAlphaToBetaMetrics)

ConvertAlphaToBetaArgoCDAgent ==
  Under("Principal", ConvertAlphaToBetaPrincipal)
    \cup Under("Agent", ConvertAlphaToBetaAgent)

ConvertBetaToAlphaNamespaceManagement == Leaves({"Name", "AllowManagedBy"})

ConvertBetaToAlphaPrincipalServer ==
  Leaves({"EnableWebSocket", "KeepAliveMinInterval"})
    \cup Under("Service", Alpha!ArgoCDAgentPrincipalServiceSpec)
    \cup Under("Route", Alpha!ArgoCDAgentPrincipalRouteSpec)

ConvertBetaToAlphaPrincipalRedis ==
  Leaves({"ServerAddress", "CompressionType"})

ConvertBetaToAlphaPrincipalNamespace ==
  Leaves({"AllowedNamespaces", "EnableNamespaceCreate",
          "NamespaceCreatePattern", "NamespaceCreateLabels"})

ConvertBetaToAlphaPrincipalTLS ==
  Leaves({"SecretName", "RootCASecretName", "InsecureGenerate"})

ConvertBetaToAlphaPrincipalResourceProxy ==
  Leaves({"SecretName", "CASecretName"})

ConvertBetaToAlphaPrincipalJWT == Leaves({"SecretName", "InsecureGenerate"})

ConvertBetaToAlphaPrincipal ==
  Leaves({"Enabled", "Auth", "LogLevel", "LogFormat", "Image", "LabelSelector",
          "Env"})
    \cup Under("Server", ConvertBetaToAlphaPrincipalServer)
    \cup Under("Redis", ConvertBetaToAlphaPrincipalRedis)
    \cup Under("Namespace", ConvertBetaToAlphaPrincipalNamespace)
    \cup Under("TLS", ConvertBetaToAlphaPrincipalTLS)
    \cup Under("ResourceProxy", ConvertBetaToAlphaPrincipalResourceProxy)
    \cup Under("JWT", ConvertBetaToAlphaPrincipalJWT)
    \cup Under("Metrics", ConvertBetaToAlphaMetrics)

ConvertBetaToAlphaAgentClient ==
  Leaves({"PrincipalServerAddress", "PrincipalServerPort", "Mode",
          "EnableWebSocket", "EnableCompression", "KeepAliveInterval"})

ConvertBetaToAlphaAgentRedis == Leaves({"ServerAddress"})

ConvertBetaToAlphaAgentTLS ==
  Leaves({"SecretName", "RootCASecretName", "Insecure"})

ConvertBetaToAlphaAgent ==
  Leaves({"Enabled", "Creds", "LogLevel", "LogFormat", "Image",
          "LabelSelector", "Env"})
    \cup Under("Client", ConvertBetaToAlphaAgentClient)
    \cup Under("Redis", ConvertBetaToAlphaAgentRedis)
    \cup Under("TLS", ConvertBetaToAlphaAgentTLS)
    \cup Under("Metrics", ConvertBetaToAlphaMetrics)

ConvertBetaToAlphaArgoCDAgent ==
  Under("Principal", ConvertBetaToAlphaPrincipal)
    \cup Under("Agent", ConvertBetaToAlphaAgent)

copyAlphaToBetaWebhookRef == Leaves({"Name", "Key"})

ConvertAlphaToBetaWebhookSecrets ==
  (UNION {Under(p, Under("WebhookSecretRef", copyAlphaToBetaWebhookRef)) :
            p \in {"GitHub", "GitLab", "BitbucketServer", "Gogs"}})
    \cup Under("Bitbucket", Under("WebhookUUIDSecretRef", copyAlphaToBetaWebhookRef))
    \cup (UNION {Under("AzureDevOps", Under(r, copyAlphaToBetaWebhookRef)) :
                   r \in {"UsernameSecretRef", "PasswordSecretRef"}})

copyBetaToAlphaWebhookRef == Leaves({"Name", "Key"})

ConvertBetaToAlphaWebhookSecrets ==
  (UNION {Under(p, Under("WebhookSecretRef", copyBetaToAlphaWebhookRef)) :
            p \in {"GitHub", "GitLab", "BitbucketServer", "Gogs"}})
    \cup Under("Bitbucket", Under("WebhookUUIDSecretRef", copyBetaToAlphaWebhookRef))
    \cup (UNION {Under("AzureDevOps", Under(r, copyBetaToAlphaWebhookRef)) :
                   r \in {"UsernameSecretRef", "PasswordSecretRef"}})

ConvertAlphaToBetaNamespaceManagement == Leaves({"Name", "AllowManagedBy"})

(* The "rest of the fields" of ConvertTo and of ConvertFrom: everything but *)
(* ObjectMeta, Status and the sso fields, which Conversion treats.          *)
ConvertToRest ==
  Leaves({"ExtraConfig", "ApplicationInstanceLabelKey",
          "ConfigManagementPlugins", "DisableAdmin", "GATrackingID",
          "GAAnonymizeUsers", "HelpChatURL", "HelpChatText", "Image",
          "InitialRepositories", "KustomizeBuildOptions", "OIDCConfig",
          "RepositoryCredentials", "ResourceExclusions", "ResourceInclusions",
          "ResourceTrackingMethod", "SourceNamespaces", "StatusBadgeEnabled",
          "UsersAnonymousEnabled", "Version",
          "DefaultClusterScopedRoleDisabled", "AggregatedClusterRoles"})
    \cup Under("ApplicationSet", ConvertAlphaToBetaApplicationSet)
    \cup Under("Controller", ConvertAlphaToBetaController)
    \cup Under("Grafana", ConvertAlphaToBetaGrafana)
    \cup Under("HA", ConvertAlphaToBetaHA)
    \cup Under("Import", Beta!ArgoCDImportSpec)
    \cup Under("InitialSSHKnownHosts", Beta!SSHHostsSpec)
    \cup Under("KustomizeVersions", ConvertAlphaToBetaKustomizeVersions)
    \cup Under("Monitoring", Beta!ArgoCDMonitoringSpec)
    \cup Under("NodePlacement", Beta!ArgoCDNodePlacementSpec)
    \cup Under("Notifications", ConvertAlphaToBetaNotifications)
    \cup Under("Prometheus", ConvertAlphaToBetaPrometheus)
    \cup Under("RBAC", Beta!ArgoCDRBACSpec)
    \cup Under("Redis", ConvertAlphaToBetaRedis)
    \cup Under("Repo", ConvertAlphaToBetaRepo)
    \cup Under("ResourceHealthChecks", ConvertAlphaToBetaResourceHealthChecks)
    \cup Under("ResourceIgnoreDifferences",
           ConvertAlphaToBetaResourceIgnoreDifferences)
    \cup Under("ResourceActions", ConvertAlphaToBetaResourceActions)
    \cup Under("Server", ConvertAlphaToBetaServer)
    \cup Under("TLS", ConvertAlphaToBetaTLS)
    \cup Under("Banner", Beta!Banner)
    \cup Under("ArgoCDAgent", ConvertAlphaToBetaArgoCDAgent)
    \cup Under("NamespaceManagement", ConvertAlphaToBetaNamespaceManagement)
    \cup Under("WebhookSecrets", ConvertAlphaToBetaWebhookSecrets)
    \cup Under("NetworkPolicy", Beta!ArgoCDNetworkPolicySpec)

ConvertFromRest ==
  Leaves({"ExtraConfig", "ApplicationInstanceLabelKey",
          "ConfigManagementPlugins", "DisableAdmin", "GATrackingID",
          "GAAnonymizeUsers", "HelpChatURL", "HelpChatText", "Image",
          "InitialRepositories", "KustomizeBuildOptions", "OIDCConfig",
          "RepositoryCredentials", "ResourceExclusions", "ResourceInclusions",
          "ResourceTrackingMethod", "SourceNamespaces", "StatusBadgeEnabled",
          "UsersAnonymousEnabled", "Version",
          "DefaultClusterScopedRoleDisabled", "AggregatedClusterRoles"})
    \cup Under("ApplicationSet", ConvertBetaToAlphaApplicationSet)
    \cup Under("Controller", ConvertBetaToAlphaController)
    \cup Under("Grafana", ConvertBetaToAlphaGrafana)
    \cup Under("HA", ConvertBetaToAlphaHA)
    \cup Under("Import", Alpha!ArgoCDImportSpec)
    \cup Under("InitialSSHKnownHosts", Alpha!SSHHostsSpec)
    \cup Under("KustomizeVersions", ConvertBetaToAlphaKustomizeVersions)
    \cup Under("Monitoring", Alpha!ArgoCDMonitoringSpec)
    \cup Under("NodePlacement", Alpha!ArgoCDNodePlacementSpec)
    \cup Under("Notifications", ConvertBetaToAlphaNotifications)
    \cup Under("Prometheus", ConvertBetaToAlphaPrometheus)
    \cup Under("RBAC", Alpha!ArgoCDRBACSpec)
    \cup Under("Redis", ConvertBetaToAlphaRedis)
    \cup Under("Repo", ConvertBetaToAlphaRepo)
    \cup Under("ResourceHealthChecks", ConvertBetaToAlphaResourceHealthChecks)
    \cup Under("ResourceIgnoreDifferences",
           ConvertBetaToAlphaResourceIgnoreDifferences)
    \cup Under("ResourceActions", ConvertBetaToAlphaResourceActions)
    \cup Under("Server", ConvertBetaToAlphaServer)
    \cup Under("TLS", ConvertBetaToAlphaTLS)
    \cup Under("Banner", Alpha!Banner)
    \cup Under("ArgoCDAgent", ConvertBetaToAlphaArgoCDAgent)
    \cup Under("NamespaceManagement", ConvertBetaToAlphaNamespaceManagement)
    \cup Under("WebhookSecrets", ConvertBetaToAlphaWebhookSecrets)
=============================================================================
