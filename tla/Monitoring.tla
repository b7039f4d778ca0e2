----------------------------- MODULE Monitoring -----------------------------
(***************************************************************************)
(* The objects of the Prometheus operator: prometheus.go of                *)
(* src/controllers/argocd. They are looked after only if the cluster has   *)
(* its API.                                                                *)
(***************************************************************************)
EXTENDS Resources

Monitor(name) == <<"ServiceMonitor", name>>

(* The endpoint of a metrics Service is computed from the settings; it is  *)
(* the only field that is set again.                                       *)
updateServiceMonitorEndpointIfNeeded(name, on) ==
  Resource(Monitor(name), "prometheus" \in on,
           With(Settings({"endpoints"}), Constants({"selector"})), {"endpoints"})

reconcileMetricsServiceMonitor(on) == updateServiceMonitorEndpointIfNeeded("metrics", on)
reconcileRepoServerServiceMonitor(on) ==
  updateServiceMonitorEndpointIfNeeded("repo-server-metrics", on)
reconcileServerMetricsServiceMonitor(on) ==
  updateServiceMonitorEndpointIfNeeded("server-metrics", on)

(* Prometheus itself is no longer installed. *)
reconcilePrometheus(on) == Legacy(<<"Prometheus", "prometheus">>, TRUE)

(* The alerts on the workloads are created and deleted, never changed. *)
reconcilePrometheusRule(on) ==
  Resource(<<"PrometheusRule", "argocd-component-status-alert">>, "monitoring" \in on,
           Constants({"rules"}), {})

reconcileMonitoring(on) ==
  Guarded(<<reconcilePrometheus(on), reconcilePrometheusRule(on),
            reconcileMetricsServiceMonitor(on), reconcileRepoServerServiceMonitor(on),
            reconcileServerMetricsServiceMonitor(on)>>,
          "prometheus.api" \in on)
=============================================================================
