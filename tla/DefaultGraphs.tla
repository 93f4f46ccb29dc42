--------------------------- MODULE DefaultGraphs ---------------------------
(***************************************************************************)
(* Which series the daemon puts on which of its own graphs (DefaultGraphs) *)
(* as the catalog grows: by name, by being a power, by device, and rocm    *)
(* only where drm does not measure the same; and in what unit.             *)
(*                                                                         *)
(* A metric is a record of its name, symbol, collector, device's kind and  *)
(* whether it is a limit.  Units, which go with symbols, legends, colors   *)
(* and the order within a graph are left out.                              *)
(***************************************************************************)

CONSTANT Metrics     \* metrics that may be found

VARIABLE metrics     \* the catalog

Limit(m) == m.limit

IsPowerMetric(m) ==
  /\ m.symbol = "W" /\ ~Limit(m)
  /\ m.name \notin {"psu_output_power_w", "psu_rail_power_w", "psu_connector_power_w"}

IsDefaultDiskThroughputMetric(m) ==
  /\ m.name \in {"disk_read_bytes_per_second", "disk_written_bytes_per_second"}
  /\ m.device = "whole"

(* Names of the graphs that have a list of them.                           *)
Listed ==
  [psu |-> {"psu_output_power_w", "psu_rail_power_w", "psu_connector_power_w"},
   cpuUsage |-> {"cpu_user_pct", "cpu_system_pct", "cpu_iowait_pct", "cpu_irq_pct"},
   gpuUtil |-> {"gpu_util_pct"},
   gpuMemory |-> {"gpu_mem_used_mib", "gpu_vram_used_bytes", "gpu_gtt_used_bytes"},
   npuRuntime |-> {"npu_runtime_active", "npu_runtime_active_seconds_per_second",
                   "npu_runtime_suspended_seconds_per_second"},
   thermals |-> {"temperature_celsius", "gpu_temp_c", "gpu_temp_celsius",
                 "power_supply_temp_celsius"},
   battery |-> {"power_supply_capacity_pct"},
   memory |-> {"memory_used_bytes", "memory_available_bytes", "swap_used_bytes"},
   network |-> {"network_rx_bytes_per_second", "network_tx_bytes_per_second"},
   connections |-> {"sockets_used", "tcp_sockets_in_use", "tcp_sockets_time_wait",
                    "udp_sockets_in_use", "tcp_connections_established",
                    "tcp_connections_listen", "tcp_connections_time_wait"},
   diskSpace |-> {"filesystem_used_bytes", "filesystem_free_bytes"},
   processes |-> {"process_running", "process_sleeping", "process_blocked", "process_threads"}]

Graphs == DOMAIN Listed \cup {"power", "disk"}

Preferred == {"gpu_power_w", "gpu_util_pct"}

(* Which collector measures what in which unit, as far as it matters here: *)
(* in watts are powers only, of which the lists have those of the psu, and *)
(* the power of a gpu is in watts and no limit.                            *)
DefaultGraphsConstants ==
  \A m \in Metrics :
    /\ m.symbol = "W" => /\ m.name \notin {"disk_read_bytes_per_second",
                                          "disk_written_bytes_per_second"}
                         /\ \A g \in DOMAIN Listed \ {"psu"} : m.name \notin Listed[g]
    /\ m.name = "gpu_power_w" => m.symbol = "W" /\ ~Limit(m)

SkipFallbackGPUMetric_Any(m) ==
  /\ m.collector = "rocm" /\ m.name \in Preferred
  /\ \E n \in metrics : n.collector = "drm" /\ n.name \in Preferred

SkipFallbackGPUMetric(m) ==
  /\ m.collector = "rocm" /\ m.name \in Preferred
  /\ \E n \in metrics : n.collector = "drm" /\ n.name = m.name

Includes(graph, m) ==
  CASE graph = "power" -> IsPowerMetric(m)
    [] graph = "disk" -> IsDefaultDiskThroughputMetric(m)
    [] OTHER -> m.name \in Listed[graph]

(* graphSeriesByPredicate; a graph with none is not there.                 *)
Series(graph) == {m \in metrics : Includes(graph, m) /\ ~SkipFallbackGPUMetric(m)}

(* commonUnit, and what the page makes of a series whose symbol differs.   *)
Symbols(graph) == {m.symbol : m \in Series(graph)}

CommonSymbol(graph) ==
  IF graph = "power" THEN "W"
  ELSE IF Symbols(graph) \subseteq {"B/s", "MiB/s"} THEN "B/s"
  ELSE IF Symbols(graph) \subseteq {"B", "MiB"} THEN "B"
  ELSE IF \E s \in Symbols(graph) : Symbols(graph) = {s} THEN CHOOSE s \in Symbols(graph) : TRUE
  ELSE ""

Converted(from, axis) == <<from, axis>> \in {<<"MiB", "B">>, <<"MiB/s", "B/s">>}

Init == metrics = {}

Discover(m) == metrics' = metrics \cup {m}          \* or sample it again

Next == \E m \in Metrics : Discover(m)

-----------------------------------------------------------------------------
(* No metric is on two graphs, so that nothing is shown twice.             *)
OneGraphEach ==
  \A g, h \in Graphs : g # h => Series(g) \cap Series(h) = {}

(* A metric that belongs on a graph is there, or the same quantity is,     *)
(* from drm: no graph is lost to what is found later.                      *)
NothingLost ==
  \A g \in Graphs : \A m \in metrics : Includes(g, m) =>
    \E n \in Series(g) : n.name = m.name /\ (n # m => n.collector = "drm")

(* What is drawn on an axis with a unit is in that unit.                   *)
AxesFit ==
  \A g \in Graphs : \A m \in Series(g) :
    CommonSymbol(g) # "" => m.symbol = CommonSymbol(g) \/ Converted(m.symbol, CommonSymbol(g))
=============================================================================
