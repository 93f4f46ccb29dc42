------------------------------- MODULE MCPage -------------------------------
(* The web page and what the daemon does for it, one of these at a time:   *)
(* the layout being edited (Dashboard's variables) while saves overlap or  *)
(* the daemon restarts, a graph's history in the page (GraphHistory's), a  *)
(* layout file of any age, the default graphs of a growing catalog, or the *)
(* answer to a query.                                                      *)
EXTENDS Dashboard, TLC

CONSTANTS Ranges, Margins, MaxTime, MaxBuilds, MaxLoads,          \* of GraphHistory
          Spacing, GapThreshold, Least, Plausible,                \* of Queries
          Names, Files, Metrics                                   \* of LayoutRules, DefaultGraphs

VARIABLES
  subject,                                                        \* never changes
  now, store, wire, delivered, version, range, paused, build,
  chart, view, data, loadedFrom, loads, missed, trusted,          \* of GraphHistory
  oldFile, loaded,                                                \* of LayoutRules
  metrics,                                                        \* of DefaultGraphs
  query                                                           \* of Queries

historyVars == <<now, store, wire, delivered, version, range, paused, build,
                 chart, view, data, loadedFrom, loads, missed, trusted>>
layoutVars == <<oldFile, loaded>>
allVars == <<subject, vars, historyVars, layoutVars, metrics, query>>

(* Layouts with the graphs of today and of before, hidden, copied or not.  *)
OldIds == {"builtin-cpu-power", "builtin-gpu-power", "builtin-power", "builtin-disk"}
Upto(n, S) == UNION {[1..k -> S] : k \in 0..n}
MCNames == OldIds \cup {"", "custom", "summary-total-power", "summary-energy"}
MCFiles ==
  [order : Upto(3, OldIds \cup {"custom"}), hidden : Upto(1, OldIds),
   customs : {<<>>} \cup {<<[id |-> "custom", source |-> s]>> : s \in OldIds \cup {""}},
   hiddenCustom : {<<>>, <<"custom", "custom">>},
   summary : {<<"null">>, <<>>, <<"summary-energy", "", "summary-energy">>}]

(* For every rule of DefaultGraphs metrics that meet it and that do not.   *)
Metric(name, symbol, collector) ==
  [name |-> name, symbol |-> symbol, collector |-> collector, device |-> "whole", limit |-> FALSE]
MCMetrics ==
  {Metric("gpu_power_w", "W", c) : c \in {"drm", "rocm"}}
    \cup {Metric("gpu_util_pct", "%", c) : c \in {"drm", "rocm"}}
    \cup {Metric("psu_output_power_w", "W", "corsair"), Metric("psu_input_power_w", "W", "corsair"),
          Metric("gpu_mem_used_mib", "MiB", "nvidia"), Metric("gpu_vram_used_bytes", "B", "drm"),
          Metric("disk_read_bytes_per_second", "B/s", "disk"),
          [Metric("disk_read_bytes_per_second", "B/s", "disk") EXCEPT !.device = "partition"],
          [Metric("gpu_power_limit_w", "W", "drm") EXCEPT !.limit = TRUE]}

History == INSTANCE GraphHistory
Rules == INSTANCE LayoutRules WITH file <- oldFile
Presets == INSTANCE DefaultGraphs
Answers == INSTANCE Queries

ASSUME HistoryConstants == History!GraphHistoryConstants
ASSUME QueryConstants == Answers!QueriesConstants
ASSUME LayoutConstants == Rules!LayoutRulesConstants
ASSUME PresetConstants == Presets!DefaultGraphsConstants

(* Series sampled throughout or with a break, asked for in points; and     *)
(* series of any times and values, asked for in rates.                     *)
NoQuery == [seam |-> -1, history |-> <<>>, ask |-> <<>>]
Ask(start, end) ==
  [start |-> start, end |-> end, requested |-> 0, zenpower |-> FALSE, rate |-> FALSE, short |-> {}]

Thinned(start, end, requested, short, gone) ==
  [seam |-> -1, history |-> [t \in (0..10) \ gone |-> 0],
   ask |-> [Ask(start, end) EXCEPT !.requested = requested, !.short = short]]

Gaps == {{}} \cup {t..u : t \in 1..7, u \in 3..9}

IsThinned ==
  \E start \in 0..2, end \in {0, 1, 6, 9, 10} :
    \E requested \in {0, 1, 2, 4, Answers!PageRequest(start, end)},
       short \in {{}, {1}, {2}, {3}, 1..10}, gone \in Gaps :
      query = Thinned(start, end, requested, short, gone)

IsRate ==
  \E times \in SUBSET (0..4), zenpower \in BOOLEAN, seam \in 0..4 :
    \E history \in [times -> 0..2] :
      query = [seam |-> seam, history |-> history,
               ask |-> [Ask(0, 4) EXCEPT !.zenpower = zenpower, !.rate = TRUE]]

At(s) == subject = s

(* A layout is edited while saves overlap, or while the daemon comes to    *)
(* list other graphs (bounds: not both).                                   *)
EditNext ==
  \/ At("layout") /\ Next /\ catalog' = catalog
  \/ At("restarts") /\ Next /\ Cardinality(saves') <= 1

MCInit ==
  /\ subject \in {"layout", "restarts", "history", "upgrade", "presets", "query"}
  /\ Init /\ (~At("restarts") => catalog = Builtins)
  /\ History!Init /\ (~At("history") => range = Max(Ranges))
  /\ IF At("upgrade") THEN Rules!Init ELSE oldFile = <<>> /\ loaded = <<>>
  /\ Presets!Init
  /\ IF At("query") THEN IsThinned \/ IsRate ELSE query = NoQuery

MCNext ==
  /\ \/ EditNext /\ UNCHANGED <<historyVars, layoutVars, metrics>>
     \/ At("history") /\ History!Next /\ UNCHANGED <<vars, layoutVars, metrics>>
     \/ At("upgrade") /\ Rules!Next /\ UNCHANGED <<vars, historyVars, metrics>>
     \/ At("presets") /\ Presets!Next /\ UNCHANGED <<vars, historyVars, layoutVars>>
     \/ At("query") /\ UNCHANGED <<vars, historyVars, layoutVars, metrics>>
  /\ UNCHANGED <<subject, query>>

MCSpec == MCInit /\ [][MCNext]_allVars

-----------------------------------------------------------------------------
(* Every point is drawn, and kept, under its own series, as long as no     *)
(* answer to a chart of the past comes between.                            *)
PointsUnderOwnSeries == History!PointsUnderOwnSeries

(* The chart has every point the server has in the range it believes to    *)
(* have loaded, but for samples that went by it.                           *)
LoadedRangeIsComplete == History!LoadedRangeIsComplete

(* The chart and the history it would be rebuilt from are the same.        *)
HistoryInStep == History!HistoryInStep

(* A layout file of any age looks the same however often it is saved and   *)
(* loaded, and its two power graphs become one without moving the others.  *)
LayoutSurvivesUpgrade == At("upgrade") => Rules!LayoutSettles /\ Rules!PowerGraphsMerge

(* Whatever sensors are found, and in whatever order: no metric is on two  *)
(* default graphs, none that belongs on one is lost, and all fit the axis. *)
DefaultGraphsShowAll ==
  At("presets") => Presets!OneGraphEach /\ Presets!NothingLost /\ Presets!AxesFit

(* The thinned answer to a query spans its range at the resolution it owes *)
(* and draws no gap that is not there; rates loaded in two pieces lack at  *)
(* most the interval across the seam.                                      *)
HistoryComesWhole ==
  At("query") => IF query.ask.rate
                 THEN Answers!SeamCutsOneInterval(query.history, query.ask, query.seam)
                 ELSE Answers!ThinnedIsWhole(query.history, query.ask)
=============================================================================
