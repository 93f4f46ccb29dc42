---------------------------- MODULE GraphHistory ----------------------------
(***************************************************************************)
(* One graph of the dashboard in the browser: the chart, the history it    *)
(* was loaded from (graphData), the range that is loaded (graphRanges) and *)
(* the answers of /api/query/batch that are still on their way, against    *)
(* the live samples of the WebSocket.  JavaScript runs one callback at a   *)
(* time; answers come in any order, or not at all.                         *)
(*                                                                         *)
(* The graph shows sensor "b"; when the catalog is found to have a second  *)
(* sensor "a", which sorts before it, the graph is built anew.  A point is *)
(* its series and its time: rates, units and gap markers are left out, and *)
(* so is the thinning of long ranges.                                      *)
(***************************************************************************)
EXTENDS Integers, Sequences, FiniteSetsExt

CONSTANTS
  Ranges,      \* time ranges to choose from, as durations
  Margins,     \* how far beyond its left edge a viewport loads
  MaxTime,     \* bound: the last sample's time
  MaxBuilds,   \* bound: how often charts are built
  MaxLoads     \* bound: queries under way at a time

GraphHistoryConstants ==
  /\ Ranges \subseteq Nat /\ Ranges # {}
  /\ Margins \subseteq Nat
  /\ MaxTime \in Nat /\ MaxBuilds \in Nat \ {0} /\ MaxLoads \in Nat \ {0}

FirstTime == 2         \* when the page is opened; there is one point before
Sensors == {"a", "b"}
SeriesOf(v) == IF v = 1 THEN <<"b">> ELSE <<"a", "b">>
None == -1

VARIABLES
  now,         \* time of the newest sample
  store,       \* points the server has
  wire,        \* samples sent and not yet delivered, as sets of points with a time
  delivered,   \* time of the last sample delivered
  version,     \* version of the graph in the catalog
  range,       \* layout.time_range
  paused,
  build,       \* number of times the chart was built
  chart,       \* the chart's datasets
  view,        \* left edge the user panned to, or None
  data,        \* graphData: <<>> as long as there is none
  loadedFrom,  \* graphRanges' start, or None
  loads,       \* queries under way
  missed,      \* times that may be missing (for the properties)
  trusted      \* what was loaded belongs to this build (for the properties)

server == <<now, store>>
socket == <<wire, delivered>>
choices == <<version, range, paused>>
shown == <<build, chart, view>>
history == <<data, loadedFrom>>
vars == <<server, socket, choices, shown, history, loads, missed, trusted>>

series == SeriesOf(version)

(* What the server answers: every series asked for, in that order.  Points *)
(* up to the query's end are stored when it is made.                       *)
Stored(s, from, upto) == {p \in store : p.series = s /\ p.time \in from..upto}

Answer(q) ==
  [k \in DOMAIN SeriesOf(q.version) |->
     LET s == SeriesOf(q.version)[k]
     IN  [id |-> s, points |-> Stored(s, q.start, q.upto)]]

(* loadGraphHistory's query.                                               *)
Window(v, b) ==
  [kind |-> "window", version |-> v, build |-> b, start |-> now - range, upto |-> now]

Init ==
  /\ now = FirstTime
  /\ store = {[series |-> "b", time |-> t] : t \in 1..FirstTime}
  /\ wire = <<>> /\ delivered = FirstTime
  /\ version = 1 /\ range \in Ranges /\ paused = FALSE
  /\ build = 1 /\ chart = <<{}>> /\ view = None
  /\ data = <<>> /\ loadedFrom = None
  /\ loads = {Window(1, 1)}
  /\ missed = {} /\ trusted = FALSE

-----------------------------------------------------------------------------
(* The daemon and the network.                                             *)

(* A sample: sensor "b" is always there, "a" comes and goes.               *)
Sample(sensors) ==
  /\ now < MaxTime
  /\ now' = now + 1
  /\ LET points == [series : sensors, time : {now + 1}]
     IN  /\ store' = store \cup points
         /\ wire' = Append(wire, [time |-> now + 1, points |-> points])
  /\ UNCHANGED <<delivered, choices, shown, history, loads, missed, trusted>>

(* The socket breaks and is connected again; history is not reloaded.      *)
Reconnect ==
  /\ wire # <<>>
  /\ missed' = missed \cup {wire[k].time : k \in DOMAIN wire}
  /\ wire' = <<>>
  /\ UNCHANGED <<server, delivered, choices, shown, history, loads, trusted>>

LoadFails(q) ==
  /\ loads' = loads \ {q}
  /\ UNCHANGED <<server, socket, choices, shown, history, missed, trusted>>

-----------------------------------------------------------------------------
(* applyLivePointsToCharts.                                                *)

Updates(points) == {k \in DOMAIN series : \E p \in points : p.series = series[k]}
Live(points, k) == {p \in points : p.series = series[k]}
Since(points, from) == {p \in points : p.time >= from}

(* appendLiveGraphData: a series the history does not have is begun.       *)
AppendLive_Not(points) == data

AppendLive_Packed(points) == \* counts the updates, not the graph's series
  IF data = <<>> THEN data
  ELSE LET updates == Updates(points)
           Place(k) == Cardinality({j \in updates : j <= k})
       IN  [k \in DOMAIN data |->
              [data[k] EXCEPT
                 !.points = @ \cup UNION {Live(points, j) : j \in {i \in updates : Place(i) = k}}]]

AppendLive(points) ==
  IF data = <<>> THEN data
  ELSE [k \in 1..Max({Len(data)} \cup Updates(points)) |->
          LET item == IF k \in DOMAIN data THEN data[k] ELSE [id |-> series[k], points |-> {}]
          IN  [item EXCEPT !.points = @ \cup (IF k \in DOMAIN series THEN Live(points, k) ELSE {})]]

(* liveRetentionCutoff.                                                    *)
Cutoff(t) == IF view = None THEN t - range ELSE Min({t - range, view})

Deliver ==
  /\ wire # <<>>
  /\ LET t == Head(wire).time
         points == Head(wire).points
         from == Cutoff(t)
     IN  /\ delivered' = t
         /\ IF paused \/ Updates(points) = {}
            THEN UNCHANGED <<chart, history>>
            ELSE /\ data' = LET d == AppendLive(points)
                            IN  [k \in DOMAIN d |-> [d[k] EXCEPT !.points = Since(@, from)]]
                 /\ chart' = [k \in DOMAIN chart |->
                                IF k \in Updates(points)
                                THEN Since(chart[k] \cup Live(points, k), from)
                                ELSE chart[k]]
                 /\ loadedFrom' = IF loadedFrom = None THEN from ELSE Max({loadedFrom, from})
         /\ missed' = IF paused THEN missed \cup {t} ELSE missed
  /\ wire' = Tail(wire)
  /\ UNCHANGED <<server, choices, build, view, loads, trusted>>

-----------------------------------------------------------------------------
(* applyGraphDataToChart: datasets and history are matched by position.    *)
Plotted(d) == [k \in DOMAIN chart |-> IF k \in DOMAIN d THEN d[k].points ELSE {}]

(* loadGraphHistory, once the answer is there.                             *)
WindowArrives(q) ==
  /\ q.kind = "window"
  /\ data' = Answer(q)
  /\ loadedFrom' = q.start
  /\ chart' = Plotted(data')
  /\ loads' = loads \ {q}
  /\ missed' = missed \cup (q.upto + 1)..delivered
  /\ trusted' = (q.build = build)
  /\ UNCHANGED <<server, socket, choices, build, view>>

(* mergeGraphData: by id, the last of several.                             *)
Merged_OlderOnly(q) == Answer(q)

Merged(q) ==
  [k \in DOMAIN Answer(q) |->
     LET older == Answer(q)[k]
         same == {j \in DOMAIN data : data[j].id = older.id}
     IN  IF same = {} THEN older
         ELSE [older EXCEPT !.points = @ \cup data[Max(same)].points]]

(* The end of ensureGraphHistoryForViewport.                               *)
OlderArrives(q) ==
  /\ q.kind = "older"
  /\ data' = Merged(q)
  /\ loadedFrom' = Min({q.start, q.upto})
  /\ chart' = Plotted(data')
  /\ loads' = loads \ {q}
  /\ trusted' = (trusted /\ q.build = build /\ q.upto = loadedFrom)
  /\ UNCHANGED <<server, socket, choices, build, view, missed>>

-----------------------------------------------------------------------------
(* The user, and refreshCatalogFromServer.                                 *)

(* ensureGraphHistoryForViewport: the margin is up to the zoom.            *)
Wanted(start) ==
  /\ loadedFrom # None /\ start < loadedFrom
  /\ ~\E q \in loads : q.kind = "older" /\ q.start = start /\ q.upto = loadedFrom

Pan(left, margin) ==
  /\ left >= margin /\ left # view
  /\ Wanted(left - margin) => Cardinality(loads) < MaxLoads
  /\ view' = left
  /\ loads' =
       IF Wanted(left - margin)
       THEN loads \cup {[kind |-> "older", version |-> version, build |-> build,
                         start |-> left - margin, upto |-> loadedFrom]}
       ELSE loads
  /\ UNCHANGED <<server, socket, choices, build, chart, history, missed, trusted>>

ResetZoom ==
  /\ view # None
  /\ view' = None
  /\ UNCHANGED <<server, socket, choices, build, chart, history, loads, missed, trusted>>

(* makeChart: a dataset for every series, empty.                           *)
NewChart(v) == [k \in DOMAIN SeriesOf(v) |-> {}]

(* refreshAllGraphs: new charts, the old history until the answer comes.   *)
Rebuild(v) ==
  /\ build < MaxBuilds /\ Cardinality(loads) < MaxLoads
  /\ version' = v
  /\ build' = build + 1
  /\ chart' = NewChart(v)
  /\ view' = None
  /\ loads' = loads \cup {Window(v, build + 1)}
  /\ trusted' = FALSE
  /\ UNCHANGED <<server, socket, range, paused, history, missed>>

Refresh == Rebuild(version)

GrowCatalog ==
  /\ version = 1
  /\ \E p \in store : p.series = "a"
  /\ Rebuild(2)

(* The chart is built anew only after the layout has been saved.           *)
SetRange(r) ==
  /\ range # r
  /\ range' = r
  /\ UNCHANGED <<server, socket, version, paused, shown, history, loads, missed, trusted>>

Pause ==
  /\ paused' = ~paused
  /\ UNCHANGED <<server, socket, version, range, shown, history, loads, missed, trusted>>

-----------------------------------------------------------------------------
Next ==
  \/ \E sensors \in {{"b"}, Sensors} : Sample(sensors)
  \/ Reconnect
  \/ Deliver
  \/ \E q \in loads : LoadFails(q) \/ WindowArrives(q) \/ OlderArrives(q)
  \/ \E left \in 0..MaxTime, margin \in Margins : Pan(left, margin)
  \/ ResetZoom
  \/ Refresh
  \/ GrowCatalog
  \/ \E r \in Ranges : SetRange(r)
  \/ Pause

Spec == Init /\ [][Next]_vars

-----------------------------------------------------------------------------
(* Every point is drawn, and kept, under its own series, as long as no     *)
(* answer to a chart of the past comes between.                            *)
PointsUnderOwnSeries ==
  trusted => \A k \in DOMAIN series :
    /\ \A p \in chart[k] : p.series = series[k]
    /\ data[k].id = series[k] /\ \A p \in data[k].points : p.series = series[k]

(* The chart has every point the server has in the range it believes to    *)
(* have loaded: only samples that went by while it was paused, not         *)
(* connected, or waiting for its history may be missing.                   *)
LoadedRangeIsComplete ==
  trusted => \A k \in DOMAIN series :
    \A p \in Stored(series[k], loadedFrom, delivered) : p.time \in missed \/ p \in chart[k]

(* The chart and the history it would be rebuilt from are the same.        *)
HistoryInStep ==
  trusted => \A k \in DOMAIN series :
    Since(chart[k], loadedFrom) = Since(data[k].points, loadedFrom)

(* What makes these inductive: a sample that is neither delivered nor on   *)
(* the wire has been missed, what is on the wire is what the server stored *)
(* for that time, and only a query of this build asks for its series.      *)
TypeOK ==
  /\ now \in Nat /\ delivered \in Nat
  /\ store \subseteq [series : Sensors, time : 1..now]
  /\ wire \in Seq([time : 1..now, points : SUBSET store])
  /\ version \in {1, 2} /\ range \in Ranges /\ paused \in BOOLEAN
  /\ build \in Nat /\ view \in Int /\ loadedFrom \in Int
  /\ chart \in [DOMAIN series -> SUBSET store]
  /\ data \in Seq([id : Sensors, points : SUBSET store]) /\ Len(data) <= 2
  /\ loads \subseteq [kind : {"window", "older"}, version : {1, 2}, build : 0..build,
                      start : Int, upto : Int]
  /\ missed \subseteq Int /\ trusted \in BOOLEAN

OnTheWire ==
  /\ delivered + Len(wire) <= now
  /\ \A k \in DOMAIN wire :
       /\ wire[k].time = now - Len(wire) + k
       /\ wire[k].points = {p \in store : p.time = wire[k].time}
  /\ (delivered + 1)..(now - Len(wire)) \subseteq missed

OnTheirWay ==
  \A q \in loads :
    /\ q.build = build => q.version = version
    /\ q.kind = "older" => q.start < q.upto

Matched == trusted => DOMAIN data = DOMAIN series

IInv ==
  /\ TypeOK /\ OnTheWire /\ OnTheirWay /\ Matched
  /\ PointsUnderOwnSeries /\ LoadedRangeIsComplete /\ HistoryInStep

(* Loading older data on pan does not drop points: what the comment in     *)
(* applyLivePointsToCharts says appending to the history is for.           *)
PanKeepsPoints ==
  [][\A q \in loads : OlderArrives(q) => \A k \in DOMAIN chart : chart[k] \subseteq chart'[k]]_vars
=============================================================================
