----------------------------- MODULE PageProofs -----------------------------
(***************************************************************************)
(* What the web page keeps, for any number of graphs, edits and saves      *)
(* under way, and for any ranges to choose from and any number of samples, *)
(* builds and queries: its graphs' history first, then its layout, the     *)
(* graphs it starts with, a layout file of an older build, and the answers *)
(* to its queries.                                                         *)
(*                                                                         *)
(* Orders of graphs are reasoned about as rows, sequences without a        *)
(* repetition: two rows with the same elements in the same order are equal *)
(* (SameRow), so that it is enough to say of an operator which elements it *)
(* leaves and which of them stand before which. What may repeat is         *)
(* reasoned about by the places that are taken from it (SelectedIs).       *)
(***************************************************************************)
EXTENDS MCPage, SequenceTheorems, FiniteSetTheorems, WellFoundedInduction, TLAPS

-----------------------------------------------------------------------------
(* The history of a graph.                                                 *)

(* A function from the first numbers is a sequence.                        *)
LEMMA FunctionIsSequence ==
  ASSUME NEW S, NEW n \in Nat, NEW f \in [1..n -> S]
  PROVE  f \in Seq(S) /\ Len(f) = n
OBVIOUS

(* A version of the graph has as many series as its number says.           *)
LEMMA SeriesOfVersion ==
  ASSUME NEW v \in {1, 2}
  PROVE  /\ DOMAIN History!SeriesOf(v) = 1..v
         /\ \A k \in 1..v : History!SeriesOf(v)[k] \in History!Sensors
         /\ \A j, k \in 1..v : History!SeriesOf(v)[j] = History!SeriesOf(v)[k] => j = k
<1>1. CASE v = 1
  BY <1>1 DEF History!SeriesOf, History!Sensors
<1>2. CASE v = 2
  BY <1>2 DEF History!SeriesOf, History!Sensors
<1>. QED
  BY <1>1, <1>2

(* What the server answers to a query.                                     *)
LEMMA AnswersQuery ==
  ASSUME History!TypeOK, NEW q \in loads
  PROVE  /\ History!Answer(q) \in Seq([id : History!Sensors, points : SUBSET store])
         /\ DOMAIN History!Answer(q) = 1..q.version /\ Len(History!Answer(q)) = q.version
         /\ \A k \in 1..q.version :
              /\ History!Answer(q)[k] \in [id : History!Sensors, points : SUBSET store]
              /\ History!Answer(q)[k].id = History!SeriesOf(q.version)[k]
              /\ History!Answer(q)[k].points =
                   History!Stored(History!SeriesOf(q.version)[k], q.start, q.upto)
<1>1. q.version \in {1, 2}
  BY DEF History!TypeOK
<1>2. /\ DOMAIN History!SeriesOf(q.version) = 1..q.version
      /\ \A k \in 1..q.version : History!SeriesOf(q.version)[k] \in History!Sensors
  BY <1>1, SeriesOfVersion
<1>3. History!Answer(q) = [k \in 1..q.version |->
                             [id |-> History!SeriesOf(q.version)[k],
                              points |-> History!Stored(History!SeriesOf(q.version)[k],
                                                        q.start, q.upto)]]
  BY <1>2 DEF History!Answer
<1>4. \A s : History!Stored(s, q.start, q.upto) \in SUBSET store
  BY DEF History!Stored
<1>5. \A k \in 1..q.version :
        History!Answer(q)[k] \in [id : History!Sensors, points : SUBSET store]
  BY <1>2, <1>3, <1>4
<1>6. q.version \in Nat /\ DOMAIN History!Answer(q) = 1..q.version
  BY <1>1, <1>3
<1>7. History!Answer(q) \in [1..q.version -> [id : History!Sensors, points : SUBSET store]]
  BY <1>3, <1>5, <1>6
<1>8. /\ History!Answer(q) \in Seq([id : History!Sensors, points : SUBSET store])
      /\ Len(History!Answer(q)) = q.version
  BY <1>6, <1>7, FunctionIsSequence
<1>. QED
  BY <1>3, <1>5, <1>6, <1>8

(* What is on the wire are samples with a time.                            *)
LEMMA WireHasSamples ==
  ASSUME History!TypeOK
  PROVE  /\ Len(wire) \in Nat /\ DOMAIN wire = 1..Len(wire)
         /\ now \in Nat /\ delivered \in Nat
         /\ \A k \in 1..Len(wire) : /\ wire[k].time \in 1..now
                                    /\ wire[k].points \in SUBSET store
<1>1. wire \in Seq([time : 1..now, points : SUBSET store])
  BY DEF History!TypeOK
<1>2. Len(wire) \in Nat /\ DOMAIN wire = 1..Len(wire)
  BY <1>1, LenProperties
<1>3. \A k \in 1..Len(wire) : wire[k] \in [time : 1..now, points : SUBSET store]
  BY <1>1, ElementOfSeq
<1>4. now \in Nat /\ delivered \in Nat
  BY DEF History!TypeOK
<1>. QED
  BY <1>2, <1>3, <1>4

(* The page is opened.                                                     *)
LEMMA HistoryStarts == History!Init => History!IInv
<1> SUFFICES ASSUME History!Init PROVE History!IInv
  OBVIOUS
<1> USE DEF History!Init
<1>1. Ranges \subseteq Nat
  BY HistoryConstants DEF History!GraphHistoryConstants
<1>2. /\ DOMAIN History!series = 1..1
      /\ store \subseteq [series : History!Sensors, time : 1..now] /\ now = 2
  BY SeriesOfVersion DEF History!series, History!Sensors, History!FirstTime
<1>3. wire = <<>> /\ Len(wire) = 0 /\ DOMAIN wire = {} /\ data = <<>>
  OBVIOUS
<1>4. History!TypeOK
  <2>1. wire \in Seq([time : 1..now, points : SUBSET store])
        /\ data \in Seq([id : History!Sensors, points : SUBSET store]) /\ Len(data) <= 2
    BY <1>3
  <2>2. chart \in [DOMAIN History!series -> SUBSET store]
    BY <1>2
  <2>3. range \in Nat
    BY <1>1
  <2>4. loads \subseteq [kind : {"window", "older"}, version : {1, 2}, build : 0..build,
                         start : Int, upto : Int]
    BY <1>2, <2>3 DEF History!Window
  <2>5. view \in Int /\ loadedFrom \in Int /\ now \in Nat /\ delivered \in Nat
    BY DEF History!None, History!FirstTime
  <2>6. version \in {1, 2} /\ range \in Ranges /\ paused \in BOOLEAN /\ build \in Nat
    OBVIOUS
  <2>7. missed \subseteq Int /\ trusted \in BOOLEAN
    OBVIOUS
  <2>. QED
    BY <1>2, <2>1, <2>2, <2>4, <2>5, <2>6, <2>7 DEF History!TypeOK
<1>5. History!OnTheWire /\ History!OnTheirWay
  BY <1>2, <1>3 DEF History!OnTheWire, History!OnTheirWay, History!Window, History!FirstTime
<1>. QED
  BY <1>4, <1>5
  DEF History!IInv, History!Matched, History!PointsUnderOwnSeries,
      History!LoadedRangeIsComplete, History!HistoryInStep


(* The steps that touch neither the chart nor what was loaded, nor what is *)
(* on the wire.                                                            *)
LEMMA QuietStepKeeps ==
  ASSUME History!IInv,
         \/ \E q \in loads : History!LoadFails(q)
         \/ \E left \in 0..MaxTime, margin \in Margins : History!Pan(left, margin)
         \/ \E r \in Ranges : History!SetRange(r)
         \/ History!ResetZoom \/ History!Pause \/ UNCHANGED historyVars
  PROVE  History!IInv'
<1> USE DEF History!IInv
<1>1. /\ UNCHANGED <<now, store, wire, delivered, version, build, chart, data, loadedFrom,
                     missed, trusted>>
      /\ range' \in Ranges /\ paused' \in BOOLEAN /\ view' \in Int
  <2>1. CASE \E q \in loads : History!LoadFails(q)
    BY <2>1 DEF History!LoadFails, History!server, History!socket, History!choices,
                History!shown, History!history, History!TypeOK
  <2>2. CASE \E left \in 0..MaxTime, margin \in Margins : History!Pan(left, margin)
    BY <2>2 DEF History!Pan, History!server, History!socket, History!choices,
                History!history, History!TypeOK
  <2>3. CASE \E r \in Ranges : History!SetRange(r)
    BY <2>3 DEF History!SetRange, History!server, History!socket, History!shown,
                History!history, History!TypeOK
  <2>4. CASE History!ResetZoom
    BY <2>4 DEF History!ResetZoom, History!server, History!socket, History!choices,
                History!history, History!TypeOK, History!None
  <2>5. CASE History!Pause
    BY <2>5 DEF History!Pause, History!server, History!socket, History!shown,
                History!history, History!TypeOK
  <2>6. CASE UNCHANGED historyVars
    BY <2>6 DEF historyVars, History!TypeOK
  <2>. QED
    BY <2>1, <2>2, <2>3, <2>4, <2>5, <2>6
<1>2. \A q \in loads' \ loads :
        /\ q \in [kind : {"older"}, version : {version}, build : {build}, start : Int, upto : Int]
        /\ q.start < q.upto
  <2>1. CASE \E q \in loads : History!LoadFails(q)
    BY <2>1 DEF History!LoadFails
  <2>2. ASSUME NEW left \in 0..MaxTime, NEW margin \in Margins, History!Pan(left, margin)
        PROVE  \A q \in loads' \ loads :
          /\ q \in [kind : {"older"}, version : {version}, build : {build}, start : Int,
                    upto : Int]
          /\ q.start < q.upto
    <3>1. left \in Int /\ margin \in Int /\ loadedFrom \in Int
      BY HistoryConstants DEF History!GraphHistoryConstants, History!TypeOK
    <3>. QED
      BY <2>2, <3>1 DEF History!Pan, History!Wanted
  <2>3. CASE \E r \in Ranges : History!SetRange(r)
    BY <2>3 DEF History!SetRange
  <2>4. CASE History!ResetZoom
    BY <2>4 DEF History!ResetZoom
  <2>5. CASE History!Pause
    BY <2>5 DEF History!Pause
  <2>6. CASE UNCHANGED historyVars
    BY <2>6 DEF historyVars
  <2>. QED
    BY <2>1, <2>2, <2>3, <2>4, <2>5, <2>6
<1>3. loads' \subseteq [kind : {"window", "older"}, version : {1, 2}, build : 0..build,
                        start : Int, upto : Int]
  <2>1. version \in {1, 2} /\ build \in Nat /\ build \in 0..build
    BY DEF History!TypeOK
  <2>. QED
    BY <1>2, <2>1 DEF History!TypeOK
<1>4. History!TypeOK'
  BY <1>1, <1>3 DEF History!TypeOK, History!series
<1>5. History!OnTheirWay'
  BY <1>1, <1>2 DEF History!OnTheirWay
<1>6. History!OnTheWire' /\ History!Matched' /\ History!PointsUnderOwnSeries'
      /\ History!LoadedRangeIsComplete' /\ History!HistoryInStep'
  BY <1>1 DEF History!OnTheWire, History!Matched, History!PointsUnderOwnSeries,
              History!LoadedRangeIsComplete, History!HistoryInStep, History!series,
              History!Stored, History!Since
<1>. QED
  BY <1>4, <1>5, <1>6

(* The server takes another sample and sends it.                           *)
LEMMA SampleKeeps ==
  ASSUME History!IInv, NEW sensors \in SUBSET History!Sensors, History!Sample(sensors)
  PROVE  History!IInv'
<1> USE DEF History!IInv
<1> DEFINE new == [series : sensors, time : {now + 1}]
           sample == [time |-> now + 1, points |-> new]
<1>1. /\ now' = now + 1 /\ store' = store \cup new /\ wire' = Append(wire, sample)
      /\ UNCHANGED <<delivered, version, range, paused, build, chart, view, data, loadedFrom,
                     loads, missed, trusted>>
  BY DEF History!Sample, History!choices, History!shown, History!history
<1>2. /\ now \in Nat /\ delivered \in Nat
      /\ \A p \in store : p.time \in 1..now
      /\ \A p \in new : p.time = now + 1
  BY DEF History!TypeOK
<1>3. store \subseteq store' /\ new \subseteq store'
      /\ store' \subseteq [series : History!Sensors, time : 1..now']
  BY <1>1, <1>2 DEF History!TypeOK
<1>4. wire \in Seq([time : 1..now', points : SUBSET store'])
      /\ sample \in [time : 1..now', points : SUBSET store']
  <2>1. [time : 1..now, points : SUBSET store] \subseteq [time : 1..now', points : SUBSET store']
    BY <1>1, <1>2, <1>3
  <2>2. wire \in Seq([time : 1..now, points : SUBSET store])
    BY DEF History!TypeOK
  <2>3. wire \in Seq([time : 1..now', points : SUBSET store'])
    BY <2>1, <2>2, SeqMonotonic
  <2>. QED
    BY <1>1, <1>2, <1>3, <2>3
<1>5. data \in Seq([id : History!Sensors, points : SUBSET store'])
  <2>1. [id : History!Sensors, points : SUBSET store]
          \subseteq [id : History!Sensors, points : SUBSET store']
    BY <1>3
  <2>. QED
    BY <2>1, SeqMonotonic DEF History!TypeOK
<1> HIDE DEF sample
<1>6. /\ wire' \in Seq([time : 1..now', points : SUBSET store'])
      /\ Len(wire') = Len(wire) + 1 /\ Len(wire) \in Nat
      /\ DOMAIN wire = 1..Len(wire) /\ DOMAIN wire' = 1..Len(wire')
      /\ \A k \in 1..Len(wire) : wire'[k] = wire[k]
      /\ wire'[Len(wire) + 1] = sample
  BY <1>1, <1>4, AppendProperties, LenProperties
<1>7. History!TypeOK'
  <2>1. chart' \in [DOMAIN History!series' -> SUBSET store']
    BY <1>1, <1>3 DEF History!TypeOK, History!series
  <2>. QED
    BY <1>1, <1>2, <1>3, <1>5, <1>6, <2>1 DEF History!TypeOK
<1>8. History!OnTheWire'
  <2> HIDE DEF new
  <2>3. \A t \in 1..now : {p \in store' : p.time = t} = {p \in store : p.time = t}
    BY <1>1, <1>2
  <2>4. {p \in store' : p.time = now + 1} = new
    BY <1>1, <1>2
  <2>5. \A k \in 1..Len(wire) : wire[k].time \in 1..now
    BY WireHasSamples
  <2>1. ASSUME NEW k \in 1..Len(wire)
        PROVE  /\ wire'[k].time = now' - Len(wire') + k
               /\ wire'[k].points = {p \in store' : p.time = wire'[k].time}
    <3>1. wire'[k] = wire[k] /\ wire[k].time \in 1..now
      BY <1>6, <2>5
    <3>2. /\ wire[k].time = now - Len(wire) + k
          /\ wire[k].points = {p \in store : p.time = wire[k].time}
      BY <1>6 DEF History!OnTheWire
    <3>3. wire'[k].points = {p \in store' : p.time = wire'[k].time}
      BY <3>1, <3>2, <2>3
    <3>. QED
      BY <3>1, <3>2, <3>3, <1>1, <1>2, <1>6
  <2>2. /\ sample.time = now' - Len(wire') + (Len(wire) + 1)
        /\ sample.points = {p \in store' : p.time = sample.time}
    <3>1. sample.time = now + 1 /\ sample.points = new
      BY DEF sample
    <3>2. now' - Len(wire') + (Len(wire) + 1) = now + 1
      BY <1>1, <1>2, <1>6
    <3>. QED
      BY <3>1, <3>2, <2>4
  <2>. QED
    BY <1>1, <1>2, <1>6, <2>1, <2>2 DEF History!OnTheWire
<1>9. \A s, from : History!Stored(s, from, delivered)' = History!Stored(s, from, delivered)
  BY <1>1, <1>2, <1>6 DEF History!Stored, History!OnTheWire
<1>10. History!LoadedRangeIsComplete'
  BY <1>1, <1>9 DEF History!LoadedRangeIsComplete, History!series
<1>. QED
  BY <1>1, <1>7, <1>8, <1>10
  DEF History!OnTheirWay, History!Matched, History!PointsUnderOwnSeries,
      History!HistoryInStep, History!series, History!Since

(* The socket breaks; what was on the wire is missed.                      *)
LEMMA ReconnectKeeps ==
  ASSUME History!IInv, History!Reconnect PROVE History!IInv'
<1> USE DEF History!IInv
<1>1. /\ wire' = <<>> /\ missed' = missed \cup {wire[k].time : k \in DOMAIN wire}
      /\ UNCHANGED <<now, store, delivered, version, range, paused, build, chart, view, data,
                     loadedFrom, loads, trusted>>
  BY DEF History!Reconnect, History!server, History!choices, History!shown, History!history
<1>2. /\ Len(wire) \in Nat /\ DOMAIN wire = 1..Len(wire) /\ now \in Nat /\ delivered \in Nat
      /\ \A k \in 1..Len(wire) : wire[k].time \in Nat
  BY WireHasSamples
<1>3. /\ wire' \in Seq([time : 1..now', points : SUBSET store'])
      /\ Len(wire') = 0 /\ DOMAIN wire' = {}
  BY <1>1
<1>4. History!TypeOK'
  <2>1. missed' \subseteq Int
    <3>1. missed \subseteq Int /\ {wire[k].time : k \in DOMAIN wire} \subseteq Int
      BY <1>2 DEF History!TypeOK
    <3>. QED
      BY <1>1, <3>1
  <2>. QED
    BY <1>1, <1>3, <2>1 DEF History!TypeOK, History!series
<1>5. \A t \in (now - Len(wire) + 1)..now : t \in missed'
  <2>1. SUFFICES ASSUME NEW t \in (now - Len(wire) + 1)..now PROVE t \in missed'
    OBVIOUS
  <2>2. t - (now - Len(wire)) \in DOMAIN wire
    BY <1>2
  <2>3. wire[t - (now - Len(wire))].time = t
    BY <1>2, <2>2 DEF History!OnTheWire
  <2>. QED
    BY <1>1, <2>2, <2>3
<1>6. History!OnTheWire'
  BY <1>1, <1>2, <1>3, <1>5 DEF History!OnTheWire
<1>. QED
  BY <1>1, <1>4, <1>6
  DEF History!OnTheirWay, History!Matched, History!PointsUnderOwnSeries,
      History!LoadedRangeIsComplete, History!HistoryInStep, History!series, History!Stored,
      History!Since

(* The chart is built anew, for the same series or for more.               *)
LEMMA RebuildKeeps ==
  ASSUME History!IInv, NEW v \in {1, 2}, History!Rebuild(v) PROVE History!IInv'
<1> USE DEF History!IInv
<1>1. /\ version' = v /\ build' = build + 1 /\ view' = History!None /\ trusted' = FALSE
      /\ chart' = [k \in DOMAIN History!SeriesOf(v) |-> {}]
      /\ loads' = loads \cup {History!Window(v, build + 1)}
      /\ UNCHANGED <<now, store, wire, delivered, range, paused, data, loadedFrom, missed>>
  BY DEF History!Rebuild, History!NewChart, History!server, History!socket, History!history
<1>2. now \in Nat /\ range \in Nat /\ build \in Nat
  BY HistoryConstants DEF History!GraphHistoryConstants, History!TypeOK
<1>3. History!Window(v, build + 1)
        \in [kind : {"window"}, version : {v}, build : {build + 1}, start : Int, upto : Int]
  BY <1>2 DEF History!Window
<1>4. \A q \in loads : q.build # build' /\ q.build \in 0..build'
  BY <1>1, <1>2 DEF History!TypeOK
<1>5. \A q \in loads' : q \in [kind : {"window", "older"}, version : {1, 2}, build : 0..build',
                               start : Int, upto : Int]
  <2>1. ASSUME NEW q \in loads
        PROVE  q \in [kind : {"window", "older"}, version : {1, 2}, build : 0..build',
                      start : Int, upto : Int]
    BY <1>4 DEF History!TypeOK
  <2>2. build + 1 \in 0..build'
    BY <1>1, <1>2
  <2>. QED
    BY <1>1, <1>3, <2>1, <2>2
<1>6. History!TypeOK'
  <2>1. chart' \in [DOMAIN History!series' -> SUBSET store']
    BY <1>1 DEF History!series
  <2>2. build' \in Nat /\ view' \in Int
    BY <1>1, <1>2 DEF History!None
  <2>. QED
    BY <1>1, <1>5, <2>1, <2>2 DEF History!TypeOK
<1>7. History!OnTheirWay'
  BY <1>1, <1>3, <1>4 DEF History!OnTheirWay
<1>8. History!OnTheWire'
  BY <1>1 DEF History!OnTheWire
<1>. QED
  BY <1>1, <1>6, <1>7, <1>8
  DEF History!Matched, History!PointsUnderOwnSeries, History!LoadedRangeIsComplete,
      History!HistoryInStep

(* A chart drawn from data that has every series is that data.             *)
LEMMA PlottedIsData ==
  ASSUME History!TypeOK, NEW d, DOMAIN d = DOMAIN History!series
  PROVE  \A k \in DOMAIN History!series : History!Plotted(d)[k] = d[k].points
BY DEF History!TypeOK, History!Plotted

(* What is plotted of a series are points that the server stored.          *)
LEMMA PlottedIsTyped ==
  ASSUME History!TypeOK, NEW d \in Seq([id : History!Sensors, points : SUBSET store])
  PROVE  History!Plotted(d) \in [DOMAIN History!series -> SUBSET store]
<1>1. \A k \in DOMAIN d : d[k].points \in SUBSET store
  <2>1. \A k \in DOMAIN d : d[k] \in [id : History!Sensors, points : SUBSET store]
    BY ElementOfSeq, LenProperties
  <2>. QED
    BY <2>1
<1>2. DOMAIN chart = DOMAIN History!series
  BY DEF History!TypeOK
<1>. QED
  BY <1>1, <1>2 DEF History!Plotted

(* The history of a whole window arrives.                                  *)
LEMMA WindowKeeps ==
  ASSUME History!IInv, NEW q \in loads, History!WindowArrives(q) PROVE History!IInv'
<1> USE DEF History!IInv
<1>1. /\ data' = History!Answer(q) /\ loadedFrom' = q.start
      /\ chart' = History!Plotted(data') /\ loads' = loads \ {q}
      /\ missed' = missed \cup (q.upto + 1)..delivered /\ trusted' = (q.build = build)
      /\ UNCHANGED <<now, store, wire, delivered, version, range, paused, build, view>>
  BY DEF History!WindowArrives, History!server, History!socket, History!choices
<1>2. /\ q.start \in Int /\ q.upto \in Int /\ q.version \in {1, 2} /\ delivered \in Nat
      /\ now \in Nat
  BY DEF History!TypeOK
<1>3. History!TypeOK'
  <2>1. data' \in Seq([id : History!Sensors, points : SUBSET store']) /\ Len(data') <= 2
    <3>1. /\ History!Answer(q) \in Seq([id : History!Sensors, points : SUBSET store])
          /\ Len(History!Answer(q)) = q.version
      BY AnswersQuery
    <3>. QED
      BY <1>1, <1>2, <3>1
  <2>2. chart' \in [DOMAIN History!series' -> SUBSET store']
    BY <1>1, <2>1, PlottedIsTyped DEF History!series
  <2>3. missed' \subseteq Int
    <3>1. missed \subseteq Int /\ (q.upto + 1)..delivered \subseteq Int
      BY <1>2 DEF History!TypeOK
    <3>. QED
      BY <1>1, <3>1
  <2>. QED
    BY <1>1, <1>2, <2>1, <2>2, <2>3 DEF History!TypeOK
<1>4. History!OnTheWire' /\ History!OnTheirWay'
  BY <1>1 DEF History!OnTheWire, History!OnTheirWay
<1>5. CASE q.build # build
  BY <1>1, <1>3, <1>4, <1>5
  DEF History!Matched, History!PointsUnderOwnSeries, History!LoadedRangeIsComplete,
      History!HistoryInStep
<1>6. CASE q.build = build
  <2>1. q.version = version /\ History!series' = History!series
    BY <1>1, <1>6 DEF History!OnTheirWay, History!series
  <2>2. /\ DOMAIN data' = DOMAIN History!series
        /\ \A k \in DOMAIN History!series :
             /\ data'[k].id = History!series[k]
             /\ data'[k].points = History!Stored(History!series[k], q.start, q.upto)
             /\ chart'[k] = data'[k].points
    <3>1. /\ DOMAIN data' = DOMAIN History!series
          /\ \A k \in DOMAIN History!series :
               /\ data'[k].id = History!series[k]
               /\ data'[k].points = History!Stored(History!series[k], q.start, q.upto)
      BY <1>1, <1>2, <2>1, AnswersQuery, SeriesOfVersion DEF History!series
    <3>. QED
      BY <1>1, <3>1, PlottedIsData
  <2>3. History!Matched' /\ History!PointsUnderOwnSeries' /\ History!HistoryInStep'
    BY <2>1, <2>2
    DEF History!Matched, History!PointsUnderOwnSeries, History!HistoryInStep, History!Stored,
        History!Since
  <2>4. History!LoadedRangeIsComplete'
    <3>1. ASSUME NEW k \in DOMAIN History!series,
                 NEW p \in History!Stored(History!series[k], q.start, delivered)
          PROVE  p.time \in missed' \/ p \in chart'[k]
      <4>1. p \in store /\ p.series = History!series[k] /\ p.time \in Int
            /\ q.start <= p.time /\ p.time <= delivered
        BY <1>2 DEF History!Stored
      <4>2. CASE p.time <= q.upto
        BY <1>2, <2>2, <4>1, <4>2 DEF History!Stored
      <4>3. CASE p.time > q.upto
        BY <1>1, <1>2, <4>1, <4>3
      <4>. QED
        BY <1>2, <4>1, <4>2, <4>3
    <3>2. \A s : History!Stored(s, loadedFrom, delivered)'
                   = {p \in store : p.series = s /\ p.time \in q.start..delivered}
      BY <1>1 DEF History!Stored
    <3>. QED
      BY <2>1, <3>1, <3>2 DEF History!LoadedRangeIsComplete, History!Stored
  <2>. QED
    BY <1>3, <1>4, <2>3, <2>4
<1>. QED
  BY <1>5, <1>6

(* Merging keeps what was loaded of every series that is asked for again.  *)
LEMMA MergedHasBoth ==
  ASSUME History!IInv, trusted, NEW q \in loads, q.version = version
  PROVE  /\ DOMAIN History!Merged(q) = DOMAIN History!series
         /\ \A k \in DOMAIN History!series :
              /\ History!Merged(q)[k].id = History!series[k]
              /\ History!Merged(q)[k].points =
                   History!Stored(History!series[k], q.start, q.upto) \cup data[k].points
<1> USE DEF History!IInv
<1>1. /\ DOMAIN History!Answer(q) = DOMAIN History!series
      /\ \A k \in DOMAIN History!series :
           /\ History!Answer(q)[k].id = History!series[k]
           /\ History!Answer(q)[k].points = History!Stored(History!series[k], q.start, q.upto)
  BY AnswersQuery, SeriesOfVersion DEF History!series, History!TypeOK
<1>2. /\ DOMAIN data = DOMAIN History!series
      /\ \A k \in DOMAIN History!series : data[k].id = History!series[k]
  BY DEF History!Matched, History!PointsUnderOwnSeries
<1>3. ASSUME NEW k \in DOMAIN History!series
      PROVE  {j \in DOMAIN data : data[j].id = History!Answer(q)[k].id} = {k}
  <2>1. \A j \in DOMAIN History!series : History!series[j] = History!series[k] => j = k
    BY SeriesOfVersion DEF History!series, History!TypeOK
  <2>. QED
    BY <1>1, <1>2, <2>1
<1>4. \A k \in DOMAIN History!series : History!Max({k}) = k
  <2>1. \A k \in DOMAIN History!series : k \in Int
    BY SeriesOfVersion DEF History!series, History!TypeOK
  <2>2. ASSUME NEW k \in Int PROVE History!Max({k}) = k
    BY DEF History!Max
  <2>. QED
    BY <2>1, <2>2
<1>5. ASSUME NEW k \in DOMAIN History!series
      PROVE  History!Merged(q)[k] =
               [History!Answer(q)[k] EXCEPT !.points = @ \cup data[k].points]
  BY <1>1, <1>3, <1>4 DEF History!Merged
<1>6. DOMAIN History!Merged(q) = DOMAIN History!series
  BY <1>1 DEF History!Merged
<1>7. \A k \in DOMAIN History!series :
        History!Answer(q)[k] \in [id : History!Sensors, points : SUBSET store]
  <2>1. History!Answer(q) \in Seq([id : History!Sensors, points : SUBSET store])
    BY AnswersQuery
  <2>. QED
    BY <1>1, <2>1, ElementOfSeq, LenProperties
<1>. QED
  BY <1>1, <1>5, <1>6, <1>7

(* There are at most two series, which is how far the largest is sought.   *)
LEMMA LargestOfFew ==
  ASSUME NEW S \in SUBSET (0..2), S # {}
  PROVE  History!Max(S) \in S /\ \A x \in S : x <= History!Max(S)
<1>1. \E m \in S : \A x \in S : m >= x
  <2>1. CASE 2 \in S
    BY <2>1
  <2>2. CASE 2 \notin S /\ 1 \in S
    BY <2>2
  <2>3. CASE 2 \notin S /\ 1 \notin S
    <3>1. \A x \in S : x = 0
      BY <2>3
    <3>2. PICK m \in S : TRUE
      OBVIOUS
    <3>. QED
      BY <3>1, <3>2
  <2>. QED
    BY <2>1, <2>2, <2>3
<1>2. History!Max(S) \in S /\ \A x \in S : History!Max(S) >= x
  BY <1>1 DEF History!Max
<1>. QED
  BY <1>2

(* The larger of two numbers is one of them, and no smaller than either.   *)
LEMMA LargerOfTwo ==
  ASSUME NEW a \in Int, NEW b \in Int
  PROVE  /\ a >= b => History!Max({a, b}) = a /\ History!Min({a, b}) = b
         /\ a <= b => History!Max({a, b}) = b /\ History!Min({a, b}) = a
BY DEF History!Max, History!Min

(* Merged data is typed like other data.                                   *)
LEMMA MergedIsTyped ==
  ASSUME History!TypeOK, NEW q \in loads
  PROVE  /\ History!Merged(q) \in Seq([id : History!Sensors, points : SUBSET store])
         /\ Len(History!Merged(q)) <= 2
<1> DEFINE Item == [id : History!Sensors, points : SUBSET store]
<1>1. /\ q.version \in {1, 2}
      /\ DOMAIN History!Answer(q) = 1..q.version
      /\ \A k \in 1..q.version : History!Answer(q)[k] \in Item
  BY AnswersQuery DEF History!TypeOK
<1>2. /\ DOMAIN data = 1..Len(data) /\ Len(data) \in 0..2
      /\ \A j \in 1..Len(data) : data[j] \in Item
  <2>1. data \in Seq(Item) /\ Len(data) <= 2
    BY DEF History!TypeOK
  <2> HIDE DEF Item
  <2>2. DOMAIN data = 1..Len(data) /\ Len(data) \in Nat
    BY <2>1, LenProperties
  <2>3. \A j \in 1..Len(data) : data[j] \in Item
    BY <2>1, ElementOfSeq
  <2>. QED
    BY <2>1, <2>2, <2>3
<1>3. ASSUME NEW k \in 1..q.version PROVE History!Merged(q)[k] \in Item
  <2> DEFINE older == History!Answer(q)[k]
             same == {j \in DOMAIN data : data[j].id = older.id}
  <2>1. History!Merged(q)[k] =
          IF same = {} THEN older
          ELSE [older EXCEPT !.points = @ \cup data[History!Max(same)].points]
    BY <1>1 DEF History!Merged
  <2>2. same # {} => data[History!Max(same)].points \in SUBSET store
    BY <1>2, LargestOfFew
  <2>3. older \in Item
    BY <1>1
  <2> HIDE DEF older, same
  <2>. QED
    BY <2>1, <2>2, <2>3
<1>4. History!Merged(q) = [k \in 1..q.version |-> History!Merged(q)[k]]
  BY <1>1 DEF History!Merged
<1> HIDE DEF Item
<1>5. History!Merged(q) \in [1..q.version -> Item] /\ q.version \in Nat
  BY <1>1, <1>3, <1>4
<1>6. History!Merged(q) \in Seq(Item) /\ Len(History!Merged(q)) = q.version
  BY <1>5, FunctionIsSequence
<1>. QED
  BY <1>1, <1>6 DEF Item

(* The history before what was loaded arrives.                             *)
LEMMA OlderKeeps ==
  ASSUME History!IInv, NEW q \in loads, History!OlderArrives(q) PROVE History!IInv'
<1> USE DEF History!IInv
<1>1. /\ data' = History!Merged(q) /\ loadedFrom' = History!Min({q.start, q.upto})
      /\ chart' = History!Plotted(data') /\ loads' = loads \ {q}
      /\ trusted' = (trusted /\ q.build = build /\ q.upto = loadedFrom)
      /\ UNCHANGED <<now, store, wire, delivered, version, range, paused, build, view, missed>>
  BY DEF History!OlderArrives, History!server, History!socket, History!choices
<1>2. /\ q.start \in Int /\ q.upto \in Int /\ q.version \in {1, 2} /\ delivered \in Nat
      /\ loadedFrom \in Int
  BY DEF History!TypeOK
<1>3. loadedFrom' = q.start /\ q.start < q.upto
  <2>1. q.start < q.upto
    BY DEF History!OlderArrives, History!OnTheirWay
  <2>. QED
    BY <1>1, <1>2, <2>1, LargerOfTwo
<1>4. History!TypeOK'
  <2>1. data' \in Seq([id : History!Sensors, points : SUBSET store']) /\ Len(data') <= 2
    BY <1>1, MergedIsTyped
  <2>2. chart' \in [DOMAIN History!series' -> SUBSET store']
    BY <1>1, <2>1, PlottedIsTyped DEF History!series
  <2>. QED
    BY <1>1, <1>2, <1>3, <2>1, <2>2 DEF History!TypeOK
<1>5. History!OnTheWire' /\ History!OnTheirWay'
  BY <1>1 DEF History!OnTheWire, History!OnTheirWay
<1>6. CASE ~trusted'
  BY <1>1, <1>4, <1>5, <1>6
  DEF History!Matched, History!PointsUnderOwnSeries, History!LoadedRangeIsComplete,
      History!HistoryInStep
<1>7. CASE trusted'
  <2>1. trusted /\ q.version = version /\ History!series' = History!series
        /\ q.upto = loadedFrom
    BY <1>1, <1>7 DEF History!OnTheirWay, History!series
  <2>2. /\ DOMAIN data' = DOMAIN History!series
        /\ \A k \in DOMAIN History!series :
             /\ data'[k].id = History!series[k]
             /\ data'[k].points =
                  History!Stored(History!series[k], q.start, q.upto) \cup data[k].points
             /\ chart'[k] = data'[k].points
    BY <1>1, <2>1, MergedHasBoth, PlottedIsData
  <2>3. \A k \in DOMAIN History!series : \A p \in data[k].points : p.series = History!series[k]
    BY <2>1 DEF History!PointsUnderOwnSeries
  <2>4. History!Matched' /\ History!PointsUnderOwnSeries' /\ History!HistoryInStep'
    BY <2>1, <2>2, <2>3
    DEF History!Matched, History!PointsUnderOwnSeries, History!HistoryInStep, History!Stored,
        History!Since
  <2>5. History!LoadedRangeIsComplete'
    <3>1. ASSUME NEW k \in DOMAIN History!series,
                 NEW p \in History!Stored(History!series[k], q.start, delivered)
          PROVE  p.time \in missed' \/ p \in chart'[k]
      <4>1. p \in store /\ p.series = History!series[k] /\ p.time \in Int
            /\ q.start <= p.time /\ p.time <= delivered
        BY <1>2 DEF History!Stored
      <4>2. CASE p.time <= q.upto
        BY <1>2, <2>2, <4>1, <4>2 DEF History!Stored
      <4>3. CASE p.time > q.upto
        <5>1. p.time \in missed \/ p \in chart[k]
          BY <1>2, <2>1, <4>1, <4>3 DEF History!LoadedRangeIsComplete, History!Stored
        <5>2. p \in chart[k] => p \in data[k].points
          BY <1>2, <2>1, <4>1, <4>3 DEF History!HistoryInStep, History!Since
        <5>. QED
          BY <1>1, <2>2, <5>1, <5>2
      <4>. QED
        BY <1>2, <4>1, <4>2, <4>3
    <3>2. \A s : History!Stored(s, loadedFrom, delivered)'
                   = {p \in store : p.series = s /\ p.time \in q.start..delivered}
      BY <1>1, <1>3 DEF History!Stored
    <3>. QED
      BY <2>1, <3>1, <3>2 DEF History!LoadedRangeIsComplete, History!Stored
  <2>. QED
    BY <1>4, <1>5, <2>4, <2>5
<1>. QED
  BY <1>6, <1>7

(* Live points are added to the series they are of.                        *)
LEMMA AppendLiveIsTyped ==
  ASSUME History!TypeOK, NEW points \in SUBSET store
  PROVE  /\ History!AppendLive(points) \in Seq([id : History!Sensors, points : SUBSET store])
         /\ Len(History!AppendLive(points)) <= 2
         /\ DOMAIN data = DOMAIN History!series =>
              /\ DOMAIN History!AppendLive(points) = DOMAIN History!series
              /\ \A k \in DOMAIN History!series :
                   /\ History!AppendLive(points)[k].id = data[k].id
                   /\ History!AppendLive(points)[k].points =
                        data[k].points \cup History!Live(points, k)
<1> DEFINE Item == [id : History!Sensors, points : SUBSET store]
           S == {Len(data)} \cup History!Updates(points)
           n == History!Max(S)
           item(k) == IF k \in DOMAIN data THEN data[k]
                      ELSE [id |-> History!series[k], points |-> {}]
           live(k) == IF k \in DOMAIN History!series THEN History!Live(points, k) ELSE {}
<1>1. /\ DOMAIN data = 1..Len(data) /\ Len(data) \in 0..2
      /\ \A j \in 1..Len(data) : data[j] \in Item
  <2>1. data \in Seq(Item) /\ Len(data) <= 2
    BY DEF History!TypeOK
  <2> HIDE DEF Item
  <2>2. DOMAIN data = 1..Len(data) /\ Len(data) \in Nat
    BY <2>1, LenProperties
  <2>3. \A j \in 1..Len(data) : data[j] \in Item
    BY <2>1, ElementOfSeq
  <2>. QED
    BY <2>1, <2>2, <2>3
<1>2. /\ version \in {1, 2} /\ DOMAIN History!series = 1..version
      /\ \A k \in 1..version : History!series[k] \in History!Sensors
  BY SeriesOfVersion DEF History!TypeOK, History!series
<1>3. CASE data = <<>>
  <2>1. History!AppendLive(points) = <<>> /\ DOMAIN data = {}
    BY <1>3 DEF History!AppendLive
  <2>2. 1 \in DOMAIN History!series
    BY <1>2
  <2>. QED
    BY <2>1, <2>2
<1>4. CASE data # <<>>
  <2>1. S \in SUBSET (0..2) /\ Len(data) \in S
        /\ \A k \in S : k \in 0..Len(data) \/ k \in DOMAIN History!series
    BY <1>1, <1>2 DEF History!Updates
  <2>2. n \in S /\ n \in 0..2 /\ Len(data) <= n
    BY <2>1, LargestOfFew
  <2>3. \A k \in 1..n : k \in DOMAIN data \/ k \in DOMAIN History!series
    BY <1>1, <1>2, <2>1, <2>2
  <2>4. /\ DOMAIN History!AppendLive(points) = 1..n
        /\ \A k \in 1..n : History!AppendLive(points)[k] =
                             [item(k) EXCEPT !.points = @ \cup live(k)]
        /\ History!AppendLive(points) = [k \in 1..n |-> History!AppendLive(points)[k]]
    BY <1>4 DEF History!AppendLive
  <2>5. \A k : live(k) \in SUBSET store
    BY DEF History!Live
  <2>6. \A k \in 1..n : item(k) \in Item
    BY <1>1, <1>2, <2>3
  <2>7. \A k \in 1..n : History!AppendLive(points)[k] \in Item
    <3> HIDE DEF item, live, n
    <3>. QED
      BY <2>4, <2>5, <2>6
  <2>8. History!AppendLive(points) \in Seq(Item) /\ Len(History!AppendLive(points)) = n
    <3> HIDE DEF Item, n
    <3>1. History!AppendLive(points) \in [1..n -> Item]
      BY <2>4, <2>7
    <3>. QED
      BY <2>2, <3>1, FunctionIsSequence
  <2>9. ASSUME DOMAIN data = DOMAIN History!series
        PROVE  /\ n = version
               /\ \A k \in DOMAIN History!series :
                    item(k) = data[k] /\ live(k) = History!Live(points, k)
    <3>1. Len(data) = version
      <4>1. 1..Len(data) = 1..version
        BY <1>1, <1>2, <2>9
      <4>2. version \in 1..Len(data)
        BY <1>2, <4>1
      <4>3. Len(data) \in 1..Len(data)
        BY <1>1, <4>2
      <4>4. Len(data) \in 1..version
        BY <4>1, <4>3
      <4>5. Len(data) \in Int /\ version \in Int
        BY <1>1, <1>2
      <4>. QED
        BY <4>2, <4>4, <4>5
    <3>2. \A k \in S : k <= Len(data)
      BY <1>1, <1>2, <2>1, <3>1
    <3>. QED
      BY <1>1, <1>2, <2>2, <2>9, <3>1, <3>2
  <2>10. ASSUME DOMAIN data = DOMAIN History!series
         PROVE  /\ DOMAIN History!AppendLive(points) = DOMAIN History!series
                /\ \A k \in DOMAIN History!series :
                     /\ History!AppendLive(points)[k].id = data[k].id
                     /\ History!AppendLive(points)[k].points =
                          data[k].points \cup History!Live(points, k)
    <3>1. DOMAIN History!AppendLive(points) = DOMAIN History!series /\ n = version
      BY <1>2, <2>4, <2>9, <2>10
    <3>2. ASSUME NEW k \in DOMAIN History!series
          PROVE  /\ History!AppendLive(points)[k].id = data[k].id
                 /\ History!AppendLive(points)[k].points =
                      data[k].points \cup History!Live(points, k)
      <4>1. History!AppendLive(points)[k] =
              [data[k] EXCEPT !.points = @ \cup History!Live(points, k)]
        BY <1>2, <2>4, <2>9, <2>10, <3>1
      <4>2. data[k] \in Item
        BY <1>1, <2>10
      <4>. QED
        BY <4>1, <4>2
    <3>. QED
      BY <3>1, <3>2
  <2> HIDE DEF n
  <2>11. Len(History!AppendLive(points)) <= 2
    BY <2>2, <2>8
  <2>. QED
    BY <2>8, <2>10, <2>11
<1>. QED
  BY <1>3, <1>4

(* A sample reaches the page.                                              *)
LEMMA DeliverKeeps ==
  ASSUME History!IInv, History!Deliver PROVE History!IInv'
<1> USE DEF History!IInv
<1>1. PICK t, points, from : /\ t = Head(wire).time /\ points = Head(wire).points
                             /\ from = History!Cutoff(t)
  OBVIOUS
<1>2. /\ wire # <<>> /\ wire' = Tail(wire) /\ delivered' = t
      /\ UNCHANGED <<now, store, version, range, paused, build, view, loads, trusted>>
      /\ missed' = IF paused THEN missed \cup {t} ELSE missed
  BY <1>1 DEF History!Deliver, History!server, History!choices
<1>3. /\ Len(wire) \in Nat /\ Len(wire) > 0 /\ DOMAIN wire = 1..Len(wire)
      /\ now \in Nat /\ delivered \in Nat
      /\ t = wire[1].time /\ points = wire[1].points /\ t \in 1..now
      /\ points \in SUBSET store
  <2>1. wire \in Seq([time : 1..now, points : SUBSET store])
    BY DEF History!TypeOK
  <2>2. Len(wire) > 0 /\ Head(wire) = wire[1]
    BY <1>2, <2>1
  <2>. QED
    BY <1>1, <2>2, WireHasSamples
<1>4. /\ wire' \in Seq([time : 1..now', points : SUBSET store'])
      /\ Len(wire') = Len(wire) - 1 /\ DOMAIN wire' = 1..Len(wire')
      /\ \A k \in 1..Len(wire') : wire'[k] = wire[k + 1]
  <2>1. wire \in Seq([time : 1..now, points : SUBSET store])
    BY DEF History!TypeOK
  <2>. QED
    BY <1>2, <2>1, HeadTailProperties, LenProperties
<1>5. t = now - Len(wire) + 1 /\ points = {p \in store : p.time = t}
  BY <1>3 DEF History!OnTheWire
<1>6. from \in Int
  <2>1. range \in Int /\ view \in Int
    BY HistoryConstants DEF History!GraphHistoryConstants, History!TypeOK
  <2>2. ASSUME NEW a \in Int PROVE History!Min({a, view}) \in Int
    <3>1. a >= view \/ a <= view
      BY <2>1, <2>2
    <3>. QED
      BY <2>1, <2>2, <3>1, LargerOfTwo
  <2>. QED
    BY <1>1, <1>3, <2>1, <2>2 DEF History!Cutoff
<1>7. History!OnTheWire'
  <2>1. ASSUME NEW k \in 1..Len(wire')
        PROVE  /\ wire'[k].time = now' - Len(wire') + k
               /\ wire'[k].points = {p \in store' : p.time = wire'[k].time}
    <3>1. wire'[k] = wire[k + 1] /\ k + 1 \in 1..Len(wire)
      BY <1>3, <1>4
    <3>2. /\ wire[k + 1].time = now - Len(wire) + (k + 1)
          /\ wire[k + 1].points = {p \in store : p.time = wire[k + 1].time}
      BY <1>3, <3>1 DEF History!OnTheWire
    <3>. QED
      BY <1>2, <1>3, <1>4, <3>1, <3>2
  <2>2. (delivered' + 1)..(now' - Len(wire')) = {}
    BY <1>2, <1>3, <1>4, <1>5
  <2>3. delivered' + Len(wire') <= now'
    BY <1>2, <1>3, <1>4, <1>5
  <2>. QED
    BY <1>4, <2>1, <2>2, <2>3 DEF History!OnTheWire
<1>8. History!OnTheirWay' /\ missed' \subseteq Int
  <2>1. missed \subseteq Int
    BY DEF History!TypeOK
  <2>2. missed' \subseteq Int
    <3>1. missed' \subseteq missed \cup {t} /\ t \in Int
      BY <1>2, <1>3
    <3>. QED
      BY <2>1, <3>1
  <2>3. History!OnTheirWay'
    BY <1>2 DEF History!OnTheirWay
  <2>. QED
    BY <2>2, <2>3
<1>9. History!series' = History!series /\ DOMAIN chart = DOMAIN History!series
  BY <1>2 DEF History!series, History!TypeOK
(* Every point of a shown series that was delivered by now is either of    *)
(* this sample, or was delivered or missed before.                         *)
<1>10. ASSUME NEW k \in DOMAIN History!series, NEW p \in store, p.series = History!series[k],
              p.time \in Int, p.time <= t, trusted, loadedFrom <= p.time
       PROVE  p.time \in missed' \/ p \in chart[k] \/ p \in History!Live(points, k)
  <2>1. CASE p.time <= delivered
    <3>1. loadedFrom \in Int
      BY DEF History!TypeOK
    <3>2. p.time \in missed \/ p \in chart[k]
      BY <1>3, <1>10, <2>1, <3>1 DEF History!LoadedRangeIsComplete, History!Stored
    <3>. QED
      BY <1>2, <3>2
  <2>2. CASE delivered < p.time /\ p.time < t
    <3>1. p.time \in missed
      BY <1>3, <1>5, <1>10, <2>2 DEF History!OnTheWire
    <3>. QED
      BY <1>2, <3>1
  <2>3. CASE p.time = t
    BY <1>5, <1>10, <2>3 DEF History!Live
  <2>. QED
    BY <1>3, <1>10, <2>1, <2>2, <2>3
<1>11. CASE paused \/ History!Updates(points) = {}
  <2>1. UNCHANGED <<chart, data, loadedFrom>>
    BY <1>1, <1>11 DEF History!Deliver, History!history
  <2>2. History!TypeOK'
    BY <1>2, <1>3, <1>4, <1>8, <1>9, <2>1 DEF History!TypeOK
  <2>3. History!LoadedRangeIsComplete'
    <3>1. ASSUME trusted, NEW k \in DOMAIN History!series,
                 NEW p \in History!Stored(History!series[k], loadedFrom, t)
          PROVE  p.time \in missed' \/ p \in chart[k]
      <4>1. p \in store /\ p.series = History!series[k] /\ p.time \in Int
            /\ loadedFrom <= p.time /\ p.time <= t
        BY <1>3, <3>1 DEF History!Stored, History!TypeOK
      <4>2. p \in History!Live(points, k) => p.time \in missed'
        BY <1>2, <1>5, <1>11, <3>1 DEF History!Live, History!Updates
      <4>. QED
        BY <1>10, <3>1, <4>1, <4>2
    <3>. QED
      BY <1>2, <1>9, <2>1, <3>1 DEF History!LoadedRangeIsComplete, History!Stored
  <2>. QED
    BY <1>2, <1>7, <1>8, <1>9, <2>1, <2>2, <2>3
    DEF History!Matched, History!PointsUnderOwnSeries, History!HistoryInStep, History!Since
<1>12. CASE ~paused /\ History!Updates(points) # {}
  <2> DEFINE d == History!AppendLive(points)
  <2>1. /\ data' = [k \in DOMAIN d |-> [d[k] EXCEPT !.points = History!Since(@, from)]]
        /\ chart' = [k \in DOMAIN chart |->
                       IF k \in History!Updates(points)
                       THEN History!Since(chart[k] \cup History!Live(points, k), from)
                       ELSE chart[k]]
        /\ loadedFrom' = IF loadedFrom = History!None THEN from
                         ELSE History!Max({loadedFrom, from})
    BY <1>1, <1>12 DEF History!Deliver
  <2>2. /\ d \in Seq([id : History!Sensors, points : SUBSET store]) /\ Len(d) <= 2
        /\ DOMAIN data = DOMAIN History!series =>
              /\ DOMAIN d = DOMAIN History!series
              /\ \A k \in DOMAIN History!series :
                   /\ d[k].id = data[k].id
                   /\ d[k].points = data[k].points \cup History!Live(points, k)
    BY <1>3, AppendLiveIsTyped
  <2> HIDE DEF d
  <2>3. /\ DOMAIN data' = DOMAIN d
        /\ \A k \in DOMAIN d : /\ d[k] \in [id : History!Sensors, points : SUBSET store]
                               /\ data'[k].id = d[k].id
                               /\ data'[k].points = History!Since(d[k].points, from)
    <3>1. \A k \in DOMAIN d : d[k] \in [id : History!Sensors, points : SUBSET store]
      BY <2>2, ElementOfSeq, LenProperties
    <3>. QED
      BY <2>1, <3>1
  <2>4. \A k \in DOMAIN d : data'[k] \in [id : History!Sensors, points : SUBSET store]
    BY <2>1, <2>3 DEF History!Since
  <2>5. data' \in Seq([id : History!Sensors, points : SUBSET store]) /\ Len(data') <= 2
    <3>1. DOMAIN d = 1..Len(d) /\ Len(d) \in Nat
      BY <2>2, LenProperties
    <3>2. data' = [k \in 1..Len(d) |-> data'[k]]
      BY <2>1, <3>1
    <3>3. data' \in [1..Len(d) -> [id : History!Sensors, points : SUBSET store]]
      BY <2>4, <3>1, <3>2
    <3>4. /\ data' \in Seq([id : History!Sensors, points : SUBSET store])
          /\ Len(data') = Len(d)
      BY <3>1, <3>3, FunctionIsSequence
    <3>. QED
      BY <2>2, <3>1, <3>4
  <2>6. chart' \in [DOMAIN History!series -> SUBSET store]
    <3>1. \A k \in DOMAIN chart : chart[k] \in SUBSET store
      BY DEF History!TypeOK
    <3>2. \A k : History!Live(points, k) \in SUBSET store
      BY <1>3 DEF History!Live
    <3>3. \A k \in DOMAIN chart :
            History!Since(chart[k] \cup History!Live(points, k), from) \in SUBSET store
      BY <3>1, <3>2 DEF History!Since
    <3>4. \A k \in DOMAIN chart :
            (IF k \in History!Updates(points)
             THEN History!Since(chart[k] \cup History!Live(points, k), from)
             ELSE chart[k]) \in SUBSET store
      BY <3>1, <3>3
    <3>. QED
      BY <1>9, <2>1, <3>4
  <2>7. loadedFrom \in Int /\ loadedFrom' \in Int /\ from <= loadedFrom'
        /\ (loadedFrom <= loadedFrom' \/ loadedFrom = -1)
    <3>1. loadedFrom \in Int
      BY DEF History!TypeOK
    <3>. QED
      BY <1>6, <2>1, <3>1, LargerOfTwo DEF History!None
  <2>8. History!TypeOK'
    BY <1>2, <1>3, <1>4, <1>8, <1>9, <2>5, <2>6, <2>7 DEF History!TypeOK
  <2>9. CASE ~trusted
    BY <1>2, <1>7, <1>8, <2>8, <2>9
    DEF History!Matched, History!PointsUnderOwnSeries, History!LoadedRangeIsComplete,
        History!HistoryInStep
  <2>10. CASE trusted
    <3>1. /\ DOMAIN data' = DOMAIN History!series
          /\ \A k \in DOMAIN History!series :
               /\ data'[k].id = History!series[k]
               /\ data'[k].points =
                    History!Since(data[k].points \cup History!Live(points, k), from)
      BY <2>2, <2>3, <2>10 DEF History!Matched, History!PointsUnderOwnSeries
    <3>2. \A k \in DOMAIN History!series : \A p :
            p \in chart'[k] <=> \/ p \in chart[k] /\ k \notin History!Updates(points)
                                \/ /\ k \in History!Updates(points) /\ p.time >= from
                                   /\ p \in chart[k] \/ p \in History!Live(points, k)
      BY <1>9, <2>1 DEF History!Since
    <3>3. \A k \in DOMAIN History!series :
            k \notin History!Updates(points) => History!Live(points, k) = {}
      BY DEF History!Updates, History!Live
    <3>4. History!Matched' /\ History!PointsUnderOwnSeries'
      BY <1>9, <2>10, <3>1, <3>2
      DEF History!Matched, History!PointsUnderOwnSeries, History!Since, History!Live
    <3>5. \A p \in store : p.time \in Nat
      BY <1>3 DEF History!TypeOK
    <3>6. \A k \in DOMAIN History!series : chart[k] \subseteq store /\ data[k].points \subseteq store
      <4>1. \A k \in DOMAIN History!series : chart[k] \in SUBSET store
        BY DEF History!TypeOK
      <4>2. \A k \in DOMAIN data : data[k] \in [id : History!Sensors, points : SUBSET store]
        BY ElementOfSeq, LenProperties DEF History!TypeOK
      <4>. QED
        BY <2>10, <4>1, <4>2 DEF History!Matched
    <3>7. ASSUME NEW k \in DOMAIN History!series, NEW p \in store, p.time >= loadedFrom'
          PROVE  p \in chart'[k] <=> p \in data'[k].points
      <4>1. p.time >= loadedFrom /\ p.time >= from /\ p.time \in Nat
        BY <1>6, <2>7, <3>5, <3>7
      <4>2. p \in chart[k] <=> p \in data[k].points
        BY <2>10, <4>1 DEF History!HistoryInStep, History!Since
      <4>. QED
        BY <3>1, <3>2, <3>3, <4>1, <4>2 DEF History!Since
    <3>8. History!HistoryInStep'
      <4>1. \A k \in DOMAIN History!series : chart'[k] \subseteq store /\ data'[k].points \subseteq store
        BY <1>3, <3>1, <3>2, <3>6 DEF History!Since, History!Live
      <4>2. ASSUME NEW k \in DOMAIN History!series
            PROVE  History!Since(chart'[k], loadedFrom') = History!Since(data'[k].points, loadedFrom')
        BY <3>7, <4>1 DEF History!Since
      <4>. QED
        BY <1>9, <4>2 DEF History!HistoryInStep, History!Since
    <3>9. History!LoadedRangeIsComplete'
      <4>1. ASSUME NEW k \in DOMAIN History!series,
                   NEW p \in History!Stored(History!series[k], loadedFrom', t)
            PROVE  p.time \in missed' \/ p \in chart'[k]
        <5>1. p \in store /\ p.series = History!series[k] /\ p.time \in Nat
              /\ loadedFrom' <= p.time /\ p.time <= t
          BY <1>3, <2>7, <3>5 DEF History!Stored
        <5>2. loadedFrom <= p.time /\ from <= p.time
          BY <1>6, <2>7, <5>1
        <5>3. p.time \in missed' \/ p \in chart[k] \/ p \in History!Live(points, k)
          BY <1>10, <2>10, <5>1, <5>2
        <5>. QED
          BY <3>2, <3>3, <5>1, <5>2, <5>3
      <4>2. \A s : History!Stored(s, loadedFrom, delivered)'
                     = {p \in store : p.series = s /\ p.time \in loadedFrom'..t}
        BY <1>2 DEF History!Stored
      <4>. QED
        BY <1>2, <1>9, <4>1, <4>2 DEF History!LoadedRangeIsComplete, History!Stored
    <3>. QED
      BY <1>7, <1>8, <2>8, <3>4, <3>8, <3>9
  <2>. QED
    BY <2>9, <2>10
<1>. QED
  BY <1>11, <1>12

(* Every step of the history keeps its invariant.                          *)
LEMMA HistoryKeeps ==
  History!IInv /\ (History!Next \/ UNCHANGED historyVars) => History!IInv'
<1> SUFFICES ASSUME History!IInv, History!Next \/ UNCHANGED historyVars
             PROVE  History!IInv'
  OBVIOUS
<1>1. ASSUME NEW sensors \in {{"b"}, History!Sensors}, History!Sample(sensors)
      PROVE  History!IInv'
  <2>1. sensors \in SUBSET History!Sensors
    BY DEF History!Sensors
  <2>. QED
    BY <1>1, <2>1, SampleKeeps
<1>2. CASE History!Reconnect
  BY <1>2, ReconnectKeeps
<1>3. CASE History!Deliver
  BY <1>3, DeliverKeeps
<1>4. ASSUME NEW q \in loads, History!WindowArrives(q) PROVE History!IInv'
  BY <1>4, WindowKeeps
<1>5. ASSUME NEW q \in loads, History!OlderArrives(q) PROVE History!IInv'
  BY <1>5, OlderKeeps
<1>6. CASE History!Refresh
  <2>1. version \in {1, 2}
    BY DEF History!IInv, History!TypeOK
  <2>. QED
    BY <1>6, <2>1, RebuildKeeps DEF History!Refresh
<1>7. CASE History!GrowCatalog
  BY <1>7, RebuildKeeps DEF History!GrowCatalog
<1>8. CASE \/ \E q \in loads : History!LoadFails(q)
           \/ \E left \in 0..MaxTime, margin \in Margins : History!Pan(left, margin)
           \/ \E r \in Ranges : History!SetRange(r)
           \/ History!ResetZoom \/ History!Pause \/ UNCHANGED historyVars
  BY <1>8, QuietStepKeeps
<1>. QED
  BY <1>1, <1>2, <1>3, <1>4, <1>5, <1>6, <1>7, <1>8 DEF History!Next

-----------------------------------------------------------------------------
(* Rows: sequences without a repetition.                                   *)

(* Some of the first numbers are finitely many.                            *)
LEMMA FiniteUpTo ==
  ASSUME NEW n \in Nat, NEW P \in SUBSET (1..n)
  PROVE  IsFiniteSet(P) /\ Cardinality(P) \in Nat
<1>1. IsFiniteSet(1..n)
  BY FS_Interval
<1>2. IsFiniteSet(P)
  BY <1>1, FS_Subset
<1>. QED
  BY <1>2, FS_CardinalityType

(* Ranks are the first numbers, each the rank of one number, and keep the  *)
(* order of the numbers.                                                   *)
LEMMA RankIsPlace ==
  ASSUME NEW P \in SUBSET Int, IsFiniteSet(P)
  PROVE  /\ Cardinality(P) \in Nat
         /\ \A i \in P : Rank(P, i) \in 1..Cardinality(P)
         /\ \A i, j \in P : i < j => Rank(P, i) < Rank(P, j)
         /\ \A k \in 1..Cardinality(P) : \E i \in P : Rank(P, i) = k
<1>1. IsFiniteSet(P) /\ Cardinality(P) \in Nat
  BY FS_CardinalityType
<1>2. \A i \in P : IsFiniteSet({j \in P : j <= i}) /\ Rank(P, i) \in Nat
  <2>1. \A i : {j \in P : j <= i} \in SUBSET P
    OBVIOUS
  <2>. QED
    BY <2>1, FS_Subset, FS_CardinalityType DEF Rank
<1>3. ASSUME NEW i \in P PROVE Rank(P, i) \in 1..Cardinality(P)
  <2>1. Rank(P, i) <= Cardinality(P)
    BY <1>1, FS_Subset DEF Rank
  <2>2. Rank(P, i) # 0
    <3>1. i \in {j \in P : j <= i}
      OBVIOUS
    <3>. QED
      BY <1>2, <3>1, FS_EmptySet DEF Rank
  <2>3. Rank(P, i) \in Nat
    BY <1>2
  <2>. QED
    BY <1>1, <2>1, <2>2, <2>3
<1>4. ASSUME NEW i \in P, NEW j \in P, i < j PROVE Rank(P, i) < Rank(P, j)
  <2>1. {k \in P : k <= i} \in SUBSET {k \in P : k <= j}
    <3>1. \A k \in P : k <= i => k <= j
      BY <1>4
    <3>. QED
      BY <3>1
  <2>2. {k \in P : k <= i} # {k \in P : k <= j}
    <3>1. j \in {k \in P : k <= j} /\ j \notin {k \in P : k <= i}
      BY <1>4
    <3>. QED
      BY <3>1
  <2>3. Rank(P, i) <= Rank(P, j) /\ Rank(P, i) # Rank(P, j)
    BY <1>2, <2>1, <2>2, FS_Subset DEF Rank
  <2>4. Rank(P, i) \in Nat /\ Rank(P, j) \in Nat
    BY <1>2
  <2>. QED
    BY <2>3, <2>4
<1>5. ASSUME NEW k \in 1..Cardinality(P) PROVE \E i \in P : Rank(P, i) = k
  <2> DEFINE f == [i \in P |-> Rank(P, i)]
  <2>1. f \in [P -> 1..Cardinality(P)]
    BY <1>3
  <2>2. \A i, j \in P : f[i] = f[j] => i = j
    <3>1. SUFFICES ASSUME NEW i \in P, NEW j \in P, Rank(P, i) = Rank(P, j) PROVE i = j
      OBVIOUS
    <3>2. Rank(P, i) \in Nat
      BY <1>2
    <3>3. ~(i < j) /\ ~(j < i)
      BY <1>4, <3>1, <3>2
    <3>. QED
      BY <3>3
  <2>3. f \in Injection(P, 1..Cardinality(P))
    BY <2>1, <2>2 DEF Injection, IsInjective
  <2>4. IsFiniteSet(1..Cardinality(P)) /\ Cardinality(1..Cardinality(P)) = Cardinality(P)
    BY <1>1, FS_Interval
  <2>5. f \in Surjection(P, 1..Cardinality(P))
    BY <2>3, <2>4, FS_Injection
  <2>. QED
    BY <2>5 DEF Surjection
<1>. QED
  BY <1>1, <1>3, <1>4, <1>5

(* a is the numbers of P in ascending order.                               *)
IsAscent(a, P) ==
  /\ Cardinality(P) \in Nat /\ a \in [1..Cardinality(P) -> P]
  /\ \A j, k \in 1..Cardinality(P) : j < k => a[j] < a[k]
  /\ \A k \in 1..Cardinality(P) : Rank(P, a[k]) = k
  /\ \A i \in P : Rank(P, i) \in 1..Cardinality(P) /\ a[Rank(P, i)] = i

LEMMA AscendingIs ==
  ASSUME NEW P \in SUBSET Int, IsFiniteSet(P)
  PROVE  IsAscent(Ascending(P), P)
<1> DEFINE n == Cardinality(P)
           Place(k) == CHOOSE i \in P : Rank(P, i) = k
           place == [k \in 1..n |-> Place(k)]
<1>1. /\ n \in Nat
      /\ \A i \in P : Rank(P, i) \in 1..n
      /\ \A i, j \in P : i < j => Rank(P, i) < Rank(P, j)
      /\ \A k \in 1..n : \E i \in P : Rank(P, i) = k
  BY RankIsPlace
<1>0. \A i \in P : i \in Int
  OBVIOUS
<1>2. Ascending(P) = place
  BY DEF Ascending
<1> HIDE DEF n
<1>3. \A k \in 1..n : Place(k) \in P /\ Rank(P, Place(k)) = k
  BY <1>1
<1> HIDE DEF Place
<1>4. ASSUME NEW j \in 1..n, NEW k \in 1..n, j < k PROVE Place(j) < Place(k)
  <2>1. /\ Place(j) \in P /\ Place(k) \in P
        /\ Rank(P, Place(j)) = j /\ Rank(P, Place(k)) = k
    BY <1>3
  <2>0. Place(j) \in Int /\ Place(k) \in Int
    BY <1>0, <2>1
  <2>2. CASE Place(j) = Place(k)
    BY <1>1, <1>4, <2>1, <2>2
  <2>3. CASE Place(k) < Place(j)
    <3>1. k < j
      BY <1>1, <2>1, <2>3
    <3>. QED
      BY <1>1, <1>4, <3>1
  <2>. QED
    BY <2>0, <2>2, <2>3
<1>5. ASSUME NEW i \in P PROVE Rank(P, i) \in 1..n /\ Place(Rank(P, i)) = i
  <2>1. Rank(P, i) \in 1..n
    BY <1>1
  <2>2. Place(Rank(P, i)) \in P /\ Rank(P, Place(Rank(P, i))) = Rank(P, i)
    BY <1>3, <2>1
  <2>3. Rank(P, i) \in Int
    BY <1>1, <2>1
  <2> DEFINE k == Place(Rank(P, i))
  <2> HIDE DEF k
  <2>4. k \in P /\ Rank(P, k) = Rank(P, i) /\ k \in Int /\ i \in Int
    BY <1>0, <2>2 DEF k
  <2>5. ~(k < i) /\ ~(i < k)
    BY <1>1, <2>3, <2>4
  <2>6. k = i
    BY <2>4, <2>5
  <2>. QED
    BY <2>1, <2>6 DEF k
<1>6. /\ place \in [1..n -> P]
      /\ \A j, k \in 1..n : j < k => place[j] < place[k]
      /\ \A k \in 1..n : Rank(P, place[k]) = k
      /\ \A i \in P : Rank(P, i) \in 1..n /\ place[Rank(P, i)] = i
  BY <1>3, <1>4, <1>5
<1> HIDE DEF place
<1>. QED
  BY <1>1, <1>2, <1>6 DEF IsAscent, n

Places(s, S) == {i \in 1..Len(s) : s[i] \in S}

Takes(s, S, n, place) ==
  /\ place \in [1..n -> Places(s, S)]
  /\ Only(s, S) = [k \in 1..n |-> s[place[k]]]
  /\ \A j, k \in 1..n : j < k => place[j] < place[k]
  /\ \A i \in Places(s, S) : \E k \in 1..n : place[k] = i

(* Only takes what is at the places of the given elements, in their order. *)
LEMMA OnlyTakesPlaces ==
  ASSUME NEW T, NEW s \in Seq(T), NEW S
  PROVE  \E n \in Nat : \E place : Takes(s, S, n, place)
<1> DEFINE P == Places(s, S)
           n == Cardinality(P)
           place == Ascending(P)
<1>1. DOMAIN s = 1..Len(s) /\ Len(s) \in Nat
  BY LenProperties
<1>2. P \in SUBSET (1..Len(s)) /\ P \in SUBSET Int /\ IsFiniteSet(P)
  <2>1. P \in SUBSET (1..Len(s))
    BY DEF Places
  <2>2. P \in SUBSET Int
    <3>1. \A i \in 1..Len(s) : i \in Int
      BY <1>1
    <3> HIDE DEF P
    <3>. QED
      BY <2>1, <3>1
  <2> HIDE DEF P
  <2>. QED
    BY <1>1, <2>1, <2>2, FiniteUpTo
<1>3. IsAscent(place, P)
  BY <1>2, AscendingIs
<1>4. /\ n \in Nat /\ place \in [1..n -> P]
      /\ \A j, k \in 1..n : j < k => place[j] < place[k]
      /\ \A i \in P : \E k \in 1..n : place[k] = i
  BY <1>3 DEF IsAscent
<1>5. Only(s, S) = [k \in 1..n |-> s[place[k]]]
  <2>1. Only(s, S) = [k \in DOMAIN place |-> s[place[k]]]
    BY <1>1 DEF Only, Selected, Places
  <2>2. DOMAIN place = 1..n
    BY <1>4
  <2> HIDE DEF place
  <2>. QED
    BY <2>1, <2>2
<1> HIDE DEF place, n
<1>6. Takes(s, S, n, place)
  BY <1>4, <1>5 DEF P, Takes
<1>. QED
  BY <1>4, <1>6

(* x is in s somewhere before y.                                           *)
Before(s, x, y) == \E j, k \in DOMAIN s : j < k /\ s[j] = x /\ s[k] = y

(* Of a row, Only keeps the given elements and their order, and stays a    *)
(* row.                                                                    *)
LEMMA OnlyOfRow ==
  ASSUME NEW T, NEW s \in Rows(T), NEW S
  PROVE  /\ Only(s, S) \in Rows(T)
         /\ Range(Only(s, S)) = Range(s) \cap S
         /\ \A x, y : Before(Only(s, S), x, y) <=> Before(s, x, y) /\ x \in S /\ y \in S
<1>1. /\ s \in Seq(T) /\ DOMAIN s = 1..Len(s) /\ Len(s) \in Nat
      /\ \A i \in 1..Len(s) : s[i] \in T
      /\ \A i, j \in 1..Len(s) : s[i] = s[j] => i = j
  <2>1. s \in Seq(T) /\ \A i, j \in DOMAIN s : s[i] = s[j] => i = j
    BY DEF Rows, IsInjective
  <2>. QED
    BY <2>1, LenProperties, ElementOfSeq
<1>2. \E n \in Nat : \E place : Takes(s, S, n, place)
  <2>1. s \in Seq(T)
    BY <1>1
  <2>. QED
    BY <2>1, OnlyTakesPlaces
<1>3. PICK n \in Nat : \E place : Takes(s, S, n, place)
  BY <1>2
<1>9. PICK place : Takes(s, S, n, place)
  BY <1>3
<1>10. /\ place \in [1..n -> Places(s, S)]
       /\ Only(s, S) = [k \in 1..n |-> s[place[k]]]
       /\ \A j, k \in 1..n : j < k => place[j] < place[k]
       /\ \A i \in 1..Len(s) : s[i] \in S => \E k \in 1..n : place[k] = i
  BY <1>9 DEF Takes, Places
<1>4. \A k \in 1..n : place[k] \in 1..Len(s) /\ s[place[k]] \in S /\ place[k] \in Int
  BY <1>10 DEF Places
<1>5. \A j, k \in 1..n : place[j] = place[k] => j = k
  <2>1. SUFFICES ASSUME NEW j \in 1..n, NEW k \in 1..n, place[j] = place[k] PROVE j = k
    OBVIOUS
  <2>2. ~(j < k) /\ ~(k < j)
    BY <1>10, <1>4, <2>1
  <2>. QED
    BY <2>2
<1>6. Only(s, S) \in Rows(T)
  <2>1. Only(s, S) \in [1..n -> T]
    BY <1>1, <1>10, <1>4
  <2>2. \A j, k \in DOMAIN Only(s, S) : Only(s, S)[j] = Only(s, S)[k] => j = k
    BY <1>1, <1>10, <1>4, <1>5
  <2>3. Only(s, S) \in Seq(T)
    BY <2>1
  <2>. QED
    BY <2>2, <2>3 DEF Rows, IsInjective
<1>7. Range(Only(s, S)) = Range(s) \cap S
  <2>1. \A x : x \in Range(Only(s, S)) <=> \E k \in 1..n : x = s[place[k]]
    BY <1>10 DEF Range
  <2>2. \A x : x \in Range(s) <=> \E i \in 1..Len(s) : x = s[i]
    BY <1>1 DEF Range
  <2>. QED
    BY <1>10, <1>4, <2>1, <2>2
<1>8. ASSUME NEW x, NEW y
      PROVE  Before(Only(s, S), x, y) <=> Before(s, x, y) /\ x \in S /\ y \in S
  <2>1. ASSUME Before(Only(s, S), x, y) PROVE Before(s, x, y) /\ x \in S /\ y \in S
    <3>1. PICK j, k \in 1..n : j < k /\ s[place[j]] = x /\ s[place[k]] = y
      BY <1>10, <2>1 DEF Before
    <3>. QED
      BY <1>1, <1>10, <1>4, <3>1 DEF Before
  <2>2. ASSUME Before(s, x, y), x \in S, y \in S PROVE Before(Only(s, S), x, y)
    <3>1. PICK i, j \in 1..Len(s) : i < j /\ s[i] = x /\ s[j] = y
      BY <1>1, <2>2 DEF Before
    <3>2. PICK k, l \in 1..n : place[k] = i /\ place[l] = j
      BY <1>10, <2>2, <3>1
    <3>3. k < l
      <4>1. ~(l < k) /\ k # l
        BY <1>10, <3>1, <3>2
      <4>. QED
        BY <4>1
    <3>4. Only(s, S)[k] = x /\ Only(s, S)[l] = y /\ k \in DOMAIN Only(s, S) /\ l \in DOMAIN Only(s, S)
      BY <1>10, <3>1, <3>2
    <3>. QED
      BY <3>3, <3>4 DEF Before
  <2>. QED
    BY <2>1, <2>2
<1>. QED
  BY <1>6, <1>7, <1>8

(* There are i - 1 numbers before i.                                       *)
LEMMA UpToBefore ==
  ASSUME NEW i \in Nat \ {0}
  PROVE  IsFiniteSet(1..(i - 1)) /\ Cardinality(1..(i - 1)) = i - 1
<1>1. i - 1 \in Int
  OBVIOUS
<1>2. IsFiniteSet(1..(i - 1))
  BY <1>1, FS_Interval
<1>3. CASE i = 1
  <2>1. 1..(i - 1) = {}
    BY <1>3
  <2>. QED
    BY <1>2, <1>3, <2>1, FS_EmptySet
<1>4. CASE i # 1
  <2>1. ~(i - 1 < 1) /\ (i - 1) - 1 + 1 = i - 1
    BY <1>4
  <2>. QED
    BY <1>1, <1>2, <2>1, FS_Interval
<1>. QED
  BY <1>3, <1>4

(* In a row that keeps the order of another, nothing is further ahead.     *)
LEMMA NotAhead ==
  ASSUME NEW T, NEW s \in Rows(T), NEW t \in Rows(T), Range(s) \subseteq Range(t),
         \A x, y : Before(s, x, y) => Before(t, x, y),
         NEW i \in DOMAIN s, NEW j \in DOMAIN t, s[i] = t[j]
  PROVE  i <= j
<1>1. /\ DOMAIN s = 1..Len(s) /\ Len(s) \in Nat /\ DOMAIN t = 1..Len(t) /\ Len(t) \in Nat
      /\ \A k, l \in 1..Len(t) : t[k] = t[l] => k = l
      /\ \A k, l \in 1..Len(s) : s[k] = s[l] => k = l
  <2>1. /\ s \in Seq(T) /\ t \in Seq(T)
        /\ \A k, l \in DOMAIN t : t[k] = t[l] => k = l
        /\ \A k, l \in DOMAIN s : s[k] = s[l] => k = l
    BY DEF Rows, IsInjective
  <2>. QED
    BY <2>1, LenProperties
<1> DEFINE Spot(k) == CHOOSE l \in 1..Len(t) : t[l] = s[k]
           f == [k \in 1..(i - 1) |-> Spot(k)]
<1>2. ASSUME NEW k \in 1..(i - 1) PROVE Spot(k) \in 1..(j - 1) /\ t[Spot(k)] = s[k]
  <2>1. k \in 1..Len(s) /\ i \in 1..Len(s) /\ k < i
    BY <1>1
  <2>2. \E l \in 1..Len(t) : t[l] = s[k]
    <3>1. s[k] \in Range(s)
      BY <1>1, <2>1 DEF Range
    <3>2. s[k] \in Range(t)
      BY <3>1
    <3>. QED
      BY <1>1, <3>2 DEF Range
  <2>3. Spot(k) \in 1..Len(t) /\ t[Spot(k)] = s[k]
    BY <2>2
  <2>4. Before(t, s[k], s[i])
    <3>1. Before(s, s[k], s[i])
      BY <1>1, <2>1 DEF Before
    <3>. QED
      BY <3>1
  <2>5. PICK l, m \in 1..Len(t) : l < m /\ t[l] = s[k] /\ t[m] = s[i]
    BY <1>1, <2>4 DEF Before
  <2>6. l = Spot(k) /\ m = j
    BY <1>1, <2>3, <2>5
  <2>. QED
    BY <1>1, <2>3, <2>5, <2>6
<1> HIDE DEF Spot
<1>3. f \in [1..(i - 1) -> 1..(j - 1)]
  BY <1>2
<1>4. \A k, l \in 1..(i - 1) : f[k] = f[l] => k = l
  <2>1. \A k \in 1..(i - 1) : k \in 1..Len(s)
    BY <1>1
  <2>. QED
    BY <1>1, <1>2, <2>1
<1>5. f \in Injection(1..(i - 1), 1..(j - 1))
  BY <1>3, <1>4 DEF Injection, IsInjective
<1>6. i \in Nat \ {0} /\ j \in Nat \ {0}
  BY <1>1
<1>7. /\ IsFiniteSet(1..(j - 1)) /\ Cardinality(1..(j - 1)) = j - 1
      /\ Cardinality(1..(i - 1)) = i - 1
  BY <1>6, UpToBefore
<1>8. Cardinality(1..(i - 1)) <= Cardinality(1..(j - 1))
  BY <1>5, <1>7, FS_Injection
<1>9. i - 1 <= j - 1
  BY <1>7, <1>8
<1>. QED
  BY <1>6, <1>9

(* A row is its elements and their order.                                  *)
LEMMA SameRow ==
  ASSUME NEW T, NEW s \in Rows(T), NEW t \in Rows(T), Range(s) = Range(t),
         \A x, y : Before(s, x, y) <=> Before(t, x, y)
  PROVE  s = t
<1>1. /\ s \in Seq(T) /\ t \in Seq(T)
      /\ DOMAIN s = 1..Len(s) /\ Len(s) \in Nat /\ DOMAIN t = 1..Len(t) /\ Len(t) \in Nat
  BY LenProperties DEF Rows
<1>2. ASSUME NEW i \in 1..Len(s) PROVE i \in 1..Len(t) /\ s[i] = t[i]
  <2>1. PICK j \in 1..Len(t) : s[i] = t[j]
    BY <1>1 DEF Range
  <2>2. i <= j /\ j <= i
    BY <1>1, <2>1, NotAhead
  <2>. QED
    BY <2>1, <2>2
<1>3. ASSUME NEW j \in 1..Len(t) PROVE j \in 1..Len(s)
  <2>1. PICK i \in 1..Len(s) : s[i] = t[j]
    BY <1>1 DEF Range
  <2>2. i <= j /\ j <= i
    BY <1>1, <2>1, NotAhead
  <2>. QED
    BY <2>1, <2>2
<1>4. 1..Len(s) = 1..Len(t)
  BY <1>2, <1>3
<1>5. Len(s) = Len(t)
  <2>1. Len(s) > 0 => Len(s) \in 1..Len(t)
    <3>1. Len(s) > 0 => Len(s) \in 1..Len(s)
      BY <1>1
    <3>. QED
      BY <1>2, <3>1
  <2>2. Len(t) > 0 => Len(t) \in 1..Len(s)
    <3>1. Len(t) > 0 => Len(t) \in 1..Len(t)
      BY <1>1
    <3>. QED
      BY <1>3, <3>1
  <2>3. Len(s) <= Len(t) /\ Len(t) <= Len(s)
    BY <1>1, <2>1, <2>2
  <2>4. Len(s) \in Int /\ Len(t) \in Int
    BY <1>1
  <2> HIDE DEF Before
  <2>. QED
    BY <2>3, <2>4, Z3
<1>. QED
  BY <1>1, <1>2, <1>5, SeqEqual

(* A row after another with nothing in common.                             *)
LEMMA ConcatOfRows ==
  ASSUME NEW T, NEW s \in Rows(T), NEW t \in Rows(T), Range(s) \cap Range(t) = {}
  PROVE  /\ s \o t \in Rows(T)
         /\ Range(s \o t) = Range(s) \cup Range(t)
         /\ \A x, y : Before(s \o t, x, y) <=>
              \/ Before(s, x, y) \/ Before(t, x, y) \/ (x \in Range(s) /\ y \in Range(t))
<1>1. /\ s \in Seq(T) /\ t \in Seq(T)
      /\ DOMAIN s = 1..Len(s) /\ Len(s) \in Nat /\ DOMAIN t = 1..Len(t) /\ Len(t) \in Nat
  BY LenProperties DEF Rows
<1>2. /\ \A i, j \in 1..Len(s) : s[i] = s[j] => i = j
      /\ \A i, j \in 1..Len(t) : t[i] = t[j] => i = j
  BY <1>1 DEF Rows, IsInjective
<1>3. \A i \in 1..Len(s), j \in 1..Len(t) : s[i] # t[j]
  <2>1. SUFFICES ASSUME NEW i \in 1..Len(s), NEW j \in 1..Len(t), s[i] = t[j] PROVE FALSE
    OBVIOUS
  <2>2. s[i] \in Range(s) /\ t[j] \in Range(t)
    BY <1>1 DEF Range
  <2>. QED
    BY <2>1, <2>2
<1> DEFINE r == s \o t
<1>4. /\ r \in Seq(T) /\ Len(r) = Len(s) + Len(t) /\ DOMAIN r = 1..(Len(s) + Len(t))
      /\ \A i \in 1..Len(s) : r[i] = s[i]
      /\ \A i \in 1..Len(t) : r[Len(s) + i] = t[i]
  BY <1>1, ConcatProperties
<1> HIDE DEF r
<1>5. \A i \in DOMAIN r : i \in 1..Len(s) \/ \E j \in 1..Len(t) : i = Len(s) + j
  <2>1. SUFFICES ASSUME NEW i \in DOMAIN r, i \notin 1..Len(s)
                 PROVE  \E j \in 1..Len(t) : i = Len(s) + j
    OBVIOUS
  <2>2. i - Len(s) \in 1..Len(t) /\ i = Len(s) + (i - Len(s))
    BY <1>1, <1>4, <2>1
  <2>. QED
    BY <2>2
<1>6. /\ \A i \in 1..Len(s) : i \in DOMAIN r
      /\ \A j \in 1..Len(t) : Len(s) + j \in DOMAIN r
  BY <1>1, <1>4
<1>7. \A i, j \in DOMAIN r : r[i] = r[j] => i = j
  <2>1. SUFFICES ASSUME NEW i \in DOMAIN r, NEW j \in DOMAIN r, r[i] = r[j] PROVE i = j
    OBVIOUS
  <2>2. CASE i \in 1..Len(s) /\ j \in 1..Len(s)
    BY <1>2, <1>4, <2>1, <2>2
  <2>3. CASE i \in 1..Len(s) /\ j \notin 1..Len(s)
    BY <1>3, <1>4, <1>5, <2>1, <2>3
  <2>4. CASE i \notin 1..Len(s) /\ j \in 1..Len(s)
    BY <1>3, <1>4, <1>5, <2>1, <2>4
  <2>5. CASE i \notin 1..Len(s) /\ j \notin 1..Len(s)
    <3>1. PICK k, l \in 1..Len(t) : i = Len(s) + k /\ j = Len(s) + l
      BY <1>5, <2>5
    <3>2. t[k] = t[l]
      BY <1>4, <2>1, <3>1
    <3>. QED
      BY <1>2, <3>1, <3>2
  <2>. QED
    BY <2>2, <2>3, <2>4, <2>5
<1>8. r \in Rows(T)
  BY <1>4, <1>7 DEF Rows, IsInjective
<1>9. \A x : x \in Range(r) <=> x \in Range(s) \/ x \in Range(t)
  <2>1. \A x : x \in Range(r) <=> \E i \in DOMAIN r : r[i] = x
    BY DEF Range
  <2>2. \A x : x \in Range(s) <=> \E i \in 1..Len(s) : s[i] = x
    BY <1>1 DEF Range
  <2>3. \A x : x \in Range(t) <=> \E i \in 1..Len(t) : t[i] = x
    BY <1>1 DEF Range
  <2>4. ASSUME NEW x, x \in Range(r) PROVE x \in Range(s) \/ x \in Range(t)
    BY <1>4, <1>5, <2>1, <2>2, <2>3, <2>4
  <2>5. ASSUME NEW x, x \in Range(s) PROVE x \in Range(r)
    BY <1>4, <1>6, <2>1, <2>2, <2>5
  <2>6. ASSUME NEW x, x \in Range(t) PROVE x \in Range(r)
    BY <1>4, <1>6, <2>1, <2>3, <2>6
  <2>. QED
    BY <2>4, <2>5, <2>6
<1>10. ASSUME NEW x, NEW y, Before(r, x, y)
       PROVE  Before(s, x, y) \/ Before(t, x, y) \/ (x \in Range(s) /\ y \in Range(t))
  <2>1. PICK i, j \in DOMAIN r : i < j /\ r[i] = x /\ r[j] = y
    BY <1>10 DEF Before
  <2>2. CASE j \in 1..Len(s)
    <3>1. i \in 1..Len(s)
      BY <1>1, <1>4, <2>1, <2>2
    <3>2. s[i] = x /\ s[j] = y
      BY <1>4, <2>1, <2>2, <3>1
    <3>3. Before(s, x, y)
      BY <1>1, <2>1, <2>2, <3>1, <3>2 DEF Before
    <3>. QED
      BY <3>3
  <2>3. CASE i \in 1..Len(s) /\ j \notin 1..Len(s)
    <3>1. x \in Range(s)
      BY <1>1, <1>4, <2>1, <2>3 DEF Range
    <3>2. PICK l \in 1..Len(t) : j = Len(s) + l
      BY <1>5, <2>3
    <3>3. y \in Range(t)
      BY <1>1, <1>4, <2>1, <3>2 DEF Range
    <3>. QED
      BY <3>1, <3>3
  <2>4. CASE i \notin 1..Len(s) /\ j \notin 1..Len(s)
    <3>1. PICK k, l \in 1..Len(t) : i = Len(s) + k /\ j = Len(s) + l
      BY <1>5, <2>4
    <3>2. k < l /\ t[k] = x /\ t[l] = y
      BY <1>1, <1>4, <2>1, <3>1
    <3>3. Before(t, x, y)
      BY <1>1, <3>2 DEF Before
    <3>. QED
      BY <3>3
  <2>. QED
    BY <2>2, <2>3, <2>4
<1>11. ASSUME NEW x, NEW y, Before(s, x, y) PROVE Before(r, x, y)
  <2>1. PICK i, j \in 1..Len(s) : i < j /\ s[i] = x /\ s[j] = y
    BY <1>1, <1>11 DEF Before
  <2>. QED
    BY <1>4, <1>6, <2>1 DEF Before
<1>12. ASSUME NEW x, NEW y, Before(t, x, y) PROVE Before(r, x, y)
  <2>1. PICK i, j \in 1..Len(t) : i < j /\ t[i] = x /\ t[j] = y
    BY <1>1, <1>12 DEF Before
  <2>2. Len(s) + i < Len(s) + j
    BY <1>1, <2>1
  <2>. QED
    BY <1>4, <1>6, <2>1, <2>2 DEF Before
<1>13. ASSUME NEW x, NEW y, x \in Range(s), y \in Range(t) PROVE Before(r, x, y)
  <2>1. PICK i \in 1..Len(s) : s[i] = x
    BY <1>1, <1>13 DEF Range
  <2>2. PICK j \in 1..Len(t) : t[j] = y
    BY <1>1, <1>13 DEF Range
  <2>3. i < Len(s) + j
    BY <1>1, <2>1, <2>2
  <2>. QED
    BY <1>4, <1>6, <2>1, <2>2, <2>3 DEF Before
<1>14. \A x, y : Before(r, x, y) <=>
         \/ Before(s, x, y) \/ Before(t, x, y) \/ (x \in Range(s) /\ y \in Range(t))
  BY <1>10, <1>11, <1>12, <1>13
<1>15. Range(r) = Range(s) \cup Range(t)
  BY <1>9
<1>. QED
  BY <1>8, <1>14, <1>15 DEF r

(* A row with something put in.                                            *)
LEMMA OneIsRow ==
  ASSUME NEW T, NEW e \in T
  PROVE  <<e>> \in Rows(T) /\ Range(<<e>>) = {e} /\ \A x, y : ~Before(<<e>>, x, y)
<1>1. DOMAIN <<e>> = {1} /\ <<e>>[1] = e /\ <<e>> \in Seq(T)
  OBVIOUS
<1>2. \A i, j \in {1} : ~(i < j)
  OBVIOUS
<1>. QED
  BY <1>1, <1>2 DEF Rows, IsInjective, Range, Before

(* A row is what is before a place and what is from it on, with nothing in *)
(* common.                                                                 *)
LEMMA SplitRow ==
  ASSUME NEW T, NEW s \in Rows(T), NEW i \in 1..(Len(s) + 1)
  PROVE  /\ s = SubSeq(s, 1, i - 1) \o SubSeq(s, i, Len(s))
         /\ SubSeq(s, 1, i - 1) \in Rows(T) /\ SubSeq(s, i, Len(s)) \in Rows(T)
         /\ Range(SubSeq(s, 1, i - 1)) \cap Range(SubSeq(s, i, Len(s))) = {}
<1>1. s \in Seq(T) /\ DOMAIN s = 1..Len(s) /\ Len(s) \in Nat
  BY LenProperties DEF Rows
<1>2. /\ \A k, l \in 1..Len(s) : s[k] = s[l] => k = l
      /\ \A k \in 1..Len(s) : s[k] \in T
  BY <1>1, ElementOfSeq DEF Rows, IsInjective
<1> DEFINE a == SubSeq(s, 1, i - 1)
           b == SubSeq(s, i, Len(s))
<1>3. i \in Int /\ i - 1 \in Int /\ Len(s) \in Int
  BY <1>1
<1>4. /\ a \in Seq(T) /\ Len(a) = i - 1 /\ \A k \in 1..(i - 1) : a[k] = s[k]
  <2>1. \A k \in 1..(i - 1) : s[k] \in T
    BY <1>1, <1>2
  <2>2. a \in Seq(T) /\ Len(a) = (IF 1 <= i - 1 THEN (i - 1) - 1 + 1 ELSE 0)
        /\ \A k \in 1..((i - 1) - 1 + 1) : a[k] = s[1 + k - 1]
    BY <1>3, <2>1, SubSeqProperties
  <2>3. Len(a) = i - 1
    BY <1>1, <2>2
  <2>4. (i - 1) - 1 + 1 = i - 1 /\ \A k \in 1..(i - 1) : 1 + k - 1 = k
    BY <1>3
  <2>. QED
    BY <2>2, <2>3, <2>4
<1>5. /\ b \in Seq(T) /\ Len(b) = Len(s) - i + 1
      /\ \A k \in 1..(Len(s) - i + 1) : b[k] = s[i + k - 1]
  <2>1. \A k \in i..Len(s) : s[k] \in T
    BY <1>1, <1>2
  <2>2. b \in Seq(T) /\ Len(b) = (IF i <= Len(s) THEN Len(s) - i + 1 ELSE 0)
        /\ \A k \in 1..(Len(s) - i + 1) : b[k] = s[i + k - 1]
    BY <1>3, <2>1, SubSeqProperties
  <2>3. Len(b) = Len(s) - i + 1
    BY <1>1, <2>2
  <2>. QED
    BY <2>2, <2>3
<1> HIDE DEF a, b
<1>6. DOMAIN a = 1..(i - 1) /\ DOMAIN b = 1..(Len(s) - i + 1)
  BY <1>4, <1>5, LenProperties
<1>7. a \in Rows(T)
  <2>1. \A k \in 1..(i - 1) : k \in 1..Len(s)
    BY <1>1
  <2>2. \A k, l \in DOMAIN a : a[k] = a[l] => k = l
    BY <1>2, <1>4, <1>6, <2>1
  <2>. QED
    BY <1>4, <2>2 DEF Rows, IsInjective
<1>8. \A k \in 1..(Len(s) - i + 1) : i + k - 1 \in 1..Len(s) /\ i + k - 1 > i - 1
  BY <1>1
<1>9. b \in Rows(T)
  <2>1. SUFFICES ASSUME NEW k \in DOMAIN b, NEW l \in DOMAIN b, b[k] = b[l] PROVE k = l
    BY <1>5 DEF Rows, IsInjective
  <2>2. k \in 1..(Len(s) - i + 1) /\ l \in 1..(Len(s) - i + 1)
    BY <1>6
  <2>3. i + k - 1 = i + l - 1
    BY <1>2, <1>5, <1>8, <2>1, <2>2
  <2>4. k \in Int /\ l \in Int
    BY <2>2
  <2>. QED
    BY <1>3, <2>3, <2>4
<1>10. Range(a) \cap Range(b) = {}
  <2>1. SUFFICES ASSUME NEW x, x \in Range(a), x \in Range(b) PROVE FALSE
    OBVIOUS
  <2>2. PICK k \in 1..(i - 1) : a[k] = x
    BY <1>6, <2>1 DEF Range
  <2>3. PICK l \in 1..(Len(s) - i + 1) : b[l] = x
    BY <1>6, <2>1 DEF Range
  <2>4. k \in 1..Len(s) /\ s[k] = s[i + l - 1] /\ i + l - 1 \in 1..Len(s) /\ i + l - 1 > i - 1
    <3>1. k \in 1..Len(s)
      BY <1>1
    <3>. QED
      BY <1>4, <1>5, <1>8, <2>2, <2>3, <3>1
  <2>5. k = i + l - 1
    BY <1>2, <2>4
  <2>6. k <= i - 1 /\ i + l - 1 > i - 1 /\ k \in Int /\ l \in Int
    BY <1>3, <2>4
  <2>. QED
    BY <1>3, <2>5, <2>6
<1>11. s = a \o b
  <2>1. a \o b \in Seq(T) /\ Len(a \o b) = Len(a) + Len(b)
        /\ \A k \in 1..(Len(a) + Len(b)) :
             (a \o b)[k] = IF k <= Len(a) THEN a[k] ELSE b[k - Len(a)]
    BY <1>4, <1>5, ConcatProperties
  <2>2. Len(a) + Len(b) = Len(s)
    BY <1>3, <1>4, <1>5
  <2>3. ASSUME NEW k \in 1..Len(s) PROVE (a \o b)[k] = s[k]
    <3>1. CASE k <= i - 1
      <4>1. k \in 1..(i - 1)
        BY <1>3, <3>1
      <4>. QED
        BY <1>4, <2>1, <2>2, <3>1, <4>1
    <3>2. CASE ~(k <= i - 1)
      <4>1. k - (i - 1) \in 1..(Len(s) - i + 1) /\ i + (k - (i - 1)) - 1 = k
        BY <1>3, <3>2
      <4>. QED
        BY <1>4, <1>5, <2>1, <2>2, <3>2, <4>1
    <3>. QED
      BY <3>1, <3>2
  <2>. QED
    BY <1>1, <2>1, <2>2, <2>3, SeqEqual
<1>. QED
  BY <1>7, <1>9, <1>10, <1>11 DEF a, b

(* An element that is not in a row can be put in at any place: the others  *)
(* keep their order.                                                       *)
LEMMA InsertIntoRow ==
  ASSUME NEW T, NEW s \in Rows(T), NEW i \in 1..(Len(s) + 1), NEW e \in T, e \notin Range(s)
  PROVE  /\ InsertAt(s, i, e) \in Rows(T)
         /\ Range(InsertAt(s, i, e)) = Range(s) \cup {e}
         /\ \A x, y : x # e /\ y # e => (Before(InsertAt(s, i, e), x, y) <=> Before(s, x, y))
<1> DEFINE a == SubSeq(s, 1, i - 1)
           b == SubSeq(s, i, Len(s))
           c == a \o <<e>>
<1>1. s = a \o b /\ a \in Rows(T) /\ b \in Rows(T) /\ Range(a) \cap Range(b) = {}
  BY SplitRow
<1>2. InsertAt(s, i, e) = c \o b
  BY DEF InsertAt
<1> HIDE DEF a, b
<1>3. /\ Range(s) = Range(a) \cup Range(b)
      /\ \A x, y : Before(s, x, y) <=>
           \/ Before(a, x, y) \/ Before(b, x, y) \/ (x \in Range(a) /\ y \in Range(b))
  BY <1>1, ConcatOfRows
<1>4. <<e>> \in Rows(T) /\ Range(<<e>>) = {e} /\ \A x, y : ~Before(<<e>>, x, y)
  BY OneIsRow
<1>5. Range(a) \cap Range(<<e>>) = {}
  BY <1>3, <1>4
<1>6. /\ c \in Rows(T) /\ Range(c) = Range(a) \cup Range(<<e>>)
      /\ \A x, y : Before(c, x, y) <=>
           \/ Before(a, x, y) \/ Before(<<e>>, x, y) \/ (x \in Range(a) /\ y \in Range(<<e>>))
  BY <1>1, <1>4, <1>5, ConcatOfRows
<1> HIDE DEF c
<1>7. Range(c) \cap Range(b) = {}
  BY <1>1, <1>3, <1>4, <1>6
<1>8. /\ c \o b \in Rows(T) /\ Range(c \o b) = Range(c) \cup Range(b)
      /\ \A x, y : Before(c \o b, x, y) <=>
           \/ Before(c, x, y) \/ Before(b, x, y) \/ (x \in Range(c) /\ y \in Range(b))
  BY <1>1, <1>6, <1>7, ConcatOfRows
<1>9. Range(c \o b) = Range(s) \cup {e}
  BY <1>3, <1>4, <1>6, <1>8
<1>10. ASSUME NEW x, NEW y, x # e, y # e PROVE Before(c \o b, x, y) <=> Before(s, x, y)
  BY <1>3, <1>4, <1>6, <1>8, <1>10
<1>. QED
  BY <1>2, <1>8, <1>9, <1>10

(* A row with something appended.                                          *)
LEMMA AppendToRow ==
  ASSUME NEW T, NEW s \in Rows(T), NEW e \in T, e \notin Range(s)
  PROVE  /\ Append(s, e) \in Rows(T)
         /\ Range(Append(s, e)) = Range(s) \cup {e}
         /\ \A x, y : Before(Append(s, e), x, y) <=> Before(s, x, y) \/ (x \in Range(s) /\ y = e)
<1>1. <<e>> \in Rows(T) /\ Range(<<e>>) = {e} /\ \A x, y : ~Before(<<e>>, x, y)
  BY OneIsRow
<1>2. Append(s, e) = s \o <<e>>
  BY AppendIsConcat DEF Rows
<1>3. Range(s) \cap Range(<<e>>) = {}
  BY <1>1
<1>4. /\ s \o <<e>> \in Rows(T) /\ Range(s \o <<e>>) = Range(s) \cup Range(<<e>>)
      /\ \A x, y : Before(s \o <<e>>, x, y) <=>
           \/ Before(s, x, y) \/ Before(<<e>>, x, y) \/ (x \in Range(s) /\ y \in Range(<<e>>))
  BY <1>1, <1>3, ConcatOfRows
<1>5. ASSUME NEW x, NEW y
      PROVE  Before(s \o <<e>>, x, y) <=> Before(s, x, y) \/ (x \in Range(s) /\ y = e)
  BY <1>1, <1>4
<1>. QED
  BY <1>1, <1>2, <1>4, <1>5

-----------------------------------------------------------------------------
(* What a layout shows.                                                    *)

(* What stands in a sequence is in its range.                              *)
LEMMA BeforeInRange ==
  ASSUME NEW s, NEW x, NEW y, Before(s, x, y)
  PROVE  x \in Range(s) /\ y \in Range(s)
BY DEF Before, Range

(* Rows over fewer elements, and over those they have.                     *)
LEMMA RowsOfMore ==
  ASSUME NEW S, NEW T, NEW s \in Rows(S), Range(s) \subseteq T
  PROVE  s \in Rows(T)
<1>1. s \in Seq(S) /\ IsInjective(s) /\ DOMAIN s = 1..Len(s) /\ Len(s) \in Nat
  BY LenProperties DEF Rows
<1>2. \A i \in 1..Len(s) : s[i] \in T
  <2>1. \A i \in 1..Len(s) : s[i] \in Range(s)
    BY <1>1 DEF Range
  <2>. QED
    BY <2>1
<1>3. s = [i \in 1..Len(s) |-> s[i]]
  BY <1>1
<1>4. s \in [1..Len(s) -> T]
  BY <1>2, <1>3
<1>5. s \in Seq(T)
  BY <1>1, <1>4
<1>. QED
  BY <1>1, <1>5 DEF Rows

(* A row is one over its own elements, and empty when it has none.         *)
LEMMA RangeOfRow ==
  ASSUME NEW T, NEW s \in Rows(T)
  PROVE  /\ Range(s) \subseteq T
         /\ s \in Rows(Range(s))
         /\ Range(s) = {} => s = <<>>
<1>1. s \in Seq(T) /\ DOMAIN s = 1..Len(s) /\ Len(s) \in Nat
  BY LenProperties DEF Rows
<1>2. Range(s) \subseteq T
  BY <1>1, ElementOfSeq DEF Range
<1>3. s \in Rows(Range(s))
  BY RowsOfMore
<1>4. ASSUME Range(s) = {} PROVE s = <<>>
  <2>1. ~(1 \in 1..Len(s))
    BY <1>1, <1>4 DEF Range
  <2>2. Len(s) = 0
    BY <1>1, <2>1
  <2>. QED
    BY <1>1, <2>2, EmptySeq
<1>. QED
  BY <1>2, <1>3, <1>4

(* Without the given elements, a row keeps the others and their order.     *)
LEMMA WithoutOfRow ==
  ASSUME NEW T, NEW s \in Rows(T), NEW S
  PROVE  /\ Without(s, S) \in Rows(T)
         /\ Range(Without(s, S)) = Range(s) \ S
         /\ \A x, y : Before(Without(s, S), x, y) <=> Before(s, x, y) /\ x \notin S /\ y \notin S
<1>1. /\ Only(s, Range(s) \ S) \in Rows(T)
      /\ Range(Only(s, Range(s) \ S)) = Range(s) \cap (Range(s) \ S)
      /\ \A x, y : Before(Only(s, Range(s) \ S), x, y) <=>
           Before(s, x, y) /\ x \in Range(s) \ S /\ y \in Range(s) \ S
  BY OnlyOfRow
<1>. QED
  BY <1>1, BeforeInRange DEF Without

(* The builtin graphs are a row, in the order of their numbers.            *)
LEMMA BuiltinsAreRow ==
  /\ [b \in Builtins |-> b] \in Rows(Builtins)
  /\ Range([b \in Builtins |-> b]) = Builtins
  /\ \A x, y : Before([b \in Builtins |-> b], x, y) <=> x \in Builtins /\ y \in Builtins /\ x < y
<1> DEFINE s == [b \in Builtins |-> b]
<1>1. NumBuiltins \in Nat /\ Builtins = 1..NumBuiltins
  BY DashboardConstants DEF Builtins
<1>2. DOMAIN s = Builtins /\ \A b \in Builtins : s[b] = b
  OBVIOUS
<1>3. s \in Seq(Builtins)
  BY <1>1
<1> HIDE DEF s
<1>4. s \in Rows(Builtins)
  BY <1>2, <1>3 DEF Rows, IsInjective
<1>5. \A x : x \in Range(s) <=> x \in Builtins
  BY <1>2 DEF Range
<1>6. \A x, y : Before(s, x, y) <=> x \in Builtins /\ y \in Builtins /\ x < y
  BY <1>2 DEF Before
<1>7. Range(s) = Builtins
  BY <1>5
<1>. QED
  BY <1>4, <1>6, <1>7 DEF s

(* The parts of a layout.                                                  *)
LEMMA LayoutParts ==
  ASSUME NEW M, NEW l \in LayoutsOf(M)
  PROVE  /\ l.order \in Rows(M)
         /\ l.hiddenDefault \subseteq Builtins /\ l.hiddenCustom \subseteq Customs
         /\ l.customs \in Rows(Items(M))
         /\ IdsOf(l.customs) \in Rows(M \ Builtins)
         /\ Range(IdsOf(l.customs)) = {c.id : c \in Range(l.customs)}
         /\ \A c \in Range(l.customs) : c \in Items(M)
         /\ \A c, d \in Range(l.customs) : c.id = d.id => c = d
<1>1. /\ l.order \in Rows(M)
      /\ l.hiddenDefault \subseteq Builtins /\ l.hiddenCustom \subseteq Customs
      /\ l.customs \in Seq(Items(M)) /\ IsInjective(IdsOf(l.customs))
  BY DEF LayoutsOf
<1>2. DOMAIN l.customs = 1..Len(l.customs) /\ Len(l.customs) \in Nat
      /\ \A k \in 1..Len(l.customs) : l.customs[k] \in Items(M)
  BY <1>1, LenProperties, ElementOfSeq
<1>3. /\ DOMAIN IdsOf(l.customs) = 1..Len(l.customs)
      /\ \A k \in 1..Len(l.customs) : IdsOf(l.customs)[k] = l.customs[k].id
  BY <1>2 DEF IdsOf
<1>4. \A j, k \in 1..Len(l.customs) : l.customs[j].id = l.customs[k].id => j = k
  BY <1>1, <1>3 DEF IsInjective
<1>5. l.customs \in Rows(Items(M))
  BY <1>1, <1>2, <1>4 DEF Rows, IsInjective
<1>6. IdsOf(l.customs) \in Rows(M \ Builtins)
  <2>1. \A k \in 1..Len(l.customs) : l.customs[k].id \in M \ Builtins
    BY <1>2 DEF Items
  <2>2. IdsOf(l.customs) = [k \in 1..Len(l.customs) |-> l.customs[k].id]
    BY <1>2 DEF IdsOf
  <2>3. IdsOf(l.customs) \in [1..Len(l.customs) -> M \ Builtins]
    BY <2>1, <2>2
  <2>4. IdsOf(l.customs) \in Seq(M \ Builtins)
    BY <1>2, <2>3
  <2>. QED
    BY <1>1, <2>4 DEF Rows
<1>7. \A c : c \in Range(l.customs) <=> \E k \in 1..Len(l.customs) : c = l.customs[k]
  BY <1>2 DEF Range
<1>8. \A x : x \in Range(IdsOf(l.customs)) <=> \E k \in 1..Len(l.customs) : x = l.customs[k].id
  BY <1>3 DEF Range
<1>9. \A x : x \in Range(IdsOf(l.customs)) <=> x \in {c.id : c \in Range(l.customs)}
  BY <1>7, <1>8
<1>10. Range(IdsOf(l.customs)) = {c.id : c \in Range(l.customs)}
  BY <1>9
<1>11. /\ \A c \in Range(l.customs) : c \in Items(M)
       /\ \A c, d \in Range(l.customs) : c.id = d.id => c = d
  BY <1>2, <1>4, <1>7
<1>. QED
  BY <1>1, <1>5, <1>6, <1>10, <1>11

(* The graphs a page knows, and how they stand without an order.           *)
KnownSet(l, cat) ==
  (cat \ (l.hiddenDefault \cup Customized(l))) \cup (Range(IdsOf(l.customs)) \ l.hiddenCustom)

Ahead(l, x, y) ==
  \/ x \in Builtins /\ y \in Builtins /\ x < y
  \/ x \in Builtins /\ y \notin Builtins
  \/ Before(IdsOf(l.customs), x, y)

(* What is known is a row: builtins by number, then the custom graphs as   *)
(* they are listed.                                                        *)
LEMMA KnownIsRow ==
  ASSUME NEW M, Builtins \subseteq M, NEW l \in LayoutsOf(M), NEW cat \in SUBSET Builtins
  PROVE  /\ Known(l, cat) \in Rows(M)
         /\ Range(Known(l, cat)) = KnownSet(l, cat)
         /\ \A x, y : Before(Known(l, cat), x, y) <=>
              x \in KnownSet(l, cat) /\ y \in KnownSet(l, cat) /\ Ahead(l, x, y)
<1> DEFINE B == [b \in Builtins |-> b]
           I == IdsOf(l.customs)
           S == cat \ (l.hiddenDefault \cup Customized(l))
           H == l.hiddenCustom
           b == Only(B, S)
           c == Without(I, H)
<1>1. /\ B \in Rows(Builtins) /\ Range(B) = Builtins
      /\ \A x, y : Before(B, x, y) <=> x \in Builtins /\ y \in Builtins /\ x < y
  BY BuiltinsAreRow
<1>2. I \in Rows(M \ Builtins) /\ Range(I) \subseteq M \ Builtins
  BY LayoutParts, RangeOfRow
<1>3. Known(l, cat) = b \o c /\ KnownSet(l, cat) = S \cup (Range(I) \ H)
  BY DEF Known, KnownSet
<1>4. \A x, y : Ahead(l, x, y) <=>
         \/ x \in Builtins /\ y \in Builtins /\ x < y
         \/ x \in Builtins /\ y \notin Builtins
         \/ Before(I, x, y)
  BY DEF Ahead
<1>5. S \subseteq Builtins
  OBVIOUS
<1> HIDE DEF B, I, S, H
<1>6. /\ b \in Rows(Builtins) /\ Range(b) = Range(B) \cap S
      /\ \A x, y : Before(b, x, y) <=> Before(B, x, y) /\ x \in S /\ y \in S
  BY <1>1, OnlyOfRow
<1>7. /\ c \in Rows(M \ Builtins) /\ Range(c) = Range(I) \ H
      /\ \A x, y : Before(c, x, y) <=> Before(I, x, y) /\ x \notin H /\ y \notin H
  BY <1>2, WithoutOfRow
<1> HIDE DEF b, c
<1>8. Range(b) = S
  BY <1>1, <1>5, <1>6
<1>9. b \in Rows(M) /\ c \in Rows(M) /\ Range(b) \cap Range(c) = {}
  <2>1. Range(b) \subseteq M /\ Range(c) \subseteq M
    BY <1>2, <1>5, <1>7, <1>8
  <2>. QED
    BY <1>2, <1>5, <1>6, <1>7, <1>8, <2>1, RowsOfMore
<1>10. /\ b \o c \in Rows(M) /\ Range(b \o c) = Range(b) \cup Range(c)
       /\ \A x, y : Before(b \o c, x, y) <=>
            \/ Before(b, x, y) \/ Before(c, x, y) \/ (x \in Range(b) /\ y \in Range(c))
  BY <1>9, ConcatOfRows
<1>11. Range(b \o c) = KnownSet(l, cat)
  BY <1>3, <1>7, <1>8, <1>10
<1>12. ASSUME NEW x, NEW y, Before(b \o c, x, y)
       PROVE  x \in KnownSet(l, cat) /\ y \in KnownSet(l, cat) /\ Ahead(l, x, y)
  <2>1. x \in KnownSet(l, cat) /\ y \in KnownSet(l, cat)
    BY <1>11, <1>12, BeforeInRange
  <2>2. CASE Before(b, x, y)
    BY <1>1, <1>4, <1>6, <2>1, <2>2
  <2>3. CASE Before(c, x, y)
    BY <1>4, <1>7, <2>1, <2>3
  <2>4. CASE x \in Range(b) /\ y \in Range(c)
    BY <1>2, <1>4, <1>5, <1>7, <1>8, <2>1, <2>4
  <2>. QED
    BY <1>10, <1>12, <2>2, <2>3, <2>4
<1>13. ASSUME NEW x, NEW y, x \in KnownSet(l, cat), y \in KnownSet(l, cat), Ahead(l, x, y)
       PROVE  Before(b \o c, x, y)
  <2>1. /\ x \in Builtins => x \in S
        /\ y \in Builtins => y \in S
        /\ x \notin Builtins => x \in Range(I) \ H
        /\ y \notin Builtins => y \in Range(I) \ H
    BY <1>2, <1>3, <1>5, <1>13
  <2>2. CASE x \in Builtins /\ y \in Builtins /\ x < y
    <3>1. Before(b, x, y)
      BY <1>1, <1>6, <2>1, <2>2
    <3>. QED
      BY <1>10, <3>1
  <2>3. CASE x \in Builtins /\ y \notin Builtins
    BY <1>7, <1>8, <1>10, <2>1, <2>3
  <2>4. CASE Before(I, x, y)
    <3>1. x \in Range(I) /\ y \in Range(I)
      BY <2>4, BeforeInRange
    <3>2. Before(c, x, y)
      BY <1>2, <1>7, <2>1, <2>4, <3>1
    <3>. QED
      BY <1>10, <3>2
  <2>. QED
    BY <1>4, <1>13, <2>2, <2>3, <2>4
<1>. QED
  BY <1>3, <1>10, <1>11, <1>12, <1>13

(* What a dashboard shows: those in the order first, as they are in it.    *)
LEMMA ShownIsRow ==
  ASSUME NEW M, Builtins \subseteq M, NEW l \in LayoutsOf(M), NEW cat \in SUBSET Builtins
  PROVE  /\ AllGraphs(l, cat) \in Rows(M)
         /\ Range(AllGraphs(l, cat)) = KnownSet(l, cat)
         /\ \A x, y : Before(AllGraphs(l, cat), x, y) <=>
              /\ x \in KnownSet(l, cat) /\ y \in KnownSet(l, cat)
              /\ \/ Before(l.order, x, y)
                 \/ x \in Range(l.order) /\ y \notin Range(l.order)
                 \/ x \notin Range(l.order) /\ y \notin Range(l.order) /\ Ahead(l, x, y)
<1> DEFINE O == l.order
           K == Known(l, cat)
           S == KnownSet(l, cat)
           a == Only(O, Range(K))
           b == Without(K, Range(O))
<1>1. O \in Rows(M)
  BY LayoutParts
<1>2. /\ K \in Rows(M) /\ Range(K) = S
      /\ \A x, y : Before(K, x, y) <=> x \in S /\ y \in S /\ Ahead(l, x, y)
  BY KnownIsRow
<1>3. AllGraphs(l, cat) = a \o b
  BY DEF AllGraphs
<1> HIDE DEF O, K, S
<1>4. /\ a \in Rows(M) /\ Range(a) = Range(O) \cap Range(K)
      /\ \A x, y : Before(a, x, y) <=> Before(O, x, y) /\ x \in Range(K) /\ y \in Range(K)
  BY <1>1, OnlyOfRow
<1>5. /\ b \in Rows(M) /\ Range(b) = Range(K) \ Range(O)
      /\ \A x, y : Before(b, x, y) <=>
           Before(K, x, y) /\ x \notin Range(O) /\ y \notin Range(O)
  BY <1>2, WithoutOfRow
<1> HIDE DEF a, b
<1>6. Range(a) \cap Range(b) = {}
  BY <1>4, <1>5
<1>7. /\ a \o b \in Rows(M) /\ Range(a \o b) = Range(a) \cup Range(b)
      /\ \A x, y : Before(a \o b, x, y) <=>
           \/ Before(a, x, y) \/ Before(b, x, y) \/ (x \in Range(a) /\ y \in Range(b))
  BY <1>4, <1>5, <1>6, ConcatOfRows
<1>8. Range(a \o b) = S
  BY <1>2, <1>4, <1>5, <1>7
<1>9. ASSUME NEW x, NEW y
      PROVE  Before(a \o b, x, y) <=>
               /\ x \in S /\ y \in S
               /\ \/ Before(O, x, y)
                  \/ x \in Range(O) /\ y \notin Range(O)
                  \/ x \notin Range(O) /\ y \notin Range(O) /\ Ahead(l, x, y)
  <2>1. Before(O, x, y) => x \in Range(O) /\ y \in Range(O)
    BY BeforeInRange
  <2>. QED
    BY <1>2, <1>4, <1>5, <1>7, <2>1
<1>. QED
  BY <1>3, <1>7, <1>8, <1>9 DEF O, S

(* A layout whose order is all of what another shows is shown in it, but   *)
(* for graphs that are not known.                                          *)
LEMMA ArrangedIsShown ==
  ASSUME NEW M, Builtins \subseteq M, NEW l \in LayoutsOf(M), NEW cat \in SUBSET Builtins,
         NEW F, F \cap cat = {}, NEW r \in Rows(M), Range(r) \ F = KnownSet(l, cat)
  PROVE  /\ [l EXCEPT !.order = r] \in LayoutsOf(M)
         /\ KnownSet([l EXCEPT !.order = r], cat) = KnownSet(l, cat)
         /\ AllGraphs([l EXCEPT !.order = r], cat) = Without(r, F)
<1> DEFINE m == [l EXCEPT !.order = r]
<1>1. l = [order |-> l.order, hiddenDefault |-> l.hiddenDefault,
           hiddenCustom |-> l.hiddenCustom, customs |-> l.customs]
  BY DEF LayoutsOf
<1>2. /\ m.order = r /\ m.hiddenDefault = l.hiddenDefault
      /\ m.hiddenCustom = l.hiddenCustom /\ m.customs = l.customs
  BY <1>1
<1>3. m \in LayoutsOf(M)
  BY DEF LayoutsOf
<1> HIDE DEF m
<1>4. \A x : x \in KnownSet(m, cat) <=> x \in KnownSet(l, cat)
  <2> DEFINE G == {g.source : g \in Range(l.customs)}
             I == Range(IdsOf(l.customs)) \ l.hiddenCustom
  <2>1. /\ Customized(l) = G \ ({NoSource} \cup Range(l.order))
        /\ Customized(m) = G \ ({NoSource} \cup Range(r))
    BY <1>2 DEF Customized
  <2>2. /\ KnownSet(l, cat) = (cat \ (l.hiddenDefault \cup Customized(l))) \cup I
        /\ KnownSet(m, cat) = (cat \ (l.hiddenDefault \cup Customized(m))) \cup I
    BY <1>2 DEF KnownSet
  <2> HIDE DEF G, I
  <2>. QED
    BY <2>1, <2>2
<1>5. KnownSet(m, cat) = KnownSet(l, cat)
  BY <1>4
<1>6. /\ AllGraphs(m, cat) \in Rows(M)
      /\ Range(AllGraphs(m, cat)) = KnownSet(m, cat)
      /\ \A x, y : Before(AllGraphs(m, cat), x, y) <=>
           /\ x \in KnownSet(m, cat) /\ y \in KnownSet(m, cat)
           /\ \/ Before(m.order, x, y)
              \/ x \in Range(m.order) /\ y \notin Range(m.order)
              \/ x \notin Range(m.order) /\ y \notin Range(m.order) /\ Ahead(m, x, y)
  BY <1>3, ShownIsRow
<1> DEFINE w == Without(r, F)
<1>7. /\ w \in Rows(M) /\ Range(w) = Range(r) \ F
      /\ \A x, y : Before(w, x, y) <=> Before(r, x, y) /\ x \notin F /\ y \notin F
  BY WithoutOfRow
<1> HIDE DEF w
<1>8. ASSUME NEW x, NEW y PROVE Before(AllGraphs(m, cat), x, y) <=> Before(w, x, y)
  <2>1. Before(r, x, y) => x \in Range(r) /\ y \in Range(r)
    BY BeforeInRange
  <2>2. \A z : z \in KnownSet(m, cat) <=> z \in Range(r) /\ z \notin F
    BY <1>5
  <2>3. Before(AllGraphs(m, cat), x, y) <=>
          x \in KnownSet(m, cat) /\ y \in KnownSet(m, cat) /\ Before(r, x, y)
    BY <1>2, <1>6, <2>1, <2>2
  <2>. QED
    BY <1>7, <2>1, <2>2, <2>3
<1>9. AllGraphs(m, cat) = w
  BY <1>5, <1>6, <1>7, <1>8, SameRow
<1>. QED
  BY <1>3, <1>5, <1>9 DEF m, w

(* Whether x is shown ahead of y, of the graphs that are shown.            *)
Stands(l, x, y) ==
  \/ Before(l.order, x, y)
  \/ x \in Range(l.order) /\ y \notin Range(l.order)
  \/ x \notin Range(l.order) /\ y \notin Range(l.order) /\ Ahead(l, x, y)

(* A page that knows fewer graphs shows of a layout what it still knows.   *)
LEMMA FewerAreShown ==
  ASSUME NEW M, Builtins \subseteq M, NEW l \in LayoutsOf(M), NEW cat \in SUBSET Builtins,
         NEW next \in SUBSET cat, NEW s \in Rows(M),
         Without(s, Builtins \ cat) = AllGraphs(l, cat)
  PROVE  Without(s, Builtins \ next) = AllGraphs(l, next)
<1> DEFINE F == Builtins \ cat
           G == Builtins \ next
           a == AllGraphs(l, cat)
           b == AllGraphs(l, next)
           w == Without(s, G)
<1>1. /\ Range(a) = KnownSet(l, cat)
      /\ \A x, y : Before(a, x, y) <=>
           x \in KnownSet(l, cat) /\ y \in KnownSet(l, cat) /\ Stands(l, x, y)
  BY ShownIsRow DEF Stands
<1>2. /\ b \in Rows(M) /\ Range(b) = KnownSet(l, next)
      /\ \A x, y : Before(b, x, y) <=>
           x \in KnownSet(l, next) /\ y \in KnownSet(l, next) /\ Stands(l, x, y)
  BY ShownIsRow DEF Stands
<1>3. /\ Range(a) = Range(s) \ F
      /\ \A x, y : Before(a, x, y) <=> Before(s, x, y) /\ x \notin F /\ y \notin F
  BY WithoutOfRow
<1>4. /\ w \in Rows(M) /\ Range(w) = Range(s) \ G
      /\ \A x, y : Before(w, x, y) <=> Before(s, x, y) /\ x \notin G /\ y \notin G
  BY WithoutOfRow
<1>5. \A x : x \in Range(IdsOf(l.customs)) => x \notin Builtins
  <2>1. IdsOf(l.customs) \in Rows(M \ Builtins)
    BY LayoutParts
  <2>2. Range(IdsOf(l.customs)) \subseteq M \ Builtins
    BY <2>1, RangeOfRow
  <2>. QED
    BY <2>2
<1>6. \A x : x \in KnownSet(l, next) <=> x \in KnownSet(l, cat) /\ x \notin G
  BY <1>5 DEF KnownSet
<1>7. \A x : x \in F => x \in G
  OBVIOUS
<1> HIDE DEF F, G, a, b, w
<1>8. \A x : x \in Range(w) <=> x \in Range(b)
  BY <1>1, <1>2, <1>3, <1>4, <1>6, <1>7
<1>9. ASSUME NEW x, NEW y PROVE Before(w, x, y) <=> Before(b, x, y)
  BY <1>1, <1>2, <1>3, <1>4, <1>6, <1>7
<1>10. w = b
  BY <1>2, <1>4, <1>8, <1>9, SameRow
<1>. QED
  BY <1>10 DEF w, G, b

(* Nor does it leave out more than those it does not know any more.        *)
LEMMA FewerAreUnused ==
  ASSUME NEW M, Builtins \subseteq M, NEW l \in LayoutsOf(M), NEW cat \in SUBSET Builtins,
         NEW next \in SUBSET cat
  PROVE  Unused(l, next) = Unused(l, cat) \ (Builtins \ next)
<1>1. /\ Range(AllGraphs(l, cat)) = KnownSet(l, cat)
      /\ Range(AllGraphs(l, next)) = KnownSet(l, next)
  BY ShownIsRow
<1>2. \A x : x \in Range(IdsOf(l.customs)) => x \notin Builtins
  <2>1. IdsOf(l.customs) \in Rows(M \ Builtins)
    BY LayoutParts
  <2>2. Range(IdsOf(l.customs)) \subseteq M \ Builtins
    BY <2>1, RangeOfRow
  <2>. QED
    BY <2>2
<1>3. ASSUME NEW x
      PROVE  x \in Unused(l, next) <=> x \in Unused(l, cat) /\ x \notin Builtins \ next
  BY <1>1, <1>2 DEF Unused, KnownSet
<1>. QED
  BY <1>3

(* Nothing of what is rendered is unknown.                                 *)
LEMMA NoneForgotten ==
  ASSUME NEW M, Builtins \subseteq M, NEW l \in LayoutsOf(M), NEW cat \in SUBSET Builtins
  PROVE  /\ Without(AllGraphs(l, cat), Builtins \ cat) = AllGraphs(l, cat)
         /\ Unused(l, cat) \ (Builtins \ cat) = Unused(l, cat)
<1> DEFINE F == Builtins \ cat
           a == AllGraphs(l, cat)
           w == Without(a, F)
<1>1. a \in Rows(M) /\ Range(a) = KnownSet(l, cat)
  BY ShownIsRow
<1>2. /\ w \in Rows(M) /\ Range(w) = Range(a) \ F
      /\ \A x, y : Before(w, x, y) <=> Before(a, x, y) /\ x \notin F /\ y \notin F
  BY <1>1, WithoutOfRow
<1>3. \A x : x \in Range(IdsOf(l.customs)) => x \notin Builtins
  <2>1. IdsOf(l.customs) \in Rows(M \ Builtins)
    BY LayoutParts
  <2>2. Range(IdsOf(l.customs)) \subseteq M \ Builtins
    BY <2>1, RangeOfRow
  <2>. QED
    BY <2>2
<1>4. \A x : x \in KnownSet(l, cat) => x \notin F
  BY <1>3 DEF KnownSet
<1>5. \A x : x \in Unused(l, cat) => x \notin F
  BY <1>3 DEF Unused
<1> HIDE DEF F, a, w
<1>6. \A x : x \in Range(w) <=> x \in Range(a)
  BY <1>1, <1>2, <1>4
<1>7. ASSUME NEW x, NEW y PROVE Before(w, x, y) <=> Before(a, x, y)
  BY <1>1, <1>2, <1>4, BeforeInRange
<1>8. w = a
  BY <1>1, <1>2, <1>6, <1>7, SameRow
<1>9. \A x : x \in Unused(l, cat) \ F <=> x \in Unused(l, cat)
  BY <1>5
<1>10. Unused(l, cat) \ F = Unused(l, cat)
  BY <1>9
<1>. QED
  BY <1>8, <1>10 DEF w, a, F

(* The names of custom graphs stand as the graphs do.                      *)
LEMMA IdsOfRow ==
  ASSUME NEW M, NEW cs \in Rows(Items(M)), \A c, d \in Range(cs) : c.id = d.id => c = d
  PROVE  /\ cs \in Seq(Items(M)) /\ IsInjective(IdsOf(cs))
         /\ Range(IdsOf(cs)) = {c.id : c \in Range(cs)}
         /\ \A x, y : Before(IdsOf(cs), x, y) <=>
              \E c, d \in Range(cs) : Before(cs, c, d) /\ c.id = x /\ d.id = y
<1>1. cs \in Seq(Items(M)) /\ IsInjective(cs) /\ DOMAIN cs = 1..Len(cs)
  BY LenProperties DEF Rows
<1>2. DOMAIN IdsOf(cs) = 1..Len(cs) /\ \A k \in 1..Len(cs) : IdsOf(cs)[k] = cs[k].id
  BY <1>1 DEF IdsOf
<1>3. \A c : c \in Range(cs) <=> \E k \in 1..Len(cs) : c = cs[k]
  BY <1>1 DEF Range
<1>4. IsInjective(IdsOf(cs))
  <2>1. SUFFICES ASSUME NEW j \in 1..Len(cs), NEW k \in 1..Len(cs), cs[j].id = cs[k].id
                 PROVE  j = k
    BY <1>2 DEF IsInjective
  <2>2. cs[j] \in Range(cs) /\ cs[k] \in Range(cs)
    BY <1>3
  <2>3. cs[j] = cs[k]
    BY <2>1, <2>2
  <2>. QED
    BY <1>1, <2>3 DEF IsInjective
<1>5. \A x : x \in Range(IdsOf(cs)) <=> \E k \in 1..Len(cs) : x = cs[k].id
  BY <1>2 DEF Range
<1>6. \A x : x \in Range(IdsOf(cs)) <=> x \in {c.id : c \in Range(cs)}
  BY <1>3, <1>5
<1>7. ASSUME NEW x, NEW y
      PROVE  Before(IdsOf(cs), x, y) <=>
               \E c, d \in Range(cs) : Before(cs, c, d) /\ c.id = x /\ d.id = y
  <2>1. Before(IdsOf(cs), x, y) <=>
          \E j, k \in 1..Len(cs) : j < k /\ cs[j].id = x /\ cs[k].id = y
    BY <1>2 DEF Before
  <2>2. \A c, d : Before(cs, c, d) <=> \E j, k \in 1..Len(cs) : j < k /\ cs[j] = c /\ cs[k] = d
    BY <1>1 DEF Before
  <2>3. ASSUME NEW j \in 1..Len(cs), NEW k \in 1..Len(cs), j < k, cs[j].id = x, cs[k].id = y
        PROVE  \E c, d \in Range(cs) : Before(cs, c, d) /\ c.id = x /\ d.id = y
    <3>1. cs[j] \in Range(cs) /\ cs[k] \in Range(cs) /\ Before(cs, cs[j], cs[k])
      BY <1>3, <2>2, <2>3
    <3>. QED
      BY <2>3, <3>1
  <2>4. ASSUME NEW c \in Range(cs), NEW d \in Range(cs), Before(cs, c, d), c.id = x, d.id = y
        PROVE  \E j, k \in 1..Len(cs) : j < k /\ cs[j].id = x /\ cs[k].id = y
    <3>1. PICK j, k \in 1..Len(cs) : j < k /\ cs[j] = c /\ cs[k] = d
      BY <2>2, <2>4
    <3>. QED
      BY <2>4, <3>1
  <2>. QED
    BY <2>1, <2>3, <2>4
<1>8. Range(IdsOf(cs)) = {c.id : c \in Range(cs)}
  BY <1>6
<1>. QED
  BY <1>1, <1>4, <1>7, <1>8

(* What its parts are makes a layout.                                      *)
LEMMA MadeOfParts ==
  ASSUME NEW M, NEW order \in Rows(M), NEW hidden \in SUBSET Builtins,
         NEW hiddenCustom \in SUBSET Customs, NEW cs \in Rows(Items(M)),
         \A c, d \in Range(cs) : c.id = d.id => c = d
  PROVE  [order |-> order, hiddenDefault |-> hidden, hiddenCustom |-> hiddenCustom,
          customs |-> cs] \in LayoutsOf(M)
<1>1. cs \in Seq(Items(M)) /\ IsInjective(IdsOf(cs))
  BY IdsOfRow
<1>. QED
  BY <1>1 DEF LayoutsOf

(* More graphs made leave the layouts what they were.                      *)
LEMMA LayoutsOfMore ==
  ASSUME NEW M, NEW N, M \subseteq N, NEW l \in LayoutsOf(M)
  PROVE  l \in LayoutsOf(N)
<1>1. /\ l.order \in Rows(M)
      /\ l.hiddenDefault \subseteq Builtins /\ l.hiddenCustom \subseteq Customs
      /\ l.customs \in Rows(Items(M))
      /\ \A c \in Range(l.customs) : c \in Items(M)
      /\ \A c, d \in Range(l.customs) : c.id = d.id => c = d
  BY LayoutParts
<1>2. l.order \in Rows(N)
  <2>1. Range(l.order) \subseteq N
    BY <1>1, RangeOfRow
  <2>. QED
    BY <1>1, <2>1, RowsOfMore
<1>3. l.customs \in Rows(Items(N))
  <2>1. Range(l.customs) \subseteq Items(N)
    BY <1>1 DEF Items
  <2>. QED
    BY <1>1, <2>1, RowsOfMore
<1>4. l = [order |-> l.order, hiddenDefault |-> l.hiddenDefault,
           hiddenCustom |-> l.hiddenCustom, customs |-> l.customs]
  BY DEF LayoutsOf
<1> DEFINE m == [order |-> l.order, hiddenDefault |-> l.hiddenDefault,
                 hiddenCustom |-> l.hiddenCustom, customs |-> l.customs]
<1>5. m \in LayoutsOf(N)
  BY <1>1, <1>2, <1>3, MadeOfParts
<1>. QED
  BY <1>4, <1>5

-----------------------------------------------------------------------------
(* The invariant of the layout.                                            *)

(* A longer run of numbers has those of a shorter one.                     *)
LEMMA IntervalGrows ==
  ASSUME NEW n \in Int, NEW a \in Int, NEW b \in Int, a <= b
  PROVE  \A x \in (n + 1)..(n + a) : x \in (n + 1)..(n + b)
OBVIOUS

(* No graph is unmade, so that rows and layouts of graphs that were made   *)
(* stay such.                                                              *)
LEMMA MadeGrows ==
  ASSUME copies \in 0..MaxCopies, copies' \in 0..MaxCopies, copies <= copies'
  PROVE  /\ Builtins \subseteq Made /\ Made \subseteq Made'
         /\ \A l \in Layouts : l \in Layouts'
         /\ \A s \in Rows(Made) : s \in Rows(Made')
<1>1. Builtins \subseteq Made
  BY DEF Made
<1>2. Made \subseteq Made'
  <2>1. NumBuiltins \in Int /\ copies \in Int /\ copies' \in Int
    BY DashboardConstants
  <2>2. \A x \in (NumBuiltins + 1)..(NumBuiltins + copies) :
          x \in (NumBuiltins + 1)..(NumBuiltins + copies')
    BY <2>1, IntervalGrows
  <2>. QED
    BY <2>2 DEF Made
<1>3. ASSUME NEW l \in Layouts PROVE l \in Layouts'
  <2>1. l \in LayoutsOf(Made)
    BY DEF Layouts
  <2>2. PICK N : N = Made'
    OBVIOUS
  <2>3. l \in LayoutsOf(N)
    BY <1>2, <2>1, <2>2, LayoutsOfMore
  <2>4. Layouts' = LayoutsOf(N)
    BY <2>2 DEF Layouts, LayoutsOf, Items, Rows
  <2>. QED
    BY <2>3, <2>4
<1>4. ASSUME NEW s \in Rows(Made) PROVE s \in Rows(Made')
  <2>1. Range(s) \subseteq Made'
    BY <1>2, RangeOfRow
  <2>2. PICK N : N = Made'
    OBVIOUS
  <2>3. s \in Rows(N)
    BY <2>1, <2>2, RowsOfMore
  <2>. QED
    BY <2>2, <2>3
<1>. QED
  BY <1>1, <1>2, <1>3, <1>4

(* An edit: its layout is in the page, and on its way to the daemon.       *)
LEMMA SaveKeeps ==
  ASSUME TypeOK, SavedInFile, NEW l, NEW then \in BOOLEAN, Save(l, then),
         l \in Layouts', cards' \in Rows(Made'), drawer' = drawer,
         copies' \in 0..MaxCopies, copies <= copies'
  PROVE  /\ TypeOK' /\ SavedInFile'
         /\ then => PageShowsLayout'
         /\ layout' = l /\ page' = page /\ catalog' = catalog /\ stale' = stale
         /\ saves \subseteq saves'
<1> DEFINE new == [n |-> edits', body |-> l, phase |-> "sent", then |-> then, mine |-> TRUE]
<1>1. /\ page = "up" /\ edits' = edits + 1 /\ layout' = l
      /\ saves' = saves \cup {new} /\ calm' = (saves = {})
      /\ file' = file /\ page' = page /\ catalog' = catalog /\ stale' = stale
  BY DEF Save, server
<1>2. /\ Made \subseteq Made' /\ \A m \in Layouts : m \in Layouts'
  BY MadeGrows DEF TypeOK
<1>3. edits \in Nat /\ edits' \in Nat /\ \A k \in 1..edits : k \in 1..edits'
  BY <1>1 DEF TypeOK
<1>4. \A s \in saves : s \in [n : 1..edits', body : Layouts', phase : {"sent", "writing", "answered"},
                              then : BOOLEAN, mine : BOOLEAN]
  BY <1>2, <1>3 DEF TypeOK
<1>5. new \in [n : 1..edits', body : Layouts', phase : {"sent", "writing", "answered"},
               then : BOOLEAN, mine : BOOLEAN]
  <2>1. edits' \in 1..edits'
    BY <1>1, <1>3
  <2>. QED
    BY <2>1
<1>6. file' \in [kind : {"none", "empty", "mixed", "whole"}, layout : Layouts']
  BY <1>1, <1>2 DEF TypeOK
<1>7. TypeOK'
  <2>1. saves' \subseteq [n : 1..edits', body : Layouts', phase : {"sent", "writing", "answered"},
                          then : BOOLEAN, mine : BOOLEAN]
    BY <1>1, <1>4, <1>5
  <2>2. page' \in {"up", "failed"} /\ catalog' \subseteq Builtins /\ layout' \in Layouts'
    BY <1>1 DEF TypeOK
  <2>3. drawer' \subseteq Made'
    BY <1>2 DEF TypeOK
  <2>4. stale' \in BOOLEAN /\ calm' \in BOOLEAN
    BY <1>1 DEF TypeOK
  <2>. QED
    BY <1>3, <1>6, <2>1, <2>2, <2>3, <2>4 DEF TypeOK
<1>8. SavedInFile'
  <2>1. SUFFICES ASSUME calm'
                 PROVE  /\ saves' # {}
                        /\ \A s \in saves' : saves' = {s} /\ s.body = layout' /\ s.phase = "sent"
    BY DEF SavedInFile
  <2>2. saves' = {new} /\ new.body = l /\ new.phase = "sent"
    BY <1>1, <2>1
  <2> HIDE DEF new
  <2>. QED
    BY <1>1, <2>2
<1>9. then => PageShowsLayout'
  <2>1. new \in saves' /\ new.mine = TRUE /\ new.then = then
    BY <1>1
  <2> HIDE DEF new
  <2>. QED
    BY <2>1 DEF PageShowsLayout
<1>. QED
  BY <1>1, <1>7, <1>8, <1>9

(* What an edit starts from.                                               *)
LEMMA LayoutHere ==
  ASSUME TypeOK
  PROVE  /\ layout \in LayoutsOf(Made) /\ layout.order \in Rows(Made)
         /\ layout.hiddenDefault \subseteq Builtins /\ layout.hiddenCustom \subseteq Customs
         /\ layout.customs \in Rows(Items(Made))
         /\ \A c \in Range(layout.customs) : c \in Items(Made)
         /\ \A c, d \in Range(layout.customs) : c.id = d.id => c = d
         /\ Builtins \subseteq Made /\ catalog \subseteq Builtins
         /\ cards \in Rows(Made) /\ drawer \subseteq Made
         /\ copies \in 0..MaxCopies
<1>1. layout \in LayoutsOf(Made)
  BY DEF TypeOK, Layouts
<1>2. Builtins \subseteq Made
  BY DEF Made
<1>. QED
  BY <1>1, <1>2, LayoutParts DEF TypeOK

(* A layout with some of its parts changed.                                *)
HiddenChanged(l, h, c, o) == [l EXCEPT !.hiddenDefault = h, !.hiddenCustom = c, !.order = o]
CopyChanged(l, cs, h, o) == [l EXCEPT !.customs = cs, !.hiddenDefault = h, !.order = o]
CustomChanged(l, cs, c, o) == [l EXCEPT !.customs = cs, !.hiddenCustom = c, !.order = o]

(* Changing what is hidden, and the order, makes a layout of these parts.  *)
LEMMA HiddenChangedIs ==
  ASSUME NEW M, NEW l \in LayoutsOf(M), NEW h \in SUBSET Builtins, NEW c \in SUBSET Customs,
         NEW o \in Rows(M)
  PROVE  /\ HiddenChanged(l, h, c, o) \in LayoutsOf(M)
         /\ HiddenChanged(l, h, c, o).order = o
         /\ HiddenChanged(l, h, c, o).hiddenDefault = h
         /\ HiddenChanged(l, h, c, o).hiddenCustom = c
         /\ HiddenChanged(l, h, c, o).customs = l.customs
BY DEF LayoutsOf, HiddenChanged

(* So does changing the custom graphs, the hidden builtins and the order.  *)
LEMMA CopyChangedIs ==
  ASSUME NEW M, NEW l \in LayoutsOf(M), NEW h \in SUBSET Builtins, NEW o \in Rows(M),
         NEW cs \in Rows(Items(M)), \A a, b \in Range(cs) : a.id = b.id => a = b
  PROVE  /\ CopyChanged(l, cs, h, o) \in LayoutsOf(M)
         /\ CopyChanged(l, cs, h, o).order = o
         /\ CopyChanged(l, cs, h, o).hiddenDefault = h
         /\ CopyChanged(l, cs, h, o).hiddenCustom = l.hiddenCustom
         /\ CopyChanged(l, cs, h, o).customs = cs
<1>1. cs \in Seq(Items(M)) /\ IsInjective(IdsOf(cs))
  BY IdsOfRow
<1>. QED
  BY <1>1 DEF LayoutsOf, CopyChanged

(* So does changing the custom graphs, the hidden ones among them and the  *)
(* order.                                                                  *)
LEMMA CustomChangedIs ==
  ASSUME NEW M, NEW l \in LayoutsOf(M), NEW c \in SUBSET Customs, NEW o \in Rows(M),
         NEW cs \in Rows(Items(M)), \A a, b \in Range(cs) : a.id = b.id => a = b
  PROVE  /\ CustomChanged(l, cs, c, o) \in LayoutsOf(M)
         /\ CustomChanged(l, cs, c, o).order = o
         /\ CustomChanged(l, cs, c, o).hiddenDefault = l.hiddenDefault
         /\ CustomChanged(l, cs, c, o).hiddenCustom = c
         /\ CustomChanged(l, cs, c, o).customs = cs
<1>1. cs \in Seq(Items(M)) /\ IsInjective(IdsOf(cs))
  BY IdsOfRow
<1>. QED
  BY <1>1 DEF LayoutsOf, CustomChanged

(* Hiding takes a graph out of the order and adds it to the hidden ones of *)
(* its kind.                                                               *)
LEMMA HiddenIs ==
  ASSUME TypeOK, NEW g \in Ids
  PROVE  /\ Hidden(g) \in LayoutsOf(Made)
         /\ Hidden(g).order = Without(layout.order, {g})
         /\ Hidden(g).hiddenDefault = layout.hiddenDefault \cup ({g} \cap Builtins)
         /\ Hidden(g).hiddenCustom = layout.hiddenCustom \cup ({g} \cap Customs)
         /\ Hidden(g).customs = layout.customs
<1> DEFINE o == Without(layout.order, {g})
           h == IF g \in Builtins THEN layout.hiddenDefault \cup {g} ELSE layout.hiddenDefault
           c == IF g \in Customs THEN layout.hiddenCustom \cup {g} ELSE layout.hiddenCustom
<1>1. /\ h = layout.hiddenDefault \cup ({g} \cap Builtins)
      /\ c = layout.hiddenCustom \cup ({g} \cap Customs)
  OBVIOUS
<1>2. h \in SUBSET Builtins
  BY LayoutHere
<1>3. c \in SUBSET Customs
  BY LayoutHere
<1>4. layout \in LayoutsOf(Made)
  BY LayoutHere
<1>5. o \in Rows(Made)
  BY LayoutHere, WithoutOfRow
<1>6. Hidden(g) = HiddenChanged(layout, h, c, o)
  BY DEF Hidden, HiddenChanged
<1> HIDE DEF o, h, c
<1>7. /\ Hidden(g) \in LayoutsOf(Made)
      /\ Hidden(g).order = o /\ Hidden(g).hiddenDefault = h
      /\ Hidden(g).hiddenCustom = c /\ Hidden(g).customs = layout.customs
  BY <1>2, <1>3, <1>4, <1>5, <1>6, HiddenChangedIs
<1>. QED
  BY <1>1, <1>7 DEF o

(* An edit that makes no graph.                                            *)
LEMMA EditKeeps ==
  ASSUME TypeOK, SavedInFile, NEW l, l \in LayoutsOf(Made), Save(l, TRUE),
         cards' = cards, drawer' = drawer, copies' = copies
  PROVE  TypeOK' /\ SavedInFile' /\ PageShowsLayout'
<1>1. copies \in 0..MaxCopies /\ copies' \in 0..MaxCopies /\ copies <= copies'
  BY DEF TypeOK
<1>2. /\ \A m \in Layouts : m \in Layouts'
      /\ \A s \in Rows(Made) : s \in Rows(Made')
  BY <1>1, MadeGrows
<1>3. l \in Layouts' /\ cards' \in Rows(Made')
  BY <1>2, LayoutHere DEF Layouts
<1>. QED
  BY <1>1, <1>3, SaveKeeps

(* Hiding keeps the invariant.                                             *)
LEMMA HideKeeps ==
  ASSUME TypeOK, SavedInFile, NEW g \in Ids, Hide(g)
  PROVE  TypeOK' /\ SavedInFile' /\ PageShowsLayout'
<1>1. /\ Save(Hidden(g), TRUE) /\ cards' = cards /\ drawer' = drawer /\ copies' = copies
  BY DEF Hide, shown
<1>2. Hidden(g) \in LayoutsOf(Made)
  BY HiddenIs
<1>. QED
  BY <1>1, <1>2, EditKeeps

RestoredOrder(g, place) == InsertAt(Without(cards, {g}), place + 1, g)

Restored(g, place) ==
  HiddenChanged(layout, layout.hiddenDefault \ {g}, layout.hiddenCustom \ {g},
                RestoredOrder(g, place))

(* Restoring makes what is on the dashboard the order, with the graph put  *)
(* in.                                                                     *)
LEMMA RestoredIs ==
  ASSUME TypeOK, NEW g \in drawer, NEW place \in 0..Len(Without(cards, {g}))
  PROVE  /\ RestoredOrder(g, place) \in Rows(Made)
         /\ Range(RestoredOrder(g, place)) = Range(cards) \cup {g}
         /\ \A x, y : x # g /\ y # g =>
              (Before(RestoredOrder(g, place), x, y) <=> Before(cards, x, y))
         /\ Restored(g, place) \in LayoutsOf(Made)
         /\ Restored(g, place).order = RestoredOrder(g, place)
         /\ Restored(g, place).hiddenDefault = layout.hiddenDefault \ {g}
         /\ Restored(g, place).hiddenCustom = layout.hiddenCustom \ {g}
         /\ Restored(g, place).customs = layout.customs
<1> DEFINE w == Without(cards, {g})
           r == RestoredOrder(g, place)
<1>1. /\ cards \in Rows(Made) /\ g \in Made /\ layout \in LayoutsOf(Made)
      /\ layout.hiddenDefault \ {g} \in SUBSET Builtins
      /\ layout.hiddenCustom \ {g} \in SUBSET Customs
  BY LayoutHere
<1>2. /\ w \in Rows(Made) /\ Range(w) = Range(cards) \ {g}
      /\ \A x, y : Before(w, x, y) <=> Before(cards, x, y) /\ x \notin {g} /\ y \notin {g}
  BY <1>1, WithoutOfRow
<1>3. r = InsertAt(w, place + 1, g) /\ place \in 0..Len(w)
  BY DEF RestoredOrder
<1> HIDE DEF w, r
<1>4. place + 1 \in 1..(Len(w) + 1)
  <2>1. Len(w) \in Nat
    BY <1>2, LenProperties DEF Rows
  <2>. QED
    BY <1>3, <2>1
<1>5. g \notin Range(w)
  BY <1>2
<1>6. /\ r \in Rows(Made) /\ Range(r) = Range(w) \cup {g}
      /\ \A x, y : x # g /\ y # g => (Before(r, x, y) <=> Before(w, x, y))
  BY <1>1, <1>2, <1>3, <1>4, <1>5, InsertIntoRow
<1>7. /\ Range(r) = Range(cards) \cup {g}
      /\ \A x, y : x # g /\ y # g => (Before(r, x, y) <=> Before(cards, x, y))
  BY <1>2, <1>6
<1>8. /\ Restored(g, place) \in LayoutsOf(Made)
      /\ Restored(g, place).order = r
      /\ Restored(g, place).hiddenDefault = layout.hiddenDefault \ {g}
      /\ Restored(g, place).hiddenCustom = layout.hiddenCustom \ {g}
      /\ Restored(g, place).customs = layout.customs
  BY <1>1, <1>6, HiddenChangedIs DEF Restored, r
<1>. QED
  BY <1>6, <1>7, <1>8 DEF r

(* Restoring keeps the invariant.                                          *)
LEMMA RestoreKeeps ==
  ASSUME TypeOK, SavedInFile, NEW g, NEW place \in Nat, Restore(g, place)
  PROVE  TypeOK' /\ SavedInFile' /\ PageShowsLayout'
<1>1. /\ g \in drawer /\ place \in 0..Len(Without(cards, {g}))
      /\ cards' = cards /\ drawer' = drawer /\ copies' = copies
  BY DEF Restore, shown
<1>2. Save(Restored(g, place), TRUE)
  BY DEF Restore, Restored, RestoredOrder, HiddenChanged
<1>3. Restored(g, place) \in LayoutsOf(Made)
  BY <1>1, RestoredIs
<1>. QED
  BY <1>1, <1>2, <1>3, EditKeeps

(* Deleted.                                                                *)
Deleted(g) ==
  CustomChanged(layout, Only(layout.customs, Others(g)), layout.hiddenCustom \ {g},
                Without(layout.order, {g}))

(* The other custom graphs stay listed as they were.                       *)
LEMMA OthersAreRow ==
  ASSUME TypeOK, NEW g
  PROVE  /\ Only(layout.customs, Others(g)) \in Rows(Items(Made))
         /\ Range(Only(layout.customs, Others(g))) = Others(g)
         /\ \A a, b \in Others(g) : a.id = b.id => a = b
         /\ \A c, d : Before(Only(layout.customs, Others(g)), c, d) <=>
              Before(layout.customs, c, d) /\ c \in Others(g) /\ d \in Others(g)
<1>1. /\ layout.customs \in Rows(Items(Made))
      /\ \A c, d \in Range(layout.customs) : c.id = d.id => c = d
  BY LayoutHere
<1>2. Others(g) \subseteq Range(layout.customs)
  BY DEF Others
<1>3. /\ Only(layout.customs, Others(g)) \in Rows(Items(Made))
      /\ Range(Only(layout.customs, Others(g))) = Range(layout.customs) \cap Others(g)
      /\ \A c, d : Before(Only(layout.customs, Others(g)), c, d) <=>
           Before(layout.customs, c, d) /\ c \in Others(g) /\ d \in Others(g)
  BY <1>1, OnlyOfRow
<1>. QED
  BY <1>1, <1>2, <1>3

(* Deleting takes a custom graph out of the layout.                        *)
LEMMA DeletedIs ==
  ASSUME TypeOK, NEW g
  PROVE  /\ Deleted(g) \in LayoutsOf(Made)
         /\ Deleted(g).order = Without(layout.order, {g})
         /\ Deleted(g).hiddenDefault = layout.hiddenDefault
         /\ Deleted(g).hiddenCustom = layout.hiddenCustom \ {g}
         /\ Deleted(g).customs = Only(layout.customs, Others(g))
<1> DEFINE cs == Only(layout.customs, Others(g))
           c == layout.hiddenCustom \ {g}
           o == Without(layout.order, {g})
<1>1. layout \in LayoutsOf(Made)
  BY LayoutHere
<1>2. c \in SUBSET Customs
  BY LayoutHere
<1>3. o \in Rows(Made)
  BY LayoutHere, WithoutOfRow
<1>4. cs \in Rows(Items(Made))
  BY OthersAreRow
<1>5. \A a, b \in Range(cs) : a.id = b.id => a = b
  BY OthersAreRow
<1>6. Deleted(g) = CustomChanged(layout, cs, c, o)
  BY DEF Deleted
<1> HIDE DEF cs, c, o
<1>7. /\ CustomChanged(layout, cs, c, o) \in LayoutsOf(Made)
      /\ CustomChanged(layout, cs, c, o).order = o
      /\ CustomChanged(layout, cs, c, o).hiddenDefault = layout.hiddenDefault
      /\ CustomChanged(layout, cs, c, o).hiddenCustom = c
      /\ CustomChanged(layout, cs, c, o).customs = cs
  BY <1>1, <1>2, <1>3, <1>4, <1>5, CustomChangedIs
<1>. QED
  BY <1>6, <1>7 DEF cs, c, o

(* Deleting keeps the invariant.                                           *)
LEMMA DeleteKeeps ==
  ASSUME TypeOK, SavedInFile, NEW g, Delete(g)
  PROVE  TypeOK' /\ SavedInFile' /\ PageShowsLayout'
<1>1. cards' = cards /\ drawer' = drawer /\ copies' = copies
  BY DEF Delete, shown
<1>2. Save(Deleted(g), TRUE)
  BY DEF Delete, Deleted, CustomChanged
<1>3. Deleted(g) \in LayoutsOf(Made)
  BY DeletedIs
<1>. QED
  BY <1>1, <1>2, <1>3, EditKeeps

(* A save of the layout as it is keeps the invariant.                      *)
LEMMA ToggleKeeps ==
  ASSUME TypeOK, SavedInFile, Toggle
  PROVE  TypeOK' /\ SavedInFile' /\ PageShowsLayout'
<1>1. Save(layout, TRUE) /\ cards' = cards /\ drawer' = drawer /\ copies' = copies
  BY DEF Toggle, shown
<1>2. layout \in LayoutsOf(Made)
  BY LayoutHere
<1>. QED
  BY <1>1, <1>2, EditKeeps

(* A copy, made in the place of what it is a copy of.                      *)
MadeNext == Made \cup {NextCopy}

(* The next custom graph is none of those that were made.                  *)
LEMMA NextIsNew ==
  ASSUME TypeOK, copies < MaxCopies
  PROVE  /\ NextCopy \notin Made /\ NextCopy \notin Builtins /\ NextCopy \in Customs
         /\ Made \subseteq MadeNext /\ Builtins \subseteq MadeNext
         /\ layout \in LayoutsOf(MadeNext)
         /\ layout.order \in Rows(MadeNext) /\ NextCopy \notin Range(layout.order)
         /\ layout.customs \in Rows(Items(MadeNext))
         /\ \A c \in Range(layout.customs) : c.id # NextCopy
<1>1. copies \in Int /\ copies >= 0 /\ NumBuiltins \in Int /\ NumBuiltins >= 1 /\ MaxCopies \in Int
  BY DashboardConstants DEF TypeOK
<1>2. NextCopy = NumBuiltins + copies + 1 /\ NextCopy \in Int
  BY <1>1 DEF NextCopy
<1>3. NextCopy \notin Builtins /\ NextCopy \in Customs
  BY <1>1, <1>2 DEF Builtins, Customs
<1>4. NextCopy \notin (NumBuiltins + 1)..(NumBuiltins + copies)
  BY <1>1, <1>2
<1>5. NextCopy \notin Made /\ Made \subseteq MadeNext /\ Builtins \subseteq MadeNext
  BY <1>3, <1>4 DEF Made, MadeNext
<1>6. layout \in LayoutsOf(MadeNext)
  BY <1>5, LayoutHere, LayoutsOfMore
<1>7. layout.order \in Rows(MadeNext) /\ layout.customs \in Rows(Items(MadeNext))
  BY <1>6, LayoutParts
<1>8. NextCopy \notin Range(layout.order)
  BY <1>5, LayoutHere, RangeOfRow
<1>9. \A c \in Range(layout.customs) : c.id # NextCopy
  BY <1>5, LayoutHere DEF Items
<1>. QED
  BY <1>3, <1>5, <1>6, <1>7, <1>8, <1>9

(* Once it is made it is one of them.                                      *)
LEMMA MadeIsNext ==
  ASSUME TypeOK, copies' = copies + 1
  PROVE  Made' = MadeNext
<1>1. copies \in Int /\ copies >= 0 /\ NumBuiltins \in Int
  BY DashboardConstants DEF TypeOK
<1>2. PICK n, c \in Int : n = NumBuiltins /\ c = copies /\ c >= 0
  BY <1>1
<1>3. (n + 1)..(n + (c + 1)) = (n + 1)..(n + c) \cup {n + c + 1}
  <2>1. \A x : x \in (n + 1)..(n + (c + 1)) <=> x \in (n + 1)..(n + c) \/ x = n + c + 1
    BY <1>2
  <2>. QED
    BY <2>1
<1>. QED
  BY <1>2, <1>3 DEF Made, MadeNext, NextCopy

(* An edit that makes a graph.                                             *)
LEMMA MakingKeeps ==
  ASSUME TypeOK, SavedInFile, copies < MaxCopies, NEW l, l \in LayoutsOf(MadeNext),
         Save(l, TRUE), cards' = cards, drawer' = drawer, copies' = copies + 1
  PROVE  TypeOK' /\ SavedInFile' /\ PageShowsLayout'
<1>1. copies \in 0..MaxCopies /\ copies' \in 0..MaxCopies /\ copies <= copies'
  BY DashboardConstants DEF TypeOK
<1>2. \A s \in Rows(Made) : s \in Rows(Made')
  BY <1>1, MadeGrows
<1>3. l \in Layouts'
  <2>1. Made' = MadeNext
    BY MadeIsNext
  <2>2. PICK N : N = MadeNext
    OBVIOUS
  <2>3. l \in LayoutsOf(N) /\ N = Made'
    BY <2>1, <2>2
  <2>. QED
    BY <2>3 DEF Layouts, LayoutsOf, Items, Rows
<1>4. cards' \in Rows(Made')
  BY <1>2, LayoutHere
<1>. QED
  BY <1>1, <1>3, <1>4, SaveKeeps

(* A row with one of its elements replaced.                                *)
Replaced(s, g, n) == [k \in DOMAIN s |-> IF s[k] = g THEN n ELSE s[k]]

(* The new one stands where the old one stood, and the others where they   *)
(* were.                                                                   *)
LEMMA ReplacedInRow ==
  ASSUME NEW T, NEW s \in Rows(T), NEW g, NEW n \in T, n \notin Range(s)
  PROVE  /\ Replaced(s, g, n) \in Rows(T)
         /\ \A x : x # g /\ x # n => (x \in Range(Replaced(s, g, n)) <=> x \in Range(s))
         /\ g # n => g \notin Range(Replaced(s, g, n))
         /\ \A x, y : x # g /\ x # n /\ y # g /\ y # n =>
              (Before(Replaced(s, g, n), x, y) <=> Before(s, x, y))
<1> DEFINE r == Replaced(s, g, n)
<1>1. s \in Seq(T) /\ DOMAIN s = 1..Len(s) /\ Len(s) \in Nat
      /\ \A k \in 1..Len(s) : s[k] \in T
  BY LenProperties, ElementOfSeq DEF Rows
<1>2. /\ \A i, j \in 1..Len(s) : s[i] = s[j] => i = j
      /\ \A i \in 1..Len(s) : s[i] # n
  BY <1>1 DEF Rows, IsInjective, Range
<1>3. /\ DOMAIN r = 1..Len(s)
      /\ \A k \in 1..Len(s) : s[k] = g => r[k] = n
      /\ \A k \in 1..Len(s) : s[k] # g => r[k] = s[k]
      /\ r = [k \in 1..Len(s) |-> r[k]]
  BY <1>1 DEF Replaced
<1> HIDE DEF r
<1>4. r \in Seq(T)
  <2>1. \A k \in 1..Len(s) : r[k] \in T
    BY <1>1, <1>3
  <2>2. r \in [1..Len(s) -> T]
    BY <1>3, <2>1
  <2>. QED
    BY <1>1, <2>2
<1>5. \A i, j \in 1..Len(s) : r[i] = r[j] => i = j
  BY <1>2, <1>3
<1>6. r \in Rows(T)
  BY <1>3, <1>4, <1>5 DEF Rows, IsInjective
<1>7. \A x : x # g /\ x # n => (x \in Range(r) <=> x \in Range(s))
  BY <1>1, <1>3 DEF Range
<1>8. g # n => g \notin Range(r)
  BY <1>1, <1>3 DEF Range
<1>9. ASSUME NEW x, NEW y, x # g, x # n, y # g, y # n PROVE Before(r, x, y) <=> Before(s, x, y)
  <2>1. \A k \in 1..Len(s) : (r[k] = x <=> s[k] = x) /\ (r[k] = y <=> s[k] = y)
    BY <1>3, <1>9
  <2>. QED
    BY <1>1, <1>3, <2>1 DEF Before
<1>. QED
  BY <1>6, <1>7, <1>8, <1>9 DEF r

Copied(g) ==
  CopyChanged(layout, Append(layout.customs, [id |-> NextCopy, source |-> g]),
              layout.hiddenDefault \cup {g}, Replaced(layout.order, g, NextCopy))

(* A copy is listed last, takes the place of its source in the order, and  *)
(* hides it.                                                               *)
LEMMA CopiedIs ==
  ASSUME TypeOK, copies < MaxCopies, NEW g \in Builtins
  PROVE  /\ Copied(g) \in LayoutsOf(MadeNext)
         /\ Copied(g).order = Replaced(layout.order, g, NextCopy)
         /\ Copied(g).hiddenDefault = layout.hiddenDefault \cup {g}
         /\ Copied(g).hiddenCustom = layout.hiddenCustom
         /\ Copied(g).customs = Append(layout.customs, [id |-> NextCopy, source |-> g])
         /\ Range(Copied(g).customs) =
              Range(layout.customs) \cup {[id |-> NextCopy, source |-> g]}
         /\ \A c, d : Before(Copied(g).customs, c, d) <=>
              \/ Before(layout.customs, c, d)
              \/ c \in Range(layout.customs) /\ d = [id |-> NextCopy, source |-> g]
<1> DEFINE n == [id |-> NextCopy, source |-> g]
           cs == Append(layout.customs, n)
           h == layout.hiddenDefault \cup {g}
           o == Replaced(layout.order, g, NextCopy)
<1>1. layout \in LayoutsOf(MadeNext) /\ layout.customs \in Rows(Items(MadeNext))
  BY NextIsNew
<1>2. h \in SUBSET Builtins
  BY LayoutHere
<1>3. o \in Rows(MadeNext)
  <2>1. NextCopy \in MadeNext
    BY DEF MadeNext
  <2>2. layout.order \in Rows(MadeNext) /\ NextCopy \notin Range(layout.order)
    BY NextIsNew
  <2>. QED
    BY <2>1, <2>2, ReplacedInRow
<1>4. n \in Items(MadeNext) /\ n \notin Range(layout.customs) /\ n.id = NextCopy
  <2>1. NextCopy \notin Builtins /\ \A c \in Range(layout.customs) : c.id # NextCopy
    BY NextIsNew
  <2>. QED
    BY <2>1 DEF MadeNext, Items
<1>5. /\ cs \in Rows(Items(MadeNext)) /\ Range(cs) = Range(layout.customs) \cup {n}
      /\ \A c, d : Before(cs, c, d) <=>
           Before(layout.customs, c, d) \/ (c \in Range(layout.customs) /\ d = n)
  <2> HIDE DEF n
  <2>. QED
    BY <1>1, <1>4, AppendToRow
<1>6. \A a, b \in Range(cs) : a.id = b.id => a = b
  <2>1. \A c \in Range(layout.customs) : c.id # NextCopy
    BY NextIsNew
  <2>2. \A a, b \in Range(layout.customs) : a.id = b.id => a = b
    BY LayoutHere
  <2> HIDE DEF n, cs
  <2>. QED
    BY <1>4, <1>5, <2>1, <2>2
<1>7. Copied(g) = CopyChanged(layout, cs, h, o)
  BY DEF Copied
<1> HIDE DEF n, cs, h, o
<1>8. /\ CopyChanged(layout, cs, h, o) \in LayoutsOf(MadeNext)
      /\ CopyChanged(layout, cs, h, o).order = o
      /\ CopyChanged(layout, cs, h, o).hiddenDefault = h
      /\ CopyChanged(layout, cs, h, o).hiddenCustom = layout.hiddenCustom
      /\ CopyChanged(layout, cs, h, o).customs = cs
  BY <1>1, <1>2, <1>3, <1>5, <1>6, CopyChangedIs
<1>9. /\ Range(Copied(g).customs) = Range(layout.customs) \cup {n}
      /\ \A c, d : Before(Copied(g).customs, c, d) <=>
           Before(layout.customs, c, d) \/ (c \in Range(layout.customs) /\ d = n)
  BY <1>5, <1>7, <1>8
<1>. QED
  BY <1>7, <1>8, <1>9 DEF n, cs, h, o

(* Making a copy keeps the invariant.                                      *)
LEMMA CustomizeKeeps ==
  ASSUME TypeOK, SavedInFile, NEW g, Customize(g)
  PROVE  TypeOK' /\ SavedInFile' /\ PageShowsLayout'
<1>1. /\ g \in Builtins /\ copies < MaxCopies
      /\ cards' = cards /\ drawer' = drawer /\ copies' = copies + 1
  BY DEF Customize, shown
<1>2. Save(Copied(g), TRUE)
  BY DEF Customize, Copied, CopyChanged, Replaced
<1>3. Copied(g) \in LayoutsOf(MadeNext)
  BY <1>1, CopiedIs
<1>. QED
  BY <1>1, <1>2, <1>3, MakingKeeps

(* A custom graph from the dialog.                                         *)
LEMMA WithCustomIs ==
  ASSUME TypeOK, NEW N, Made \subseteq N, NEW item \in Items(N)
  PROVE  WithCustom(item) \in LayoutsOf(N)
<1> DEFINE os == Only(layout.customs, Others(item.id))
           cs == Append(os, item)
           c == layout.hiddenCustom \ {item.id}
           o == Ordered(item.id)
<1>1. layout \in LayoutsOf(N)
  BY LayoutHere, LayoutsOfMore
<1>2. c \in SUBSET Customs
  BY LayoutHere
<1>3. o \in Rows(N)
  <2>1. layout.order \in Rows(N) /\ item.id \in N
    BY <1>1, LayoutParts DEF Items
  <2>2. CASE item.id \in Range(layout.order)
    BY <2>1, <2>2 DEF Ordered
  <2>3. CASE item.id \notin Range(layout.order)
    <3>1. Append(layout.order, item.id) \in Rows(N)
      BY <2>1, <2>3, AppendToRow
    <3>. QED
      BY <2>3, <3>1 DEF Ordered
  <2>. QED
    BY <2>2, <2>3
<1>4. /\ os \in Rows(Items(Made)) /\ Range(os) = Others(item.id)
      /\ \A a, b \in Others(item.id) : a.id = b.id => a = b
  BY OthersAreRow
<1>5. os \in Rows(Items(N))
  <2>1. \A a \in Range(os) : a \in Items(N)
    <3>1. \A a \in Items(Made) : a \in Items(N)
      BY DEF Items
    <3> HIDE DEF os
    <3>2. Range(os) \subseteq Items(Made)
      BY <1>4, RangeOfRow
    <3>. QED
      BY <3>1, <3>2
  <2> HIDE DEF os
  <2>. QED
    BY <1>4, <2>1, RowsOfMore
<1>6. item \notin Range(os) /\ \A a \in Range(os) : a.id # item.id
  BY <1>4 DEF Others
<1> HIDE DEF os
<1>7. /\ cs \in Rows(Items(N)) /\ Range(cs) = Range(os) \cup {item}
  BY <1>5, <1>6, AppendToRow
<1>8. \A a, b \in Range(cs) : a.id = b.id => a = b
  <2> HIDE DEF cs
  <2>. QED
    BY <1>4, <1>6, <1>7
<1>9. WithCustom(item) = CustomChanged(layout, cs, c, o)
  BY DEF WithCustom, CustomChanged, os
<1> HIDE DEF cs, c, o
<1>. QED
  BY <1>1, <1>2, <1>3, <1>7, <1>8, <1>9, CustomChangedIs

(* Changing a custom graph keeps the invariant.                            *)
LEMMA EditCustomKeeps ==
  ASSUME TypeOK, SavedInFile, NEW item \in Range(layout.customs), EditCustom(item)
  PROVE  TypeOK' /\ SavedInFile' /\ PageShowsLayout'
<1>1. /\ Save(WithCustom(item), TRUE)
      /\ cards' = cards /\ drawer' = drawer /\ copies' = copies
  BY DEF EditCustom, shown
<1>2. item \in Items(Made)
  BY LayoutHere
<1>3. WithCustom(item) \in LayoutsOf(Made)
  BY <1>2, WithCustomIs
<1>. QED
  BY <1>1, <1>3, EditKeeps

(* Adding a custom graph keeps the invariant.                              *)
LEMMA AddCustomKeeps ==
  ASSUME TypeOK, SavedInFile, AddCustom
  PROVE  TypeOK' /\ SavedInFile' /\ PageShowsLayout'
<1> DEFINE item == [id |-> NextCopy, source |-> NoSource]
<1>1. /\ copies < MaxCopies /\ Save(WithCustom(item), TRUE)
      /\ cards' = cards /\ drawer' = drawer /\ copies' = copies + 1
  BY DEF AddCustom, shown
<1>2. Made \subseteq MadeNext
  BY <1>1, NextIsNew
<1>3. item \in Items(MadeNext)
  <2>1. NextCopy \notin Builtins
    BY <1>1, NextIsNew
  <2>. QED
    BY <2>1 DEF Items, MadeNext
<1> HIDE DEF item
<1>4. WithCustom(item) \in LayoutsOf(MadeNext)
  BY <1>2, <1>3, WithCustomIs
<1>. QED
  BY <1>1, <1>4, MakingKeeps

(* What is rendered of a layout.                                           *)
LEMMA RenderedIsTyped ==
  ASSUME TypeOK, NEW l \in Layouts, NEW cat \in SUBSET Builtins
  PROVE  /\ AllGraphs(l, cat) \in Rows(Made)
         /\ Unused(l, cat) \subseteq Made
         /\ Without(AllGraphs(l, cat), Builtins \ cat) = AllGraphs(l, cat)
         /\ Unused(l, cat) \ (Builtins \ cat) = Unused(l, cat)
<1>1. l \in LayoutsOf(Made) /\ Builtins \subseteq Made
  BY LayoutHere DEF Layouts
<1>2. AllGraphs(l, cat) \in Rows(Made)
  BY <1>1, ShownIsRow
<1>3. Range(IdsOf(l.customs)) \subseteq Made
  <2>1. IdsOf(l.customs) \in Rows(Made \ Builtins)
    BY <1>1, LayoutParts
  <2>2. Range(IdsOf(l.customs)) \subseteq Made \ Builtins
    BY <2>1, RangeOfRow
  <2>. QED
    BY <2>2
<1>4. /\ Without(AllGraphs(l, cat), Builtins \ cat) = AllGraphs(l, cat)
      /\ Unused(l, cat) \ (Builtins \ cat) = Unused(l, cat)
  BY <1>1, NoneForgotten
<1>5. Unused(l, cat) \subseteq Made
  BY <1>1, <1>3 DEF Unused
<1>. QED
  BY <1>2, <1>4, <1>5

(* A row is as long as it has elements.                                    *)
LEMMA LenOfRow ==
  ASSUME NEW T, NEW s \in Rows(T)
  PROVE  IsFiniteSet(Range(s)) /\ Cardinality(Range(s)) = Len(s)
<1>1. s \in Seq(T) /\ DOMAIN s = 1..Len(s) /\ Len(s) \in Nat /\ IsInjective(s)
  BY LenProperties DEF Rows
<1>2. s = [i \in 1..Len(s) |-> s[i]]
  BY <1>1
<1>3. \A x : x \in Range(s) <=> \E i \in 1..Len(s) : s[i] = x
  BY <1>1 DEF Range
<1>4. s \in [1..Len(s) -> Range(s)]
  BY <1>2, <1>3
<1>5. \A i, j \in 1..Len(s) : s[i] = s[j] => i = j
  BY <1>1 DEF IsInjective
<1>6. s \in Bijection(1..Len(s), Range(s))
  BY <1>3, <1>4, <1>5 DEF Bijection, Injection, Surjection, IsInjective
<1>7. IsFiniteSet(1..Len(s)) /\ Cardinality(1..Len(s)) = Len(s)
  <2>1. (Len(s) + 1) - 1 = Len(s) /\ Len(s) + 1 \in Nat \ {0}
    BY <1>1
  <2>. QED
    BY <2>1, UpToBefore
<1>8. ExistsBijection(1..Len(s), Range(s))
  BY <1>6 DEF ExistsBijection
<1>. QED
  BY <1>7, <1>8, FS_Bijection

(* Without one of its elements it is one shorter.                          *)
LEMMA LenWithoutOne ==
  ASSUME NEW T, NEW s \in Rows(T), NEW g, g \in Range(s)
  PROVE  Len(s) = Len(Without(s, {g})) + 1
<1> DEFINE w == Without(s, {g})
<1>1. w \in Rows(T) /\ Range(w) = Range(s) \ {g}
  BY WithoutOfRow
<1> HIDE DEF w
<1>2. /\ IsFiniteSet(Range(s)) /\ Cardinality(Range(s)) = Len(s)
      /\ Cardinality(Range(w)) = Len(w)
  BY <1>1, LenOfRow
<1>3. Cardinality(Range(s) \ {g}) = Cardinality(Range(s)) - 1
  BY <1>2, FS_RemoveElement
<1>4. Len(s) \in Nat
  BY LenProperties DEF Rows
<1>5. Len(w) = Len(s) - 1
  BY <1>1, <1>2, <1>3
<1>6. Len(s) = Len(w) + 1
  BY <1>4, <1>5
<1>. QED
  BY <1>6 DEF w

(* A drag: the dashboard is not rendered, yet shows what its order says.   *)
LEMMA ReorderKeeps ==
  ASSUME IInv, NEW g, NEW place, Reorder(g, place)
  PROVE  IInv'
<1> DEFINE w == Without(cards, {g})
           l == [layout EXCEPT !.order = cards']
<1>1. /\ g \in Range(cards) /\ place \in 1..Len(cards) /\ cards' = InsertAt(w, place, g)
      /\ Save(l, FALSE) /\ drawer' = drawer /\ copies' = copies
  BY DEF Reorder
<1>2. TypeOK /\ SavedInFile /\ PageShowsLayout
  BY DEF IInv
<1>3. /\ cards \in Rows(Made) /\ g \in Made
  BY <1>1, <1>2, LayoutHere, RangeOfRow
<1>4. /\ w \in Rows(Made) /\ Range(w) = Range(cards) \ {g}
  BY <1>3, WithoutOfRow
<1> HIDE DEF w, l
<1>5. place \in 1..(Len(w) + 1)
  <2>1. cards \in Seq(Made) /\ w \in Seq(Made)
    BY <1>3, <1>4 DEF Rows
  <2>2. Len(cards) = Len(w) + 1
    BY <1>1, <1>3, LenWithoutOne DEF w
  <2>3. Len(w) \in Nat /\ Len(cards) \in Nat
    BY <2>1, LenProperties
  <2>. QED
    BY <1>1, <2>2, <2>3
<1>6. g \notin Range(w)
  BY <1>4
<1>7. cards' \in Rows(Made) /\ Range(cards') = Range(cards)
  <2>1. /\ InsertAt(w, place, g) \in Rows(Made)
        /\ Range(InsertAt(w, place, g)) = Range(w) \cup {g}
    BY <1>3, <1>4, <1>5, <1>6, InsertIntoRow
  <2>2. Range(InsertAt(w, place, g)) = Range(cards)
    BY <1>1, <1>4, <2>1
  <2>. QED
    BY <1>1, <2>1, <2>2
<1>8. copies \in 0..MaxCopies /\ copies' \in 0..MaxCopies /\ copies <= copies'
  BY <1>1, <1>2 DEF TypeOK
<1>9. /\ \A m \in Layouts : m \in Layouts'
      /\ \A s \in Rows(Made) : s \in Rows(Made')
  BY <1>8, MadeGrows
<1>10. l \in Layouts
  <2>1. layout \in LayoutsOf(Made)
    BY <1>2, LayoutHere
  <2>2. PICK r \in Rows(Made) : r = cards'
    BY <1>7
  <2>3. l = [layout EXCEPT !.order = r]
    BY <2>2 DEF l
  <2>. QED
    BY <2>1, <2>3 DEF Layouts, LayoutsOf
<1>11. /\ TypeOK' /\ SavedInFile'
       /\ layout' = l /\ page' = page /\ catalog' = catalog /\ stale' = stale
       /\ saves \subseteq saves'
  BY <1>1, <1>2, <1>7, <1>8, <1>9, <1>10, SaveKeeps
<1>12. PageShowsLayout'
  <2> DEFINE F == Builtins \ catalog
  <2>1. SUFFICES ASSUME page' = "up", ~stale', ~(\E s \in saves' : s.mine /\ s.then)
                 PROVE  /\ Without(cards', Forgotten') = AllGraphs(layout', catalog')
                        /\ drawer' \ Forgotten' = Unused(layout', catalog')
    BY DEF PageShowsLayout
  <2>2. Forgotten = F /\ Forgotten' = F
    BY <1>11 DEF Forgotten, Builtins
  <2> HIDE DEF F
  <2>3. /\ Without(cards, F) = AllGraphs(layout, catalog)
        /\ drawer \ F = Unused(layout, catalog)
    BY <1>1, <1>2, <1>11, <2>1, <2>2 DEF PageShowsLayout
  <2>4. /\ layout \in LayoutsOf(Made) /\ Builtins \subseteq Made /\ catalog \subseteq Builtins
    BY <1>2, LayoutHere
  <2>5. Range(cards) \ F = KnownSet(layout, catalog)
    BY <1>3, <2>3, <2>4, ShownIsRow, WithoutOfRow
  <2>6. PICK r \in Rows(Made) : r = cards' /\ Range(r) \ F = KnownSet(layout, catalog)
    BY <1>7, <2>5
  <2>7. l = [layout EXCEPT !.order = r]
    BY <2>6 DEF l
  <2>8. F \cap catalog = {}
    BY DEF F
  <2>9. AllGraphs(l, catalog) = Without(r, F) /\ KnownSet(l, catalog) = KnownSet(layout, catalog)
        /\ l \in LayoutsOf(Made)
    BY <2>4, <2>6, <2>7, <2>8, ArrangedIsShown
  <2>10. l.customs = layout.customs
    BY <2>4, <2>7 DEF LayoutsOf
  <2>11. Range(AllGraphs(l, catalog)) = Range(AllGraphs(layout, catalog))
    BY <2>4, <2>9, ShownIsRow
  <2>12. Unused(l, catalog) = Unused(layout, catalog)
    BY <2>10, <2>11 DEF Unused
  <2>13. AllGraphs(layout', catalog') = AllGraphs(l, catalog)
         /\ Unused(layout', catalog') = Unused(l, catalog)
    BY <1>11
  <2>. QED
    BY <1>1, <2>2, <2>3, <2>6, <2>9, <2>12, <2>13
<1>. QED
  BY <1>11, <1>12 DEF IInv

(* When no graph is made the layouts are the same.                         *)
LEMMA SameMade ==
  ASSUME copies' = copies
  PROVE  Made' = Made /\ Layouts' = Layouts
BY DEF Made, Layouts, LayoutsOf, Items, Rows

(* What the daemon normalises stays a layout, and shows the same.          *)
LEMMA NormalizeKeeps ==
  ASSUME TypeOK, NEW l \in Layouts
  PROVE  /\ Normalize(l) \in Layouts
         /\ Alike(Normalize(l), l) /\ Alike(Normalize(Normalize(l)), l)
<1>1. l \in LayoutsOf(Made)
  BY DEF Layouts
<1>2. \A c \in Range(l.customs) : c.source \in Builtins \cup {NoSource}
  BY <1>1, LayoutParts DEF Items
<1>3. Customized(l) \subseteq Builtins
  BY <1>2 DEF Customized
<1>4. l.hiddenDefault \subseteq Builtins
  BY <1>1, LayoutParts
<1>5. /\ Normalize(l) \in LayoutsOf(Made)
      /\ Normalize(l).hiddenDefault = l.hiddenDefault \cup Customized(l)
      /\ Normalize(l).order = l.order /\ Normalize(l).customs = l.customs
      /\ Normalize(l).hiddenCustom = l.hiddenCustom
  BY <1>1, <1>3, <1>4 DEF Normalize, LayoutsOf
<1>6. Customized(Normalize(l)) = Customized(l)
  BY <1>5 DEF Customized
<1>7. Alike(Normalize(l), l)
  BY <1>5, <1>6 DEF Alike
<1> DEFINE m == Normalize(l)
<1>8. /\ Normalize(m).hiddenDefault = m.hiddenDefault \cup Customized(m)
      /\ Normalize(m).order = m.order /\ Normalize(m).customs = m.customs
      /\ Normalize(m).hiddenCustom = m.hiddenCustom
  <2> HIDE DEF m
  <2>1. m \in LayoutsOf(Made)
    BY <1>5 DEF m
  <2>. QED
    BY <2>1 DEF Normalize, LayoutsOf
<1>9. Customized(Normalize(m)) = Customized(m)
  BY <1>8 DEF Customized
<1>10. Alike(Normalize(m), l)
  BY <1>5, <1>6, <1>8, <1>9 DEF Alike
<1>. QED
  BY <1>5, <1>7, <1>10 DEF Layouts

(* The layout of a daemon without a file is one.                           *)
LEMMA DefaultIsLayout ==
  DefaultLayout \in Layouts
<1>1. [b \in Builtins |-> b] \in Rows(Made)
  <2>1. Builtins \subseteq Made
    BY DEF Made
  <2>. QED
    BY <2>1, BuiltinsAreRow, RowsOfMore
<1>2. <<>> \in Seq(Items(Made)) /\ IsInjective(IdsOf(<<>>))
  BY DEF IdsOf, IsInjective
<1>. QED
  BY <1>1, <1>2 DEF Layouts, LayoutsOf, DefaultLayout

(* What the daemon loads is a layout.                                      *)
LEMMA LoadedIsLayout ==
  ASSUME TypeOK
  PROVE  Loaded \in Layouts
<1>1. file.layout \in Layouts
  BY DEF TypeOK
<1>. QED
  BY <1>1, DefaultIsLayout, NormalizeKeeps DEF Loaded

(* Opening the drawer keeps the invariant.                                 *)
LEMMA OpenDrawerKeeps ==
  ASSUME IInv, OpenDrawer
  PROVE  IInv'
<1>1. TypeOK /\ SavedInFile /\ PageShowsLayout
  BY DEF IInv
<1>2. /\ page = "up" /\ drawer' = Unused(layout, catalog)
      /\ file' = file /\ saves' = saves /\ page' = page /\ catalog' = catalog
      /\ layout' = layout /\ cards' = cards /\ copies' = copies /\ edits' = edits
      /\ stale' = stale /\ calm' = calm
  BY DEF OpenDrawer, server
<1>3. /\ Unused(layout, catalog) \subseteq Made
      /\ Unused(layout, catalog) \ Forgotten = Unused(layout, catalog)
  BY <1>1, RenderedIsTyped DEF TypeOK, Forgotten
<1>4. Made' = Made /\ Layouts' = Layouts
  BY <1>2, SameMade
<1>5. TypeOK'
  BY <1>1, <1>2, <1>3, <1>4 DEF TypeOK
<1>6. SavedInFile'
  <2>1. Loaded' = Loaded
    BY <1>2 DEF Loaded
  <2>. QED
    BY <1>1, <1>2, <2>1 DEF SavedInFile, Readable
<1>7. PageShowsLayout'
  BY <1>1, <1>2, <1>3 DEF PageShowsLayout, Forgotten
<1>. QED
  BY <1>5, <1>6, <1>7 DEF IInv

(* A step of the daemon.                                                   *)
LEMMA TruncateKeeps ==
  ASSUME IInv, NEW s \in saves, Truncate(s)
  PROVE  IInv'
<1>1. TypeOK /\ SavedInFile /\ PageShowsLayout
  BY DEF IInv
<1> DEFINE t == [s EXCEPT !.phase = "writing"]
<1>2. /\ file' = Broken("empty") /\ saves' = (saves \ {s}) \cup {t}
      /\ page' = page /\ catalog' = catalog /\ layout' = layout
      /\ cards' = cards /\ drawer' = drawer /\ copies' = copies /\ edits' = edits
      /\ stale' = stale /\ calm' = calm
  BY DEF Truncate, Advance, shown
<1>3. s \in [n : 1..edits, body : Layouts, phase : {"sent", "writing", "answered"},
             then : BOOLEAN, mine : BOOLEAN]
  BY <1>1 DEF TypeOK
<1>4. /\ t \in [n : 1..edits, body : Layouts, phase : {"sent", "writing", "answered"},
                then : BOOLEAN, mine : BOOLEAN]
      /\ t.body = s.body /\ t.phase = "writing" /\ t.then = s.then /\ t.mine = s.mine
  BY <1>3
<1> HIDE DEF t
<1>5. Made' = Made /\ Layouts' = Layouts
  BY <1>2, SameMade
<1>6. /\ file' \in [kind : {"none", "empty", "mixed", "whole"}, layout : Layouts]
      /\ file'.kind = "empty"
  BY <1>2, DefaultIsLayout DEF Broken
<1>7. TypeOK'
  <2>1. saves' \subseteq [n : 1..edits, body : Layouts, phase : {"sent", "writing", "answered"},
                          then : BOOLEAN, mine : BOOLEAN]
    BY <1>1, <1>2, <1>4 DEF TypeOK
  <2>. QED
    BY <1>1, <1>2, <1>5, <1>6, <2>1 DEF TypeOK
<1>8. SavedInFile'
  <2>1. SUFFICES ASSUME calm', page' = "up"
                 PROVE  /\ saves' # {}
                        /\ \A x \in saves' : saves' = {x} /\ x.body = layout' /\ x.phase = "writing"
    BY <1>6 DEF SavedInFile
  <2>2. saves = {s} /\ s.body = layout
    BY <1>1, <1>2, <2>1 DEF SavedInFile
  <2>3. saves' = {t}
    BY <1>2, <2>2
  <2>. QED
    BY <1>2, <1>4, <2>2, <2>3
<1>9. PageShowsLayout'
  <2>1. (\E x \in saves : x.mine /\ x.then) => (\E x \in saves' : x.mine /\ x.then)
    BY <1>2, <1>4
  <2>. QED
    BY <1>1, <1>2, <2>1 DEF PageShowsLayout, Forgotten
<1>. QED
  BY <1>7, <1>8, <1>9 DEF IInv

(* The write keeps it: of a save that runs alone the file has the layout.  *)
LEMMA WriteKeeps ==
  ASSUME IInv, NEW s \in saves, Write(s)
  PROVE  IInv'
<1>1. TypeOK /\ SavedInFile /\ PageShowsLayout
  BY DEF IInv
<1> DEFINE t == [s EXCEPT !.phase = "answered"]
           whole == Whole(Normalize(s.body))
<1>2. /\ file' \in IF file.kind = "empty" \/ file = whole THEN {whole} ELSE {whole, Broken("mixed")}
      /\ s.phase = "writing" /\ saves' = (saves \ {s}) \cup {t}
      /\ page' = page /\ catalog' = catalog /\ layout' = layout
      /\ cards' = cards /\ drawer' = drawer /\ copies' = copies /\ edits' = edits
      /\ stale' = stale /\ calm' = calm
  BY DEF Write, Advance, shown
<1>3. s \in [n : 1..edits, body : Layouts, phase : {"sent", "writing", "answered"},
             then : BOOLEAN, mine : BOOLEAN]
  BY <1>1 DEF TypeOK
<1>4. /\ t \in [n : 1..edits, body : Layouts, phase : {"sent", "writing", "answered"},
                then : BOOLEAN, mine : BOOLEAN]
      /\ t.body = s.body /\ t.phase = "answered" /\ t.then = s.then /\ t.mine = s.mine
  BY <1>3
<1>5. Made' = Made /\ Layouts' = Layouts
  BY <1>2, SameMade
<1>6. file' \in [kind : {"none", "empty", "mixed", "whole"}, layout : Layouts]
  <2>1. Normalize(s.body) \in Layouts
    BY <1>1, <1>3, NormalizeKeeps
  <2>. QED
    BY <1>2, <2>1, DefaultIsLayout DEF Whole, Broken
<1> HIDE DEF t, whole
<1>7. TypeOK'
  <2>1. saves' \subseteq [n : 1..edits, body : Layouts, phase : {"sent", "writing", "answered"},
                          then : BOOLEAN, mine : BOOLEAN]
    BY <1>1, <1>2, <1>4 DEF TypeOK
  <2>. QED
    BY <1>1, <1>2, <1>5, <1>6, <2>1 DEF TypeOK
<1>8. SavedInFile'
  <2>1. SUFFICES ASSUME calm', page' = "up"
                 PROVE  /\ saves' # {}
                        /\ \A x \in saves' : /\ saves' = {x} /\ x.body = layout'
                                             /\ x.phase = "answered"
                        /\ file' = Whole(Normalize(layout'))
    BY DEF SavedInFile
  <2>2. saves = {s} /\ s.body = layout /\ file.kind = "empty"
    BY <1>1, <1>2, <2>1 DEF SavedInFile
  <2>3. saves' = {t}
    BY <1>2, <2>2
  <2>4. file' = Whole(Normalize(layout))
    BY <1>2, <2>2 DEF whole
  <2>. QED
    BY <1>2, <1>4, <2>2, <2>3, <2>4
<1>9. PageShowsLayout'
  <2>1. (\E x \in saves : x.mine /\ x.then) => (\E x \in saves' : x.mine /\ x.then)
    BY <1>2, <1>4
  <2>. QED
    BY <1>1, <1>2, <2>1 DEF PageShowsLayout, Forgotten
<1>. QED
  BY <1>7, <1>8, <1>9 DEF IInv

(* The answer keeps it: the page is rendered, and the file has the layout. *)
LEMMA AnsweredKeeps ==
  ASSUME IInv, NEW s \in saves, Answered(s)
  PROVE  IInv'
<1>1. TypeOK /\ SavedInFile /\ PageShowsLayout
  BY DEF IInv
<1>2. /\ s.phase = "answered" /\ saves' = saves \ {s}
      /\ file' = file /\ page' = page /\ catalog' = catalog /\ layout' = layout
      /\ copies' = copies /\ edits' = edits /\ calm' = calm
  BY DEF Answered, ThenRefresh, server
<1>3. \/ /\ s.then /\ s.mine /\ stale' = FALSE
         /\ cards' = AllGraphs(layout, catalog)
         /\ drawer' = IF AllGraphs(layout, catalog) = <<>> THEN drawer
                      ELSE Unused(layout, catalog)
      \/ /\ ~(s.then /\ s.mine)
         /\ cards' = cards /\ drawer' = drawer /\ stale' = stale
  BY DEF Answered, ThenRefresh, Render, shown
<1>4. Made' = Made /\ Layouts' = Layouts
  BY <1>2, SameMade
<1>5. TypeOK'
  <2>1. cards' \in Rows(Made) /\ drawer' \subseteq Made /\ stale' \in BOOLEAN
    BY <1>1, <1>3, RenderedIsTyped DEF TypeOK
  <2>. QED
    BY <1>1, <1>2, <1>4, <2>1 DEF TypeOK
<1>6. SavedInFile'
  <2>1. SUFFICES ASSUME calm', page' = "up"
                 PROVE  saves' = {} /\ Readable' /\ Alike(Loaded', layout')
    BY DEF SavedInFile
  <2>2. saves = {s} /\ file = Whole(Normalize(layout))
    BY <1>1, <1>2, <2>1 DEF SavedInFile
  <2>3. Loaded = Normalize(Normalize(layout)) /\ Readable
    BY <2>2 DEF Loaded, Readable, Whole
  <2>4. Alike(Loaded, layout)
    BY <1>1, <2>3, NormalizeKeeps DEF TypeOK
  <2>5. Loaded' = Loaded /\ Readable' = Readable
    BY <1>2 DEF Loaded, Readable
  <2>. QED
    BY <1>2, <2>2, <2>3, <2>4, <2>5
<1>7. PageShowsLayout'
  <2>1. CASE s.then /\ s.mine
    <3>1. /\ Without(AllGraphs(layout, catalog), Forgotten) = AllGraphs(layout, catalog)
          /\ Unused(layout, catalog) \ Forgotten = Unused(layout, catalog)
      BY <1>1, RenderedIsTyped DEF TypeOK, Forgotten
    <3>. QED
      BY <1>2, <1>3, <2>1, <3>1 DEF PageShowsLayout, Forgotten
  <2>2. CASE ~(s.then /\ s.mine)
    <3>1. (\E x \in saves : x.mine /\ x.then) => (\E x \in saves' : x.mine /\ x.then)
      BY <1>2, <2>2
    <3>. QED
      BY <1>1, <1>2, <1>3, <2>2, <3>1 DEF PageShowsLayout, Forgotten
  <2>. QED
    BY <2>1, <2>2
<1>. QED
  BY <1>5, <1>6, <1>7 DEF IInv

(* A save that fails is one that did not go well.                          *)
LEMMA SaveFailsKeeps ==
  ASSUME IInv, NEW s \in saves, SaveFails(s)
  PROVE  IInv'
<1>1. TypeOK /\ SavedInFile /\ PageShowsLayout
  BY DEF IInv
<1>2. /\ saves' = saves \ {s} /\ stale' = (stale \/ s.mine) /\ calm' = FALSE
      /\ file' = file /\ page' = page /\ catalog' = catalog /\ layout' = layout
      /\ cards' = cards /\ drawer' = drawer /\ copies' = copies /\ edits' = edits
  BY DEF SaveFails, server, shown
<1>3. Made' = Made /\ Layouts' = Layouts
  BY <1>2, SameMade
<1>4. stale' \in BOOLEAN
  BY <1>2
<1>5. TypeOK'
  BY <1>1, <1>2, <1>3, <1>4 DEF TypeOK
<1>6. SavedInFile'
  BY <1>2 DEF SavedInFile
<1>7. PageShowsLayout'
  <2>1. SUFFICES ASSUME page' = "up", ~stale', ~(\E x \in saves' : x.mine /\ x.then)
                 PROVE  /\ Without(cards', Forgotten') = AllGraphs(layout', catalog')
                        /\ cards' # <<>> => drawer' \ Forgotten' = Unused(layout', catalog')
    BY DEF PageShowsLayout
  <2>2. ~s.mine /\ ~stale
    BY <1>2, <2>1
  <2>3. ~(\E x \in saves : x.mine /\ x.then)
    BY <1>2, <2>1, <2>2
  <2>. QED
    BY <1>1, <1>2, <2>1, <2>2, <2>3 DEF PageShowsLayout, Forgotten
<1>. QED
  BY <1>5, <1>6, <1>7 DEF IInv

(* Loading the page takes what the daemon loads, when the file can be      *)
(* read.                                                                   *)
LEMMA ReloadKeeps ==
  ASSUME IInv, NEW cat \in Catalogs, Reload(cat)
  PROVE  IInv'
<1>1. TypeOK /\ SavedInFile /\ PageShowsLayout
  BY DEF IInv
<1>2. /\ saves' = {[s EXCEPT !.mine = FALSE] : s \in saves}
      /\ catalog' = cat /\ stale' = FALSE /\ calm' = (saves = {})
      /\ file' = file /\ copies' = copies /\ edits' = edits
  BY DEF Reload, server
<1>3. \/ /\ Readable /\ page' = "up" /\ layout' = Loaded
         /\ cards' = AllGraphs(Loaded, cat)
         /\ drawer' = IF AllGraphs(Loaded, cat) = <<>> THEN {} ELSE Unused(Loaded, cat)
      \/ /\ page' = "failed" /\ layout' = [DefaultLayout EXCEPT !.order = <<>>]
         /\ cards' = <<>> /\ drawer' = {}
  BY DEF Reload
<1>4. Made' = Made /\ Layouts' = Layouts
  BY <1>2, SameMade
<1>5. cat \in SUBSET Builtins
  BY DashboardConstants DEF Builtins
<1>6. Loaded \in Layouts
  BY <1>1, LoadedIsLayout
<1>7. \A s \in saves' : /\ s \in [n : 1..edits, body : Layouts,
                                  phase : {"sent", "writing", "answered"},
                                  then : BOOLEAN, mine : BOOLEAN]
                        /\ s.mine = FALSE
  <2>1. \A s \in saves : /\ [s EXCEPT !.mine = FALSE] \in
                              [n : 1..edits, body : Layouts,
                               phase : {"sent", "writing", "answered"},
                               then : BOOLEAN, mine : BOOLEAN]
                         /\ [s EXCEPT !.mine = FALSE].mine = FALSE
    BY <1>1 DEF TypeOK
  <2>. QED
    BY <1>2, <2>1
<1>8. TypeOK'
  <2>1. <<>> \in Rows(Made)
    BY DEF Rows, IsInjective
  <2>2. [DefaultLayout EXCEPT !.order = <<>>] \in Layouts
    BY <2>1, DefaultIsLayout DEF Layouts, LayoutsOf
  <2>3. page' \in {"up", "failed"} /\ layout' \in Layouts
        /\ cards' \in Rows(Made) /\ drawer' \subseteq Made
    BY <1>1, <1>3, <1>5, <1>6, <2>1, <2>2, RenderedIsTyped DEF TypeOK
  <2>4. /\ file' \in [kind : {"none", "empty", "mixed", "whole"}, layout : Layouts]
        /\ copies' \in 0..MaxCopies /\ edits' \in Nat
        /\ stale' \in BOOLEAN /\ calm' \in BOOLEAN /\ catalog' \subseteq Builtins
    BY <1>1, <1>2, <1>5 DEF TypeOK
  <2>5. saves' \subseteq [n : 1..edits', body : Layouts, phase : {"sent", "writing", "answered"},
                          then : BOOLEAN, mine : BOOLEAN]
    BY <1>2, <1>7
  <2>. QED
    BY <1>4, <2>3, <2>4, <2>5 DEF TypeOK
<1>9. SavedInFile'
  <2>1. SUFFICES ASSUME calm', page' = "up"
                 PROVE  saves' = {} /\ Readable' /\ Alike(Loaded', layout')
    BY DEF SavedInFile
  <2>2. saves' = {} /\ Readable /\ layout' = Loaded
    BY <1>2, <1>3, <2>1
  <2>3. Loaded' = Loaded /\ Readable' = Readable
    BY <1>2 DEF Loaded, Readable
  <2>. QED
    BY <2>2, <2>3 DEF Alike
<1>10. PageShowsLayout'
  <2>1. SUFFICES ASSUME page' = "up"
                 PROVE  /\ Without(cards', Forgotten') = AllGraphs(layout', catalog')
                        /\ cards' # <<>> => drawer' \ Forgotten' = Unused(layout', catalog')
    BY DEF PageShowsLayout
  <2>2. Forgotten' = Builtins \ cat
    BY <1>2 DEF Forgotten, Builtins
  <2>3. /\ Without(AllGraphs(Loaded, cat), Builtins \ cat) = AllGraphs(Loaded, cat)
        /\ Unused(Loaded, cat) \ (Builtins \ cat) = Unused(Loaded, cat)
    BY <1>1, <1>5, <1>6, RenderedIsTyped
  <2>. QED
    BY <1>2, <1>3, <2>1, <2>2, <2>3
<1>. QED
  BY <1>8, <1>9, <1>10 DEF IInv

(* Another catalog renders the page, or leaves cards that are forgotten.   *)
LEMMA RefreshCatalogKeeps ==
  ASSUME IInv, NEW next \in Catalogs, RefreshCatalog(next)
  PROVE  IInv'
<1>1. TypeOK /\ SavedInFile /\ PageShowsLayout
  BY DEF IInv
<1>2. /\ page = "up" /\ catalog' = next
      /\ file' = file /\ saves' = saves /\ page' = page /\ layout' = layout
      /\ copies' = copies /\ edits' = edits /\ calm' = calm
  BY DEF RefreshCatalog, server
<1>3. \/ /\ cards' = AllGraphs(layout, next) /\ stale' = FALSE
         /\ drawer' = IF AllGraphs(layout, next) = <<>> THEN drawer ELSE Unused(layout, next)
      \/ /\ next \subseteq catalog
         /\ cards' = cards /\ drawer' = drawer /\ stale' = stale
  BY DEF RefreshCatalog, Rerender, Render, shown
<1>4. next \in SUBSET Builtins
  BY DashboardConstants DEF Builtins
<1>5. Made' = Made /\ Layouts' = Layouts
  BY <1>2, SameMade
<1>6. /\ AllGraphs(layout, next) \in Rows(Made) /\ Unused(layout, next) \subseteq Made
      /\ Without(AllGraphs(layout, next), Builtins \ next) = AllGraphs(layout, next)
      /\ Unused(layout, next) \ (Builtins \ next) = Unused(layout, next)
  BY <1>1, <1>4, RenderedIsTyped DEF TypeOK
<1>7. TypeOK'
  <2>1. cards' \in Rows(Made) /\ drawer' \subseteq Made /\ stale' \in BOOLEAN
    BY <1>1, <1>3, <1>6 DEF TypeOK
  <2>. QED
    BY <1>1, <1>2, <1>4, <1>5, <2>1 DEF TypeOK
<1>8. SavedInFile'
  <2>1. Loaded' = Loaded
    BY <1>2 DEF Loaded
  <2>. QED
    BY <1>1, <1>2, <2>1 DEF SavedInFile, Readable
<1>9. Forgotten' = Builtins \ next
  BY <1>2 DEF Forgotten, Builtins
<1>10. PageShowsLayout'
  <2>1. CASE cards' = AllGraphs(layout, next) /\ stale' = FALSE
             /\ drawer' = IF AllGraphs(layout, next) = <<>> THEN drawer ELSE Unused(layout, next)
    BY <1>2, <1>6, <1>9, <2>1 DEF PageShowsLayout
  <2>2. CASE next \subseteq catalog /\ cards' = cards /\ drawer' = drawer /\ stale' = stale
    <3>1. SUFFICES ASSUME ~stale, ~(\E s \in saves : s.mine /\ s.then)
                   PROVE  /\ Without(cards, Builtins \ next) = AllGraphs(layout, next)
                          /\ cards # <<>> =>
                               drawer \ (Builtins \ next) = Unused(layout, next)
      BY <1>2, <1>9, <2>2 DEF PageShowsLayout
    <3>2. /\ Without(cards, Builtins \ catalog) = AllGraphs(layout, catalog)
          /\ cards # <<>> => drawer \ (Builtins \ catalog) = Unused(layout, catalog)
      BY <1>1, <1>2, <3>1 DEF PageShowsLayout, Forgotten
    <3>3. /\ layout \in LayoutsOf(Made) /\ Builtins \subseteq Made
          /\ catalog \in SUBSET Builtins /\ next \in SUBSET catalog /\ cards \in Rows(Made)
      BY <1>1, <2>2, LayoutHere DEF TypeOK
    <3>4. Without(cards, Builtins \ next) = AllGraphs(layout, next)
      BY <3>2, <3>3, FewerAreShown
    <3>5. /\ Unused(layout, next) = Unused(layout, catalog) \ (Builtins \ next)
      BY <3>3, FewerAreUnused
    <3>6. ASSUME cards # <<>> PROVE drawer \ (Builtins \ next) = Unused(layout, next)
      BY <2>2, <3>2, <3>5, <3>6
    <3>. QED
      BY <3>4, <3>6
  <2>. QED
    BY <1>3, <2>1, <2>2
<1>. QED
  BY <1>7, <1>8, <1>10 DEF IInv

(* The invariant holds when the page was loaded for the first time.        *)
LEMMA LayoutStarts ==
  ASSUME Init
  PROVE  IInv
<1>1. /\ file = Broken("none") /\ saves = {} /\ page = "up" /\ catalog \in Catalogs
      /\ layout = DefaultLayout /\ cards = AllGraphs(DefaultLayout, catalog)
      /\ drawer = IF cards = <<>> THEN {} ELSE Unused(DefaultLayout, catalog)
      /\ copies = 0 /\ edits = 0 /\ stale = FALSE /\ calm = TRUE
  BY DEF Init
<1>2. catalog \in SUBSET Builtins
  BY <1>1, DashboardConstants DEF Builtins
<1>3. DefaultLayout \in Layouts
  BY DefaultIsLayout
<1>4. /\ AllGraphs(DefaultLayout, catalog) \in Rows(Made)
      /\ Unused(DefaultLayout, catalog) \subseteq Made
      /\ Without(AllGraphs(DefaultLayout, catalog), Forgotten) = AllGraphs(DefaultLayout, catalog)
      /\ Unused(DefaultLayout, catalog) \ Forgotten = Unused(DefaultLayout, catalog)
  <2>1. DefaultLayout \in LayoutsOf(Made) /\ Builtins \subseteq Made
    BY <1>3 DEF Layouts, Made
  <2>2. IdsOf(DefaultLayout.customs) = <<>>
    BY DEF DefaultLayout, IdsOf
  <2>3. Range(IdsOf(DefaultLayout.customs)) = {}
    BY <2>2 DEF Range
  <2>. QED
    BY <1>2, <2>1, <2>3, ShownIsRow, NoneForgotten DEF Unused, Forgotten
<1>5. TypeOK
  <2>1. file \in [kind : {"none", "empty", "mixed", "whole"}, layout : Layouts]
    BY <1>1, <1>3 DEF Broken
  <2>2. copies \in 0..MaxCopies
    BY <1>1, DashboardConstants
  <2>. QED
    BY <1>1, <1>2, <1>3, <1>4, <2>1, <2>2 DEF TypeOK
<1>6. SavedInFile
  BY <1>1 DEF SavedInFile, Readable, Loaded, Broken, Alike
<1>7. PageShowsLayout
  BY <1>1, <1>4 DEF PageShowsLayout
<1>. QED
  BY <1>5, <1>6, <1>7 DEF IInv

(* Every step of the dashboard keeps its invariant.                        *)
LEMMA LayoutKeeps ==
  ASSUME IInv, Next \/ UNCHANGED vars
  PROVE  IInv'
<1>1. TypeOK /\ SavedInFile
  BY DEF IInv
<1>2. CASE UNCHANGED vars
  <2>1. /\ file' = file /\ saves' = saves /\ page' = page /\ catalog' = catalog
        /\ layout' = layout /\ cards' = cards /\ drawer' = drawer /\ copies' = copies
        /\ edits' = edits /\ stale' = stale /\ calm' = calm
    BY <1>2 DEF vars, server, shown
  <2>2. Made' = Made /\ Layouts' = Layouts /\ Loaded' = Loaded /\ Readable' = Readable
    BY <2>1, SameMade DEF Loaded, Readable
  <2>3. TypeOK'
    BY <1>1, <2>1, <2>2 DEF TypeOK
  <2>4. SavedInFile'
    BY <1>1, <2>1, <2>2 DEF SavedInFile
  <2>5. PageShowsLayout'
    BY <2>1 DEF IInv, PageShowsLayout, Forgotten
  <2>. QED
    BY <2>3, <2>4, <2>5 DEF IInv
<1>3. ASSUME NEW g \in Ids, Hide(g) PROVE IInv'
  BY <1>1, <1>3, HideKeeps DEF IInv
<1>4. ASSUME NEW g \in Ids, Delete(g) PROVE IInv'
  BY <1>1, <1>4, DeleteKeeps DEF IInv
<1>5. ASSUME NEW g \in Ids, Customize(g) PROVE IInv'
  BY <1>1, <1>5, CustomizeKeeps DEF IInv
<1>6. ASSUME NEW g, NEW place \in 0..Cardinality(Ids), Restore(g, place) PROVE IInv'
  <2>1. place \in Nat
    BY <1>6
  <2>. QED
    BY <1>1, <1>6, <2>1, RestoreKeeps DEF IInv
<1>7. ASSUME NEW g, NEW place, Reorder(g, place) PROVE IInv'
  BY <1>7, ReorderKeeps
<1>8. ASSUME NEW item \in Range(layout.customs), EditCustom(item) PROVE IInv'
  BY <1>1, <1>8, EditCustomKeeps DEF IInv
<1>9. ASSUME AddCustom PROVE IInv'
  BY <1>1, <1>9, AddCustomKeeps DEF IInv
<1>10. ASSUME Toggle PROVE IInv'
  BY <1>1, <1>10, ToggleKeeps DEF IInv
<1>11. ASSUME OpenDrawer PROVE IInv'
  BY <1>11, OpenDrawerKeeps
<1>12. ASSUME NEW s \in saves, Truncate(s) \/ Write(s) \/ Answered(s) \/ SaveFails(s)
       PROVE  IInv'
  BY <1>12, TruncateKeeps, WriteKeeps, AnsweredKeeps, SaveFailsKeeps
<1>13. ASSUME NEW cat \in Catalogs, Reload(cat) PROVE IInv'
  BY <1>13, ReloadKeeps
<1>14. ASSUME NEW cat \in Catalogs, RefreshCatalog(cat) PROVE IInv'
  BY <1>14, RefreshCatalogKeeps
<1>. QED
  BY <1>2, <1>3, <1>4, <1>5, <1>6, <1>7, <1>8, <1>9, <1>10, <1>11, <1>12, <1>13, <1>14 DEF Next

-----------------------------------------------------------------------------
(* An edit of a graph leaves the others where they are.                    *)

(* Two layouts that show the same graphs in the same order, but for some   *)
(* of them.                                                                *)
LEMMA SameWithout ==
  ASSUME NEW M, Builtins \subseteq M, NEW l \in LayoutsOf(M), NEW m \in LayoutsOf(M),
         NEW cat \in SUBSET Builtins, NEW S,
         \A x : x \notin S => (x \in KnownSet(m, cat) <=> x \in KnownSet(l, cat)),
         \A x, y : x \notin S /\ y \notin S /\ x \in KnownSet(l, cat) /\ y \in KnownSet(l, cat) =>
                     (Stands(m, x, y) <=> Stands(l, x, y))
  PROVE  Without(AllGraphs(m, cat), S) = Without(AllGraphs(l, cat), S)
<1> DEFINE a == AllGraphs(l, cat)
           b == AllGraphs(m, cat)
<1>1. /\ a \in Rows(M) /\ Range(a) = KnownSet(l, cat)
      /\ \A x, y : Before(a, x, y) <=>
           x \in KnownSet(l, cat) /\ y \in KnownSet(l, cat) /\ Stands(l, x, y)
  BY ShownIsRow DEF Stands
<1>2. /\ b \in Rows(M) /\ Range(b) = KnownSet(m, cat)
      /\ \A x, y : Before(b, x, y) <=>
           x \in KnownSet(m, cat) /\ y \in KnownSet(m, cat) /\ Stands(m, x, y)
  BY ShownIsRow DEF Stands
<1> HIDE DEF a, b
<1>3. /\ Without(a, S) \in Rows(M) /\ Range(Without(a, S)) = Range(a) \ S
      /\ \A x, y : Before(Without(a, S), x, y) <=> Before(a, x, y) /\ x \notin S /\ y \notin S
  BY <1>1, WithoutOfRow
<1>4. /\ Without(b, S) \in Rows(M) /\ Range(Without(b, S)) = Range(b) \ S
      /\ \A x, y : Before(Without(b, S), x, y) <=> Before(b, x, y) /\ x \notin S /\ y \notin S
  BY <1>2, WithoutOfRow
<1>5. Range(Without(b, S)) = Range(Without(a, S))
  BY <1>1, <1>2, <1>3, <1>4
<1>6. ASSUME NEW x, NEW y
      PROVE  Before(Without(b, S), x, y) <=> Before(Without(a, S), x, y)
  BY <1>1, <1>2, <1>3, <1>4
<1>7. Without(b, S) = Without(a, S)
  BY <1>3, <1>4, <1>5, <1>6, SameRow
<1>. QED
  BY <1>7 DEF a, b

(* Hiding leaves the other graphs where they are.                          *)
LEMMA HideLeavesOthers ==
  ASSUME TypeOK, NEW g \in Ids, Hide(g)
  PROVE  Same({g})
<1> DEFINE m == Hidden(g)
           l == layout
<1>1. layout' = m
  BY DEF Hide, Save
<1>2. /\ m \in LayoutsOf(Made)
      /\ m.order = Without(l.order, {g})
      /\ m.hiddenDefault = l.hiddenDefault \cup ({g} \cap Builtins)
      /\ m.hiddenCustom = l.hiddenCustom \cup ({g} \cap Customs)
      /\ m.customs = l.customs
  BY HiddenIs
<1>3. /\ l \in LayoutsOf(Made) /\ l.order \in Rows(Made) /\ Builtins \subseteq Made
      /\ catalog \in SUBSET Builtins
  BY LayoutHere
<1> HIDE DEF m, l
<1>4. /\ Range(m.order) = Range(l.order) \ {g}
      /\ \A x, y : Before(m.order, x, y) <=> Before(l.order, x, y) /\ x \notin {g} /\ y \notin {g}
  BY <1>2, <1>3, WithoutOfRow
<1>5. \A x : x # g => (x \in Customized(m) <=> x \in Customized(l))
  BY <1>2, <1>4 DEF Customized
<1>6. \A x : x \notin {g} => (x \in KnownSet(m, catalog) <=> x \in KnownSet(l, catalog))
  BY <1>2, <1>5 DEF KnownSet
<1>7. \A x, y : Ahead(m, x, y) <=> Ahead(l, x, y)
  BY <1>2 DEF Ahead
<1>8. \A x, y : x \notin {g} /\ y \notin {g} => (Stands(m, x, y) <=> Stands(l, x, y))
  BY <1>4, <1>7 DEF Stands
<1>9. Without(AllGraphs(m, catalog), {g}) = Without(AllGraphs(l, catalog), {g})
  BY <1>2, <1>3, <1>6, <1>8, SameWithout
<1>. QED
  BY <1>1, <1>9 DEF Same, l

(* Deleting leaves all but the graph and what it was a copy of.            *)
LEMMA DeleteLeavesOthers ==
  ASSUME TypeOK, NEW g \in Ids, Delete(g)
  PROVE  Same({g} \cup Sources(g))
<1> DEFINE m == Deleted(g)
           l == layout
           S == {g} \cup Sources(g)
<1>1. layout' = m
  BY DEF Delete, Save, Deleted, CustomChanged
<1>2. /\ m \in LayoutsOf(Made)
      /\ m.order = Without(l.order, {g})
      /\ m.hiddenDefault = l.hiddenDefault
      /\ m.hiddenCustom = l.hiddenCustom \ {g}
      /\ m.customs = Only(l.customs, Others(g))
  BY DeletedIs
<1>3. /\ l \in LayoutsOf(Made) /\ l.order \in Rows(Made) /\ Builtins \subseteq Made
      /\ catalog \in SUBSET Builtins
      /\ l.customs \in Rows(Items(Made))
      /\ \A c, d \in Range(l.customs) : c.id = d.id => c = d
  BY LayoutHere
<1>4. /\ m.customs \in Rows(Items(Made)) /\ Range(m.customs) = Others(g)
      /\ \A a, b \in Range(m.customs) : a.id = b.id => a = b
      /\ \A c, d : Before(m.customs, c, d) <=>
           Before(l.customs, c, d) /\ c \in Others(g) /\ d \in Others(g)
  BY <1>2, OthersAreRow
<1>5. \A c : c \in Others(g) <=> c \in Range(l.customs) /\ c.id # g
  BY DEF Others
<1>6. \A x : x \in Sources(g) <=> \E c \in Range(l.customs) : c.id = g /\ x = c.source
  BY DEF Sources
<1> HIDE DEF m, l
<1>7. /\ Range(m.order) = Range(l.order) \ {g}
      /\ \A x, y : Before(m.order, x, y) <=> Before(l.order, x, y) /\ x \notin {g} /\ y \notin {g}
  BY <1>2, <1>3, WithoutOfRow
<1>8. /\ Range(IdsOf(l.customs)) = {c.id : c \in Range(l.customs)}
      /\ \A x, y : Before(IdsOf(l.customs), x, y) <=>
           \E c, d \in Range(l.customs) : Before(l.customs, c, d) /\ c.id = x /\ d.id = y
  BY <1>3, IdsOfRow
<1>9. /\ Range(IdsOf(m.customs)) = {c.id : c \in Range(m.customs)}
      /\ \A x, y : Before(IdsOf(m.customs), x, y) <=>
           \E c, d \in Range(m.customs) : Before(m.customs, c, d) /\ c.id = x /\ d.id = y
  BY <1>4, IdsOfRow
<1>10. \A x : x \notin S => (x \in Customized(m) <=> x \in Customized(l))
  BY <1>4, <1>5, <1>6, <1>7 DEF Customized
<1>11. \A x : x # g => (x \in Range(IdsOf(m.customs)) <=> x \in Range(IdsOf(l.customs)))
  BY <1>4, <1>5, <1>8, <1>9
<1> HIDE DEF S
<1>12. \A x : x \notin S => x # g
  BY DEF S
<1>13. \A x : x \notin S => (x \in KnownSet(m, catalog) <=> x \in KnownSet(l, catalog))
  BY <1>2, <1>10, <1>11, <1>12 DEF KnownSet
<1>14. \A x, y : x # g /\ y # g =>
         (Before(IdsOf(m.customs), x, y) <=> Before(IdsOf(l.customs), x, y))
  BY <1>4, <1>5, <1>8, <1>9
<1>15. \A x, y : x # g /\ y # g => (Ahead(m, x, y) <=> Ahead(l, x, y))
  BY <1>14 DEF Ahead
<1>16. \A x, y : x \notin S /\ y \notin S => (Stands(m, x, y) <=> Stands(l, x, y))
  BY <1>7, <1>12, <1>15 DEF Stands
<1>17. Without(AllGraphs(m, catalog), S) = Without(AllGraphs(l, catalog), S)
  BY <1>2, <1>3, <1>13, <1>16, SameWithout
<1>. QED
  BY <1>1, <1>17 DEF Same, l, S

(* Making a copy leaves all but the graph and its copy.                    *)
LEMMA CustomizeLeavesOthers ==
  ASSUME TypeOK, NEW g \in Ids, Customize(g)
  PROVE  Same({g, NextCopy})
<1> DEFINE m == Copied(g)
           l == layout
           n == [id |-> NextCopy, source |-> g]
           S == {g, NextCopy}
<1>1. /\ g \in Builtins /\ copies < MaxCopies /\ layout' = m
  BY DEF Customize, Save, Copied, CopyChanged, Replaced
<1>2. /\ m \in LayoutsOf(MadeNext)
      /\ m.order = Replaced(l.order, g, NextCopy)
      /\ m.hiddenDefault = l.hiddenDefault \cup {g}
      /\ m.hiddenCustom = l.hiddenCustom
      /\ Range(m.customs) = Range(l.customs) \cup {n}
      /\ \A c, d : Before(m.customs, c, d) <=>
           \/ Before(l.customs, c, d)
           \/ c \in Range(l.customs) /\ d = n
  BY <1>1, CopiedIs
<1>3. /\ l \in LayoutsOf(MadeNext) /\ l.order \in Rows(MadeNext) /\ Builtins \subseteq MadeNext
      /\ NextCopy \notin Range(l.order)
  BY <1>1, NextIsNew
<1>4. n.id = NextCopy /\ n.source = g /\ NextCopy \in MadeNext /\ catalog \in SUBSET Builtins
  BY LayoutHere DEF MadeNext
<1> HIDE DEF m, l, n
<1>5. /\ l.customs \in Rows(Items(MadeNext))
      /\ \A c, d \in Range(l.customs) : c.id = d.id => c = d
      /\ m.customs \in Rows(Items(MadeNext))
      /\ \A c, d \in Range(m.customs) : c.id = d.id => c = d
  BY <1>2, <1>3, LayoutParts
<1>6. /\ \A x : x # g /\ x # NextCopy => (x \in Range(m.order) <=> x \in Range(l.order))
      /\ \A x, y : x # g /\ x # NextCopy /\ y # g /\ y # NextCopy =>
           (Before(m.order, x, y) <=> Before(l.order, x, y))
  BY <1>2, <1>3, <1>4, ReplacedInRow
<1>7. /\ Range(IdsOf(l.customs)) = {c.id : c \in Range(l.customs)}
      /\ \A x, y : Before(IdsOf(l.customs), x, y) <=>
           \E c, d \in Range(l.customs) : Before(l.customs, c, d) /\ c.id = x /\ d.id = y
  BY <1>5, IdsOfRow
<1>8. /\ Range(IdsOf(m.customs)) = {c.id : c \in Range(m.customs)}
      /\ \A x, y : Before(IdsOf(m.customs), x, y) <=>
           \E c, d \in Range(m.customs) : Before(m.customs, c, d) /\ c.id = x /\ d.id = y
  BY <1>5, IdsOfRow
<1>9. \A x : x \notin S => x # g /\ x # NextCopy
  OBVIOUS
<1> HIDE DEF S
<1>10. \A x : x \notin S => (x \in Customized(m) <=> x \in Customized(l))
  BY <1>2, <1>4, <1>6, <1>9 DEF Customized
<1>11. \A x : x \notin S => (x \in Range(IdsOf(m.customs)) <=> x \in Range(IdsOf(l.customs)))
  BY <1>2, <1>4, <1>7, <1>8, <1>9
<1>12. \A x : x \notin S => (x \in KnownSet(m, catalog) <=> x \in KnownSet(l, catalog))
  BY <1>2, <1>9, <1>10, <1>11 DEF KnownSet
<1>13. \A x, y : x \notin S /\ y \notin S =>
         (Before(IdsOf(m.customs), x, y) <=> Before(IdsOf(l.customs), x, y))
  <2>1. SUFFICES ASSUME NEW x, NEW y, x \notin S, y \notin S
                 PROVE  Before(IdsOf(m.customs), x, y) <=> Before(IdsOf(l.customs), x, y)
    OBVIOUS
  <2>2. ASSUME Before(IdsOf(m.customs), x, y) PROVE Before(IdsOf(l.customs), x, y)
    <3>1. PICK c, d \in Range(m.customs) : Before(m.customs, c, d) /\ c.id = x /\ d.id = y
      BY <1>8, <2>2
    <3>2. c # n /\ d # n
      BY <1>4, <1>9, <2>1, <3>1
    <3>. QED
      BY <1>2, <1>7, <3>1, <3>2
  <2>3. ASSUME Before(IdsOf(l.customs), x, y) PROVE Before(IdsOf(m.customs), x, y)
    BY <1>2, <1>7, <1>8, <2>3
  <2>. QED
    BY <2>2, <2>3
<1>14. \A x, y : x \notin S /\ y \notin S => (Ahead(m, x, y) <=> Ahead(l, x, y))
  BY <1>13 DEF Ahead
<1>15. \A x, y : x \notin S /\ y \notin S => (Stands(m, x, y) <=> Stands(l, x, y))
  BY <1>6, <1>9, <1>14 DEF Stands
<1>16. Without(AllGraphs(m, catalog), S) = Without(AllGraphs(l, catalog), S)
  BY <1>2, <1>3, <1>4, <1>12, <1>15, SameWithout
<1>. QED
  BY <1>1, <1>16 DEF Same, l, S

(* Restoring leaves the other graphs where they are.                       *)
LEMMA RestoreLeavesOthers ==
  ASSUME TypeOK, Without(cards, Forgotten) = AllGraphs(layout, catalog),
         NEW g, NEW place, Restore(g, place)
  PROVE  Same({g})
<1> DEFINE m == Restored(g, place)
           l == layout
           K == KnownSet(l, catalog)
<1>1. /\ g \in drawer /\ place \in 0..Len(Without(cards, {g})) /\ layout' = m
  BY DEF Restore, Save, Restored, RestoredOrder, HiddenChanged
<1>2. /\ Range(m.order) = Range(cards) \cup {g}
      /\ \A x, y : x # g /\ y # g => (Before(m.order, x, y) <=> Before(cards, x, y))
      /\ m \in LayoutsOf(Made)
      /\ m.hiddenDefault = l.hiddenDefault \ {g}
      /\ m.hiddenCustom = l.hiddenCustom \ {g}
      /\ m.customs = l.customs
  BY <1>1, RestoredIs
<1>3. l \in LayoutsOf(Made) /\ Builtins \subseteq Made /\ catalog \in SUBSET Builtins
  BY LayoutHere
<1>4. /\ Range(cards) \ Forgotten = K
      /\ \A x, y : x \in K /\ y \in K => (Before(cards, x, y) <=> Stands(l, x, y))
  <2>1. /\ Range(AllGraphs(l, catalog)) = K
        /\ \A x, y : Before(AllGraphs(l, catalog), x, y) <=> x \in K /\ y \in K /\ Stands(l, x, y)
    BY <1>3, ShownIsRow DEF Stands
  <2>2. /\ Range(Without(cards, Forgotten)) = Range(cards) \ Forgotten
        /\ \A x, y : Before(Without(cards, Forgotten), x, y) <=>
             Before(cards, x, y) /\ x \notin Forgotten /\ y \notin Forgotten
    BY WithoutOfRow DEF TypeOK
  <2> HIDE DEF K, l
  <2>3. Range(AllGraphs(l, catalog)) = Range(cards) \ Forgotten
    BY <2>2 DEF l
  <2>4. \A x, y : Before(AllGraphs(l, catalog), x, y) <=>
             Before(cards, x, y) /\ x \notin Forgotten /\ y \notin Forgotten
    BY <2>2 DEF l
  <2>. QED
    BY <2>1, <2>3, <2>4
<1>8. Forgotten \cap catalog = {}
  BY DEF Forgotten
<1> HIDE DEF m, l, K
<1>5. \A x : x # g => (x \in KnownSet(m, catalog) <=> x \in K)
  <2> DEFINE G == {c.source : c \in Range(l.customs)}
             I == Range(IdsOf(l.customs))
  <2>1. /\ Customized(l) = G \ ({NoSource} \cup Range(l.order))
        /\ Customized(m) = G \ ({NoSource} \cup Range(m.order))
    BY <1>2 DEF Customized
  <2>2. /\ K = (catalog \ (l.hiddenDefault \cup Customized(l))) \cup (I \ l.hiddenCustom)
        /\ KnownSet(m, catalog) =
             (catalog \ (m.hiddenDefault \cup Customized(m))) \cup (I \ m.hiddenCustom)
    BY <1>2 DEF KnownSet, K
  <2> HIDE DEF G, I
  <2>. QED
    BY <1>2, <1>4, <1>8, <2>1, <2>2
<1>6. \A x, y : x \notin {g} /\ y \notin {g} /\ x \in K /\ y \in K =>
        (Stands(m, x, y) <=> Stands(l, x, y))
  <2>1. SUFFICES ASSUME NEW x \in K, NEW y \in K, x # g, y # g
                 PROVE  Stands(m, x, y) <=> Stands(l, x, y)
    OBVIOUS
  <2>2. x \in Range(m.order) /\ y \in Range(m.order)
    BY <1>2, <1>4
  <2>3. Stands(m, x, y) <=> Before(m.order, x, y)
    BY <2>2 DEF Stands
  <2>. QED
    BY <1>2, <1>4, <2>1, <2>3
<1>7. Without(AllGraphs(m, catalog), {g}) = Without(AllGraphs(l, catalog), {g})
  BY <1>2, <1>3, <1>5, <1>6, SameWithout DEF K
<1>. QED
  BY <1>1, <1>7 DEF Same, l

-----------------------------------------------------------------------------
(* The page.                                                               *)

(* The layout's invariant holds whenever Dashboard runs.                   *)
THEOREM LayoutCorrect == Spec => []IInv
<1>1. Init => IInv
  BY LayoutStarts
<1>2. IInv /\ [Next]_vars => IInv'
  BY LayoutKeeps
<1>. QED
  BY <1>1, <1>2, PTL DEF Spec

(* The history's invariant holds whenever GraphHistory runs.               *)
THEOREM HistoryCorrect == History!Spec => []History!IInv
<1>1. History!Init => History!IInv
  BY HistoryStarts
<1>2. History!IInv /\ [History!Next]_(History!vars) => History!IInv'
  <2>1. UNCHANGED History!vars => UNCHANGED historyVars
    BY DEF historyVars, History!vars, History!server, History!socket, History!choices,
           History!shown, History!history
  <2>. QED
    BY <2>1, HistoryKeeps
<1>. QED
  BY <1>1, <1>2, PTL DEF History!Spec

(* The composed page is a dashboard, and a graph's history.                *)
THEOREM PageImplementsBoth == MCSpec => Spec /\ History!Spec
<1>1. MCInit => Init /\ History!Init
  BY DEF MCInit
<1>2. [MCNext]_allVars => [Next]_vars
  BY DEF MCNext, EditNext, allVars
<1>3. [MCNext]_allVars => [History!Next]_(History!vars)
  <2>1. UNCHANGED historyVars => UNCHANGED History!vars
    BY DEF historyVars, History!vars, History!server, History!socket, History!choices,
           History!shown, History!history
  <2>. QED
    BY <2>1 DEF MCNext, allVars
<1>. QED
  BY <1>1, <1>2, <1>3, PTL DEF MCSpec, Spec, History!Spec

(* Once the saves are done, loading the page again shows the same graphs   *)
(* in the same order, unless saves overlapped or one of them failed.       *)
THEOREM ReloadingShowsTheSame == Spec => []ReloadShowsTheSame
<1>1. IInv => ReloadShowsTheSame
  <2>1. SUFFICES ASSUME IInv, page = "up", saves = {}, calm
                 PROVE  Readable /\ AllGraphs(Loaded, catalog) = AllGraphs(layout, catalog)
    BY DEF ReloadShowsTheSame
  <2>2. Readable /\ Alike(Loaded, layout)
    BY <2>1 DEF IInv, SavedInFile
  <2>3. Known(Loaded, catalog) = Known(layout, catalog)
    BY <2>2 DEF Alike, Known
  <2>. QED
    BY <2>2, <2>3 DEF Alike, AllGraphs
<1>. QED
  BY <1>1, LayoutCorrect, PTL

(* Once the answers are there the dashboard shows the layout, and the      *)
(* drawer the rest, after drags too, which do not render the page.         *)
THEOREM PageShowsItsLayout == Spec => []PageShowsLayout
<1>1. IInv => PageShowsLayout
  BY DEF IInv
<1>. QED
  BY <1>1, LayoutCorrect, PTL

(* An edit of a graph leaves all others where they are.                    *)
THEOREM EditsKeepOthers == Spec => EditKeepsOthers
<1>1. ASSUME IInv, [Next]_vars
      PROVE  [edits' > edits /\ Without(cards, Forgotten) = AllGraphs(layout, catalog) =>
                \A g \in Ids :
                  /\ Hide(g) => Same({g})
                  /\ Delete(g) => Same({g} \cup Sources(g))
                  /\ Customize(g) => Same({g, NextCopy})
                  /\ \A place \in 0..Len(cards) : Restore(g, place) => Same({g})]_vars
  <2>1. TypeOK
    BY <1>1 DEF IInv
  <2>2. SUFFICES ASSUME Without(cards, Forgotten) = AllGraphs(layout, catalog), NEW g \in Ids
                 PROVE  /\ Hide(g) => Same({g})
                        /\ Delete(g) => Same({g} \cup Sources(g))
                        /\ Customize(g) => Same({g, NextCopy})
                        /\ \A place \in 0..Len(cards) : Restore(g, place) => Same({g})
    OBVIOUS
  <2>3. Hide(g) => Same({g})
    BY <2>1, HideLeavesOthers
  <2>4. Delete(g) => Same({g} \cup Sources(g))
    BY <2>1, DeleteLeavesOthers
  <2>5. Customize(g) => Same({g, NextCopy})
    BY <2>1, CustomizeLeavesOthers
  <2>6. \A place \in 0..Len(cards) : Restore(g, place) => Same({g})
    BY <2>1, <2>2, RestoreLeavesOthers
  <2>. QED
    BY <2>3, <2>4, <2>5, <2>6
<1>. QED
  BY <1>1, LayoutCorrect, PTL DEF Spec, EditKeepsOthers

(* Every point is drawn, and kept, under its own series.                   *)
THEOREM PointsStayApart == History!Spec => []PointsUnderOwnSeries
<1>1. History!IInv => PointsUnderOwnSeries
  BY DEF History!IInv, PointsUnderOwnSeries
<1>. QED
  BY <1>1, HistoryCorrect, PTL

(* The chart has every point of the range that it believes to have loaded, *)
(* but for the samples that went by it.                                    *)
THEOREM LoadedRangesAreComplete == History!Spec => []LoadedRangeIsComplete
<1>1. History!IInv => LoadedRangeIsComplete
  BY DEF History!IInv, LoadedRangeIsComplete
<1>. QED
  BY <1>1, HistoryCorrect, PTL

(* The chart and the history that it would be rebuilt from are the same.   *)
THEOREM ChartIsItsHistory == History!Spec => []HistoryInStep
<1>1. History!IInv => HistoryInStep
  BY DEF History!IInv, HistoryInStep
<1>. QED
  BY <1>1, HistoryCorrect, PTL

(* So they all hold of the page that the runs check.                       *)
THEOREM PageIsRight ==
  MCSpec => /\ []ReloadShowsTheSame /\ []PageShowsLayout /\ EditKeepsOthers
            /\ []PointsUnderOwnSeries /\ []LoadedRangeIsComplete /\ []HistoryInStep
BY PageImplementsBoth, ReloadingShowsTheSame, PageShowsItsLayout, EditsKeepOthers,
   PointsStayApart, LoadedRangesAreComplete, ChartIsItsHistory, PTL

-----------------------------------------------------------------------------
(* The graphs that are there to start with.                                *)

(* The names of a list are on no other, and those of disks on none.        *)
LEMMA ListsApart ==
  /\ \A g, h \in DOMAIN Presets!Listed : g # h => Presets!Listed[g] \cap Presets!Listed[h] = {}
  /\ \A g \in DOMAIN Presets!Listed :
       /\ g \notin {"power", "disk"}
       /\ \A n \in {"disk_read_bytes_per_second", "disk_written_bytes_per_second", "gpu_power_w"} :
            n \notin Presets!Listed[g]
BY DEF Presets!Listed

(* Power supplies are listed, under their own names.                       *)
LEMMA ListedPsu ==
  /\ "psu" \in DOMAIN Presets!Listed
  /\ Presets!Listed["psu"] = {"psu_output_power_w", "psu_rail_power_w", "psu_connector_power_w"}
BY DEF Presets!Listed

(* The catalog has only metrics of the constants.                          *)
CatalogOK == metrics \subseteq Metrics

(* No metric is drawn by two default graphs.                               *)
LEMMA GraphsApart ==
  ASSUME CatalogOK
  PROVE  Presets!OneGraphEach
<1> SUFFICES ASSUME NEW g \in Presets!Graphs, NEW h \in Presets!Graphs, g # h,
                    NEW m \in metrics, Presets!Includes(g, m), Presets!Includes(h, m)
             PROVE  FALSE
  BY DEF Presets!OneGraphEach, Presets!Series
<1> DEFINE L == DOMAIN Presets!Listed
<1>1. m \in Metrics
  BY DEF CatalogOK
<1>2. g \in L \cup {"power", "disk"} /\ h \in L \cup {"power", "disk"}
  BY DEF Presets!Graphs
<1>3. \A x \in L : Presets!Includes(x, m) => m.name \in Presets!Listed[x]
  BY ListsApart DEF Presets!Includes
<1>4. Presets!Includes("power", m) =>
        /\ m.symbol = "W" /\ m.name \notin Presets!Listed["psu"]
  BY ListedPsu DEF Presets!Includes, Presets!IsPowerMetric
<1>5. Presets!Includes("disk", m) =>
        m.name \in {"disk_read_bytes_per_second", "disk_written_bytes_per_second"}
  BY DEF Presets!Includes, Presets!IsDefaultDiskThroughputMetric
<1>6. \A x \in L : ~(Presets!Includes(x, m) /\ Presets!Includes("power", m))
  BY <1>1, <1>3, <1>4, PresetConstants DEF Presets!DefaultGraphsConstants
<1>7. \A x \in L : ~(Presets!Includes(x, m) /\ Presets!Includes("disk", m))
  BY <1>3, <1>5, ListsApart
<1>8. ~(Presets!Includes("power", m) /\ Presets!Includes("disk", m))
  BY <1>1, <1>4, <1>5, PresetConstants DEF Presets!DefaultGraphsConstants
<1>9. \A x, y \in L : x # y => ~(Presets!Includes(x, m) /\ Presets!Includes(y, m))
  BY <1>3, ListsApart
<1> HIDE DEF L
<1>. QED
  BY <1>2, <1>6, <1>7, <1>8, <1>9

(* A metric that the default graphs are to show is in one of them.         *)
LEMMA GraphsComplete ==
  ASSUME CatalogOK
  PROVE  Presets!NothingLost
<1> SUFFICES ASSUME NEW g \in Presets!Graphs, NEW m \in metrics, Presets!Includes(g, m)
             PROVE  \E n \in Presets!Series(g) : n.name = m.name /\ (n # m => n.collector = "drm")
  BY DEF Presets!NothingLost
<1>1. CASE ~Presets!SkipFallbackGPUMetric(m)
  BY <1>1 DEF Presets!Series
<1>2. CASE Presets!SkipFallbackGPUMetric(m)
  <2>1. PICK n \in metrics : n.collector = "drm" /\ n.name = m.name
    BY <1>2 DEF Presets!SkipFallbackGPUMetric
  <2>2. m.name \in {"gpu_power_w", "gpu_util_pct"}
    BY <1>2 DEF Presets!SkipFallbackGPUMetric, Presets!Preferred
  <2>3. n \in Metrics
    BY DEF CatalogOK
  <2>4. Presets!Includes(g, n)
    <3>1. CASE g = "power"
      <4>1. m.name = "gpu_power_w" \/ m.name = "gpu_util_pct"
        BY <2>2
      <4>2. m.name # "gpu_util_pct"
        <5>1. m.symbol = "W" /\ m \in Metrics
          BY <3>1 DEF Presets!Includes, Presets!IsPowerMetric, CatalogOK
        <5>2. "gpuUtil" \in DOMAIN Presets!Listed \ {"psu"} /\ Presets!Listed["gpuUtil"] = {"gpu_util_pct"}
          BY DEF Presets!Listed
        <5>. QED  BY <5>1, <5>2, PresetConstants DEF Presets!DefaultGraphsConstants
      <4>3. n.symbol = "W" /\ ~Presets!Limit(n) /\ n.name = "gpu_power_w"
        BY <2>1, <2>3, <4>1, <4>2, PresetConstants DEF Presets!DefaultGraphsConstants
      <4>. QED  BY <3>1, <4>3 DEF Presets!Includes, Presets!IsPowerMetric
    <3>2. CASE g = "disk"
      BY <2>2, <3>2 DEF Presets!Includes, Presets!IsDefaultDiskThroughputMetric
    <3>3. CASE g \notin {"power", "disk"}
      BY <2>1, <3>3 DEF Presets!Includes
    <3>. QED  BY <3>1, <3>2, <3>3
  <2>5. ~Presets!SkipFallbackGPUMetric(n)
    BY <2>1 DEF Presets!SkipFallbackGPUMetric
  <2>. QED  BY <2>1, <2>4, <2>5 DEF Presets!Series
<1>. QED
  BY <1>1, <1>2

(* The metrics of a graph have the unit of its axis.                       *)
LEMMA AxesAreRight ==
  ASSUME CatalogOK
  PROVE  Presets!AxesFit
<1> SUFFICES ASSUME NEW g \in Presets!Graphs, NEW m \in Presets!Series(g)
             PROVE  Presets!CommonSymbol(g) # "" =>
                      \/ m.symbol = Presets!CommonSymbol(g)
                      \/ Presets!Converted(m.symbol, Presets!CommonSymbol(g))
  BY DEF Presets!AxesFit
<1>1. m.symbol \in Presets!Symbols(g)
  BY DEF Presets!Symbols
<1>3. CASE g = "power"
  <2>1. m.symbol = "W"
    BY <1>3 DEF Presets!Series, Presets!Includes, Presets!IsPowerMetric
  <2>2. Presets!CommonSymbol(g) = "W"
    BY <1>3 DEF Presets!CommonSymbol
  <2>. QED  BY <2>1, <2>2
<1>4. CASE g # "power" /\ Presets!Symbols(g) \subseteq {"B/s", "MiB/s"}
  <2>1. Presets!CommonSymbol(g) = "B/s"
    BY <1>4 DEF Presets!CommonSymbol
  <2>. QED  BY <1>1, <1>4, <2>1 DEF Presets!Converted
<1>5. CASE g # "power" /\ ~(Presets!Symbols(g) \subseteq {"B/s", "MiB/s"})
             /\ Presets!Symbols(g) \subseteq {"B", "MiB"}
  <2>1. Presets!CommonSymbol(g) = "B"
    BY <1>5 DEF Presets!CommonSymbol
  <2>. QED  BY <1>1, <1>5, <2>1 DEF Presets!Converted
<1>6. CASE g # "power" /\ ~(Presets!Symbols(g) \subseteq {"B/s", "MiB/s"})
             /\ ~(Presets!Symbols(g) \subseteq {"B", "MiB"}) /\ \E s \in Presets!Symbols(g) : Presets!Symbols(g) = {s}
  <2>1. PICK s : Presets!Symbols(g) = {s}
    BY <1>6
  <2>2. Presets!CommonSymbol(g) = s
    BY <1>6, <2>1 DEF Presets!CommonSymbol
  <2>. QED  BY <1>1, <2>1, <2>2
<1>7. CASE g # "power" /\ ~(Presets!Symbols(g) \subseteq {"B/s", "MiB/s"})
             /\ ~(Presets!Symbols(g) \subseteq {"B", "MiB"}) /\ ~\E s \in Presets!Symbols(g) : Presets!Symbols(g) = {s}
  BY <1>7 DEF Presets!CommonSymbol
<1>. QED
  BY <1>3, <1>4, <1>5, <1>6, <1>7

(* The default graphs made of any catalog show each metric they stand for, *)
(* on one graph only and on an axis with its unit (defaultGraphs, app.js). *)
THEOREM DefaultGraphsAreWhole == MCSpec => []DefaultGraphsShowAll
<1>1. MCInit => CatalogOK
  BY DEF MCInit, Presets!Init, CatalogOK
<1>2. CatalogOK /\ [MCNext]_allVars => CatalogOK'
  <2> SUFFICES ASSUME CatalogOK, [MCNext]_allVars PROVE CatalogOK'
    OBVIOUS
  <2>1. CASE UNCHANGED metrics
    BY <2>1 DEF CatalogOK
  <2>2. ASSUME NEW m \in Metrics, metrics' = metrics \cup {m} PROVE CatalogOK'
    BY <2>2 DEF CatalogOK
  <2>3. UNCHANGED metrics \/ Presets!Next
    BY DEF MCNext, allVars
  <2>. QED
    BY <2>1, <2>2, <2>3 DEF Presets!Next, Presets!Discover
<1>3. CatalogOK => DefaultGraphsShowAll
  BY GraphsApart, GraphsComplete, AxesAreRight DEF DefaultGraphsShowAll
<1>. QED
  BY <1>1, <1>2, <1>3, PTL DEF MCSpec

-----------------------------------------------------------------------------
(* Places taken from a sequence.                                           *)

(* A nonempty set of subsets of a finite set has a minimal one.            *)
LEMMA Minimal ==
  ASSUME NEW S, IsFiniteSet(S), NEW T \in SUBSET SUBSET S, T # {}
  PROVE  \E U \in T : \A V \in T : V \subseteq U => V = U
<1>1. IsWellFoundedOn(StrictSubsetOrdering(S), FiniteSubsetsOf(S))
  BY FS_StrictSubsetOrderingWellFounded
<1>2. FiniteSubsetsOf(S) = SUBSET S
  BY FS_FiniteSubsetsOfFinite
<1>3. PICK U \in T : \A V \in T : ~(<<V, U>> \in StrictSubsetOrdering(S))
  BY <1>1, <1>2, WFMin
<1>. QED
  BY <1>3 DEF StrictSubsetOrdering

(* Of some natural numbers one is the least.                               *)
LEMMA LeastOfSome ==
  ASSUME NEW P \in SUBSET Nat, P # {}
  PROVE  \E n \in P : \A m \in P : n <= m
<1>1. PICK top \in P : TRUE
  OBVIOUS
<1> DEFINE T == {0..m : m \in {k \in P : k <= top}}
           all == 0..top
<1>2. IsFiniteSet(all)
  BY FS_Interval
<1>3. T \in SUBSET SUBSET all /\ T # {}
  OBVIOUS
<1>4. PICK U \in T : \A V \in T : V \subseteq U => V = U
  <2> HIDE DEF T, all
  <2>. QED
    BY <1>2, <1>3, Minimal
<1>5. PICK n \in P : n <= top /\ U = 0..n
  OBVIOUS
<1>6. ASSUME NEW m \in P, m < n PROVE FALSE
  <2>1. 0..m \in T /\ 0..m \subseteq U
    BY <1>5, <1>6
  <2>2. 0..m = U
    BY <1>4, <2>1
  <2>3. n \in 0..m
    BY <1>5, <2>2
  <2>. QED
    BY <1>6, <2>3
<1>. QED
  BY <1>6

(* What is selected is what is at the places, in their order.              *)
LEMMA SelectedIs ==
  ASSUME NEW T, NEW s \in Seq(T), NEW P \in SUBSET (DOMAIN s)
  PROVE  /\ P \in SUBSET Int /\ IsFiniteSet(P) /\ IsAscent(Ascending(P), P)
         /\ Selected(s, P) \in Seq(T) /\ Len(Selected(s, P)) = Cardinality(P)
         /\ DOMAIN Selected(s, P) = 1..Cardinality(P) /\ Cardinality(P) \in Nat
         /\ \A k \in 1..Cardinality(P) : Selected(s, P)[k] = s[Ascending(P)[k]]
         /\ Range(Selected(s, P)) = {s[i] : i \in P}
<1> DEFINE n == Cardinality(P)
           a == Ascending(P)
           t == Selected(s, P)
<1>1. DOMAIN s = 1..Len(s) /\ Len(s) \in Nat /\ \A i \in DOMAIN s : s[i] \in T
  BY LenProperties, ElementOfSeq
<1>2. P \in SUBSET Int
  <2>1. \A i \in 1..Len(s) : i \in Int
    BY <1>1
  <2>. QED
    BY <1>1, <2>1
<1>3. IsFiniteSet(P)
  BY <1>1, FiniteUpTo
<1>4. IsAscent(a, P)
  BY <1>2, <1>3, AscendingIs
<1>5. /\ n \in Nat /\ a \in [1..n -> P]
      /\ \A i \in P : Rank(P, i) \in 1..n /\ a[Rank(P, i)] = i
  BY <1>4 DEF IsAscent
<1>6. t = [k \in DOMAIN a |-> s[a[k]]]
  BY DEF Selected
<1> HIDE DEF n, a, t
<1>7. t = [k \in 1..n |-> s[a[k]]] /\ \A k \in 1..n : a[k] \in P
  BY <1>5, <1>6
<1>8. t \in [1..n -> T]
  BY <1>1, <1>7
<1>9. t \in Seq(T) /\ Len(t) = n
  BY <1>5, <1>8, FunctionIsSequence
<1>10. Range(t) = {s[i] : i \in P}
  <2>1. \A x : x \in Range(t) <=> \E k \in 1..n : x = s[a[k]]
    BY <1>7 DEF Range
  <2>2. ASSUME NEW i \in P PROVE s[i] \in Range(t)
    <3>1. Rank(P, i) \in 1..n /\ a[Rank(P, i)] = i
      BY <1>5
    <3>. QED
      BY <2>1, <3>1
  <2>. QED
    BY <1>7, <2>1, <2>2
<1>11. DOMAIN t = 1..n /\ \A k \in 1..n : t[k] = s[a[k]]
  BY <1>7
<1>. QED
  BY <1>2, <1>3, <1>4, <1>5, <1>9, <1>10, <1>11 DEF n, a, t

(* As far as nothing is left out, the places are themselves.               *)
LEMMA AscentStart ==
  ASSUME NEW P \in SUBSET (Nat \ {0}), IsFiniteSet(P), NEW k \in Nat, 1..k \subseteq P, NEW j \in 1..k
  PROVE  j \in 1..Cardinality(P) /\ Ascending(P)[j] = j
<1>1. IsAscent(Ascending(P), P)
  <2>1. P \in SUBSET Int
    <3>1. \A i \in Nat \ {0} : i \in Int
      OBVIOUS
    <3>. QED
      BY <3>1
  <2>. QED
    BY <2>1, AscendingIs
<1>2. {i \in P : i <= j} = 1..j
  <2>1. ASSUME NEW i \in P, i <= j PROVE i \in 1..j
    <3>1. i \in Nat \ {0}
      OBVIOUS
    <3>. QED
      BY <2>1, <3>1
  <2>2. ASSUME NEW i \in 1..j PROVE i \in P /\ i <= j
    <3>1. i \in 1..k
      OBVIOUS
    <3>. QED
      BY <3>1
  <2>. QED
    BY <2>1, <2>2
<1>3. Rank(P, j) = j
  <2>1. Cardinality(1..j) = j
    BY FS_Interval
  <2>. QED
    BY <1>2, <2>1 DEF Rank
<1>4. j \in P
  OBVIOUS
<1>. QED
  BY <1>1, <1>3, <1>4 DEF IsAscent

(* What is selected of the start of a sequence is that start.              *)
LEMMA SelectedStart ==
  ASSUME NEW T, NEW s \in Seq(T), NEW P \in SUBSET (DOMAIN s), NEW k \in Nat, 1..k \subseteq P,
         NEW j \in 1..k
  PROVE  j \in DOMAIN Selected(s, P) /\ Selected(s, P)[j] = s[j]
<1>1. P \in SUBSET (Nat \ {0}) /\ IsFiniteSet(P)
  <2>1. \A i \in DOMAIN s : i \in Nat \ {0}
    BY LenProperties
  <2>. QED
    BY <2>1, SelectedIs
<1>2. j \in 1..Cardinality(P) /\ Ascending(P)[j] = j
  BY <1>1, AscentStart
<1>. QED
  BY <1>2, SelectedIs

(* Nothing left out.                                                       *)
LEMMA AllSelected ==
  ASSUME NEW T, NEW s \in Seq(T)
  PROVE  Selected(s, DOMAIN s) = s
<1>1. DOMAIN s = 1..Len(s) /\ Len(s) \in Nat
  BY LenProperties
<1>2. Selected(s, DOMAIN s) \in Seq(T) /\ Len(Selected(s, DOMAIN s)) = Cardinality(1..Len(s))
  BY <1>1, SelectedIs
<1>3. Cardinality(1..Len(s)) = Len(s)
  BY <1>1, FS_Interval
<1>4. \A j \in 1..Len(s) : Selected(s, DOMAIN s)[j] = s[j]
  BY <1>1, SelectedStart
<1>. QED
  BY <1>2, <1>3, <1>4, SeqEqual

(* c ascends.                                                              *)
Ascends(c, n) ==
  n \in Nat /\ c \in [1..n -> Int] /\ \A j, k \in 1..n : j < k => c[j] < c[k]

(* An ascending sequence is a row, in which the smaller numbers are first. *)
LEMMA AscentIsRow ==
  ASSUME NEW n, NEW c, Ascends(c, n)
  PROVE  /\ c \in Rows(Int)
         /\ \A x, y : Before(c, x, y) <=> x \in Range(c) /\ y \in Range(c) /\ x < y
<1>1. /\ n \in Nat /\ c \in [1..n -> Int] /\ DOMAIN c = 1..n
      /\ \A j, k \in 1..n : j < k => c[j] < c[k]
      /\ \A k \in 1..n : c[k] \in Int
  BY DEF Ascends
<1>2. \A j, k \in 1..n : c[j] = c[k] => j = k
  <2>1. SUFFICES ASSUME NEW j \in 1..n, NEW k \in 1..n, c[j] = c[k] PROVE j = k
    OBVIOUS
  <2>2. ~(j < k) /\ ~(k < j)
    BY <1>1, <2>1
  <2>. QED
    BY <2>2
<1>3. c \in Seq(Int)
  BY <1>1, FunctionIsSequence
<1>4. c \in Rows(Int)
  BY <1>1, <1>2, <1>3 DEF Rows, IsInjective
<1>5. ASSUME NEW x, NEW y
      PROVE  Before(c, x, y) <=> x \in Range(c) /\ y \in Range(c) /\ x < y
  <2>1. Before(c, x, y) => x \in Range(c) /\ y \in Range(c) /\ x < y
    BY <1>1 DEF Before, Range
  <2>2. ASSUME NEW j \in 1..n, NEW k \in 1..n, c[j] < c[k] PROVE j < k
    <3>1. j # k /\ ~(k < j)
      BY <1>1, <2>2
    <3>. QED
      BY <3>1
  <2>3. ASSUME x \in Range(c), y \in Range(c), x < y PROVE Before(c, x, y)
    <3>1. PICK j, k \in 1..n : x = c[j] /\ y = c[k]
      BY <1>1, <2>3 DEF Range
    <3>2. j < k
      BY <2>2, <2>3, <3>1
    <3>. QED
      BY <1>1, <3>1, <3>2 DEF Before
  <2>. QED
    BY <2>1, <2>3
<1>. QED
  BY <1>4, <1>5

(* There is one way for numbers to ascend.                                 *)
LEMMA SameAscent ==
  ASSUME NEW m, NEW n, NEW c, NEW d, Ascends(c, m), Ascends(d, n), Range(c) = Range(d)
  PROVE  c = d
<1>1. c \in Rows(Int) /\ d \in Rows(Int)
  BY AscentIsRow
<1>2. \A x, y : Before(c, x, y) <=> Before(d, x, y)
  BY AscentIsRow
<1>. QED
  BY <1>1, <1>2, SameRow

(* An ascent is one.                                                       *)
LEMMA AscentAscends ==
  ASSUME NEW P \in SUBSET Int, IsFiniteSet(P)
  PROVE  Ascends(Ascending(P), Cardinality(P)) /\ Range(Ascending(P)) = P
<1>1. IsAscent(Ascending(P), P)
  BY AscendingIs
<1> DEFINE n == Cardinality(P)
           a == Ascending(P)
<1>2. /\ n \in Nat /\ a \in [1..n -> P]
      /\ \A j, k \in 1..n : j < k => a[j] < a[k]
      /\ \A i \in P : Rank(P, i) \in 1..n /\ a[Rank(P, i)] = i
  BY <1>1 DEF IsAscent
<1> HIDE DEF n, a
<1>3. a \in [1..n -> Int]
  BY <1>2
<1>4. Range(a) = P
  <2>1. ASSUME NEW i \in P PROVE i \in Range(a)
    <3>1. Rank(P, i) \in 1..n /\ a[Rank(P, i)] = i
      BY <1>2
    <3>. QED
      BY <1>2, <3>1 DEF Range
  <2>. QED
    BY <1>2, <2>1 DEF Range
<1>. QED
  BY <1>2, <1>3, <1>4 DEF Ascends, n, a

(* A selection of a selection.                                             *)
LEMMA SelectedTwice ==
  ASSUME NEW T, NEW s \in Seq(T), NEW P \in SUBSET (DOMAIN s),
         NEW Q \in SUBSET (DOMAIN Selected(s, P))
  PROVE  Selected(Selected(s, P), Q) = Selected(s, {Ascending(P)[q] : q \in Q})
<1> DEFINE t == Selected(s, P)
           n == Cardinality(P)
           a == Ascending(P)
           R == {a[q] : q \in Q}
           m == Cardinality(Q)
           b == Ascending(Q)
           c == [k \in 1..m |-> a[b[k]]]
           d == Ascending(R)
<1>1. /\ P \in SUBSET Int /\ IsFiniteSet(P)
      /\ t \in Seq(T) /\ DOMAIN t = 1..n /\ n \in Nat
      /\ \A k \in 1..n : t[k] = s[a[k]]
  BY SelectedIs
<1>2. /\ Q \in SUBSET Int /\ IsFiniteSet(Q) /\ m \in Nat /\ Q \subseteq 1..n
      /\ DOMAIN Selected(t, Q) = 1..m
      /\ \A k \in 1..m : Selected(t, Q)[k] = t[b[k]]
  BY <1>1, SelectedIs
<1>3. /\ a \in [1..n -> P] /\ \A j, k \in 1..n : j < k => a[j] < a[k]
  BY <1>1, AscendingIs DEF IsAscent
<1>4. /\ b \in [1..m -> Q] /\ \A j, k \in 1..m : j < k => b[j] < b[k]
      /\ Range(b) = Q
  BY <1>2, AscendingIs, AscentAscends DEF IsAscent
<1>5. R \in SUBSET (DOMAIN s)
  BY <1>2, <1>3
<1>6. /\ R \in SUBSET Int /\ IsFiniteSet(R)
      /\ DOMAIN Selected(s, R) = 1..Cardinality(R)
      /\ \A k \in 1..Cardinality(R) : Selected(s, R)[k] = s[d[k]]
  BY <1>5, SelectedIs
<1>7. Ascends(d, Cardinality(R)) /\ Range(d) = R
  BY <1>6, AscentAscends
<1> HIDE DEF t, n, a, m, b, d
<1>8. \A k \in 1..m : b[k] \in Q /\ b[k] \in 1..n /\ a[b[k]] \in P
  BY <1>2, <1>3, <1>4
<1>9. Ascends(c, m)
  <2>1. c \in [1..m -> Int]
    BY <1>1, <1>8
  <2>2. ASSUME NEW j \in 1..m, NEW k \in 1..m, j < k PROVE c[j] < c[k]
    <3>1. b[j] < b[k] /\ b[j] \in 1..n /\ b[k] \in 1..n
      BY <1>4, <1>8, <2>2
    <3>. QED
      BY <1>3, <3>1
  <2> HIDE DEF c
  <2>. QED
    BY <1>2, <2>1, <2>2 DEF Ascends
<1>10. Range(c) = R
  <2>1. \A x : x \in Range(c) <=> \E k \in 1..m : x = a[b[k]]
    BY DEF Range
  <2>2. \A q : q \in Q <=> \E k \in 1..m : q = b[k]
    BY <1>4 DEF Range
  <2> HIDE DEF c
  <2>. QED
    BY <2>1, <2>2
<1>11. c = d
  <2> HIDE DEF c, R
  <2>. QED
    BY <1>7, <1>9, <1>10, SameAscent
<1>12. Cardinality(R) = m
  <2>1. DOMAIN d = 1..Cardinality(R) /\ Cardinality(R) \in Nat
    BY <1>7 DEF Ascends
  <2>2. DOMAIN d = 1..m
    BY <1>11
  <2> HIDE DEF R
  <2>3. \A k \in Nat : Cardinality(1..k) = k
    BY FS_Interval
  <2>. QED
    BY <1>2, <2>1, <2>2, <2>3
<1>13. \A k \in 1..m : Selected(t, Q)[k] = Selected(s, R)[k]
  <2>1. \A k \in 1..m : d[k] = a[b[k]]
    BY <1>11
  <2> HIDE DEF c, R
  <2>. QED
    BY <1>1, <1>2, <1>6, <1>8, <1>12, <2>1
<1>14. Selected(t, Q) \in Seq(T) /\ Len(Selected(t, Q)) = m
  BY <1>1, <1>2, SelectedIs DEF m
<1>15. Selected(s, R) \in Seq(T) /\ Len(Selected(s, R)) = Cardinality(R)
  BY <1>5, SelectedIs
<1> HIDE DEF R
<1>16. Selected(t, Q) = Selected(s, R)
  BY <1>12, <1>13, <1>14, <1>15, SeqEqual
<1>. QED
  BY <1>16 DEF t, R, a

-----------------------------------------------------------------------------
(* A layout file of an older build.                                        *)

(* The layout's rules select as the dashboard does.                        *)
LEMMA RulesSelect ==
  /\ \A s, P : Rules!Selected(s, P) = Selected(s, P)
  /\ \A s, S : Rules!Without(s, S) = Without(s, S)
  /\ \A s : Rules!Range(s) = Range(s)
<1>1. \A s, P : Rules!Selected(s, P) = Selected(s, P)
  <2>1. \A P : Rules!Ascending(P) = Ascending(P)
    BY DEF Rules!Ascending, Ascending, Rules!Rank, Rank, Rules!Cardinality, Cardinality
  <2>. QED
    BY <2>1, Zenon DEF Rules!Selected, Selected
<1>2. \A s : Rules!Range(s) = Range(s)
  BY DEF Rules!Range, Range
<1>. QED
  BY <1>1, <1>2 DEF Rules!Without, Without, Rules!Only, Only

(* The first of each, and none that is empty.                              *)
First(s) == {k \in DOMAIN s : Rules!IsFirst(s, k)}

(* Whatever is in a list is there a first time.                            *)
LEMMA EachHasAFirst ==
  ASSUME NEW T, NEW s \in Seq(T), NEW i \in DOMAIN s, s[i] # Rules!Unset
  PROVE  \E k \in First(s) : s[k] = s[i]
<1>1. DOMAIN s = 1..Len(s) /\ Len(s) \in Nat
  BY LenProperties
<1> DEFINE P == {k \in DOMAIN s : s[k] = s[i]}
<1>2. P \in SUBSET Nat /\ P # {}
  BY <1>1
<1>3. PICK k \in P : \A m \in P : k <= m
  <2> HIDE DEF P
  <2>. QED
    BY <1>2, LeastOfSome
<1>4. k \in DOMAIN s /\ s[k] = s[i] /\ k \in Nat
  BY <1>2
<1>5. ASSUME NEW j \in 1..(k - 1) PROVE s[j] # s[k]
  <2>1. j \in DOMAIN s /\ ~(k <= j)
    BY <1>1, <1>4
  <2>2. j \notin P
    BY <1>3, <2>1
  <2>. QED
    BY <1>4, <2>1, <2>2
<1>. QED
  BY <1>4, <1>5 DEF First, Rules!IsFirst

(* A row of what is set.                                                   *)
IsList(s) == s \in Rows(Names) /\ Rules!Unset \notin Range(s)

(* Normalising leaves a list: the same names, each once, without the empty *)
(* one.                                                                    *)
LEMMA NormalizedIsList ==
  ASSUME NEW s \in Seq(Names)
  PROVE  /\ IsList(Rules!NormalizeIDList(s))
         /\ Range(Rules!NormalizeIDList(s)) = Range(s) \ {Rules!Unset}
<1> DEFINE P == First(s)
           t == Selected(s, P)
           n == Cardinality(P)
           a == Ascending(P)
<1>1. Rules!NormalizeIDList(s) = t
  BY RulesSelect DEF Rules!NormalizeIDList, First
<1>2. P \in SUBSET (DOMAIN s)
  BY DEF First
<1>3. DOMAIN s = 1..Len(s) /\ Len(s) \in Nat
  BY LenProperties
<1>4. /\ IsAscent(a, P) /\ t \in Seq(Names) /\ DOMAIN t = 1..n
      /\ \A k \in 1..n : t[k] = s[a[k]]
      /\ Range(t) = {s[i] : i \in P}
  BY <1>2, SelectedIs
<1>5. a \in [1..n -> P] /\ \A j, k \in 1..n : j < k => a[j] < a[k]
  BY <1>4 DEF IsAscent
<1>6. ASSUME NEW j \in P, NEW k \in P, j < k PROVE s[j] # s[k]
  <2>1. j \in 1..(k - 1)
    BY <1>2, <1>3, <1>6
  <2>. QED
    BY <2>1 DEF First, Rules!IsFirst
<1>7. Range(t) = Range(s) \ {Rules!Unset}
  <2>1. ASSUME NEW i \in DOMAIN s, s[i] # Rules!Unset PROVE s[i] \in Range(t)
    BY <1>4, <2>1, EachHasAFirst
  <2>2. ASSUME NEW i \in P PROVE s[i] \in Range(s) \ {Rules!Unset}
    BY DEF First, Rules!IsFirst, Range
  <2>3. \A x : x \in Range(s) <=> \E i \in DOMAIN s : x = s[i]
    BY DEF Range
  <2>4. \A x : x \in Range(t) <=> \E i \in P : x = s[i]
    BY <1>4
  <2> HIDE DEF t, P
  <2>. QED
    BY <2>1, <2>2, <2>3, <2>4
<1> HIDE DEF P, t, n, a
<1>8. \A j, k \in 1..n : t[j] = t[k] => j = k
  <2>1. SUFFICES ASSUME NEW j \in 1..n, NEW k \in 1..n, t[j] = t[k] PROVE j = k
    OBVIOUS
  <2>2. a[j] \in P /\ a[k] \in P /\ t[j] = s[a[j]] /\ t[k] = s[a[k]]
    BY <1>4, <1>5
  <2>3. ~(j < k) /\ ~(k < j)
    BY <1>5, <1>6, <2>1, <2>2
  <2>4. n \in Nat
    BY <1>4 DEF IsAscent, n
  <2>. QED
    BY <2>3, <2>4
<1>9. IsList(t)
  BY <1>4, <1>7, <1>8 DEF IsList, Rows, IsInjective
<1>. QED
  BY <1>1, <1>7, <1>9

(* The start of a sequence that is a list, when the rest has nothing new.  *)
LEMMA NormalizedStart ==
  ASSUME NEW h, IsList(h), NEW w \in Seq(Names), Range(w) \subseteq Range(h) \cup {Rules!Unset}
  PROVE  Rules!NormalizeIDList(h \o w) = h
<1> DEFINE s == h \o w
           m == Len(h)
<1>1. /\ h \in Seq(Names) /\ DOMAIN h = 1..m /\ m \in Nat
      /\ \A i, j \in 1..m : h[i] = h[j] => i = j
      /\ \A i \in 1..m : h[i] # Rules!Unset
  <2>1. h \in Seq(Names) /\ \A i, j \in DOMAIN h : h[i] = h[j] => i = j
    BY DEF IsList, Rows, IsInjective
  <2>. QED
    BY <2>1, LenProperties DEF IsList, Range
<1>2. DOMAIN w = 1..Len(w) /\ Len(w) \in Nat
  BY LenProperties
<1>3. /\ s \in Seq(Names) /\ Len(s) = m + Len(w)
      /\ \A i \in 1..(m + Len(w)) : s[i] = IF i <= m THEN h[i] ELSE w[i - m]
  BY <1>1, ConcatProperties
<1>4. DOMAIN s = 1..(m + Len(w))
  BY <1>3, LenProperties
<1> HIDE DEF s, m
<1>5. ASSUME NEW i \in 1..m PROVE i \in First(s)
  <2>1. i \in 1..(m + Len(w)) /\ s[i] = h[i] /\ s[i] # Rules!Unset
    BY <1>1, <1>2, <1>3
  <2>2. ASSUME NEW j \in 1..(i - 1) PROVE s[j] # s[i]
    <3>1. j \in 1..m /\ j # i /\ j \in 1..(m + Len(w)) /\ j <= m
      BY <1>1, <1>2
    <3>. QED
      BY <1>1, <1>3, <2>1, <3>1
  <2>. QED
    BY <1>4, <2>1, <2>2 DEF First, Rules!IsFirst
<1>6. ASSUME NEW i \in First(s) PROVE i \in 1..m
  <2>1. i \in 1..(m + Len(w)) /\ s[i] # Rules!Unset /\ \A j \in 1..(i - 1) : s[j] # s[i]
    BY <1>4 DEF First, Rules!IsFirst
  <2>2. SUFFICES ASSUME ~(i <= m) PROVE FALSE
    BY <1>1, <1>2, <2>1
  <2>3. i - m \in 1..Len(w) /\ s[i] = w[i - m]
    BY <1>1, <1>2, <1>3, <2>1, <2>2
  <2>4. s[i] \in Range(h)
    BY <1>2, <2>1, <2>3 DEF Range
  <2>5. PICK j \in 1..m : h[j] = s[i]
    BY <1>1, <2>4 DEF Range
  <2>6. j \in 1..(i - 1) /\ j \in 1..(m + Len(w)) /\ j <= m
    BY <1>1, <1>2, <2>1, <2>2
  <2>. QED
    BY <1>3, <2>1, <2>5, <2>6
<1>7. First(s) = 1..m
  BY <1>5, <1>6
<1>8. Rules!NormalizeIDList(s) = Selected(s, 1..m)
  BY <1>7, RulesSelect DEF Rules!NormalizeIDList, First
<1>9. 1..m \in SUBSET (DOMAIN s)
  BY <1>1, <1>2, <1>4
<1>10. Selected(s, 1..m) \in Seq(Names) /\ Len(Selected(s, 1..m)) = m
  <2>1. Cardinality(1..m) = m
    BY <1>1, FS_Interval
  <2>. QED
    BY <1>3, <1>9, <2>1, SelectedIs
<1>11. \A i \in 1..m : Selected(s, 1..m)[i] = h[i]
  <2>1. \A i \in 1..m : Selected(s, 1..m)[i] = s[i]
    BY <1>1, <1>3, <1>9, SelectedStart
  <2>2. \A i \in 1..m : i \in 1..(m + Len(w)) /\ i <= m
    BY <1>1, <1>2
  <2>. QED
    BY <1>3, <2>1, <2>2
<1>12. Selected(s, 1..m) = h
  <2>1. Len(h) = m
    BY DEF m
  <2>. QED
    BY <1>1, <1>10, <1>11, <2>1, SeqEqual
<1>. QED
  BY <1>8, <1>12 DEF s

(* Normalising a list again changes nothing.                               *)
LEMMA NormalizedOnce ==
  ASSUME NEW h, IsList(h)
  PROVE  Rules!NormalizeIDList(h) = h
<1>1. h \in Seq(Names)
  BY DEF IsList, Rows
<1>2. h \o <<>> = h /\ <<>> \in Seq(Names) /\ Range(<<>>) = {}
  BY <1>1, ConcatEmptySeq DEF Range
<1>. QED
  BY <1>2, NormalizedStart

(* The names a power graph has or had, a list with the old ones renamed,   *)
(* and the places that are left when the power graph is kept the first     *)
(* time only.                                                              *)
Powers == Rules!OldPower \cup {Rules!Power}
Renamed(ids) == [k \in DOMAIN ids |-> IF ids[k] \in Rules!OldPower THEN Rules!Power ELSE ids[k]]
OnePower(s) == {k \in DOMAIN s : s[k] = Rules!Power => Rules!IsFirst(s, k)}

(* No name of the power graph is the empty one.                            *)
LEMMA PowersAre ==
  /\ Rules!Power \notin Rules!OldPower /\ Rules!Unset \notin Powers
  /\ Rules!Power \in Names /\ Rules!Unset \in Names /\ Rules!Power # Rules!Unset
<1>1. Rules!Power \notin Rules!OldPower
  BY DEF Rules!OldPower, Rules!Power
<1>2. Rules!Unset \notin Powers /\ Rules!Power # Rules!Unset
  BY DEF Powers, Rules!OldPower, Rules!Power, Rules!Unset
<1>3. Rules!Power \in Names /\ Rules!Unset \in Names
  BY LayoutConstants DEF Rules!LayoutRulesConstants
<1>. QED
  BY <1>1, <1>2, <1>3

(* Migration is renaming and then taking places.                           *)
LEMMA RenamedIs ==
  ASSUME NEW ids \in Seq(Names)
  PROVE  /\ Renamed(ids) \in Seq(Names) /\ DOMAIN Renamed(ids) = DOMAIN ids
         /\ \A k \in DOMAIN ids : /\ Renamed(ids)[k] = Rules!Power <=> ids[k] \in Powers
                                  /\ ids[k] \notin Powers => Renamed(ids)[k] = ids[k]
                                  /\ Renamed(ids)[k] \notin Rules!OldPower
         /\ OnePower(Renamed(ids)) \in SUBSET (DOMAIN Renamed(ids))
         /\ Rules!MigrateDefaultPowerGraph(ids) = Selected(Renamed(ids), OnePower(Renamed(ids)))
<1> DEFINE r == Renamed(ids)
<1>1. /\ DOMAIN ids = 1..Len(ids) /\ Len(ids) \in Nat
      /\ \A k \in 1..Len(ids) : ids[k] \in Names
  BY LenProperties, ElementOfSeq
<1>2. /\ DOMAIN r = DOMAIN ids
      /\ \A k \in DOMAIN ids :
           r[k] = IF ids[k] \in Rules!OldPower THEN Rules!Power ELSE ids[k]
  BY DEF Renamed
<1>3. r = [k \in DOMAIN ids |-> r[k]]
  BY DEF Renamed
<1>4. Rules!MigrateDefaultPowerGraph(ids) = Selected(r, OnePower(r))
  BY RulesSelect DEF Rules!MigrateDefaultPowerGraph, Renamed, OnePower
<1> HIDE DEF r
<1>5. \A k \in DOMAIN ids : /\ r[k] = Rules!Power <=> ids[k] \in Powers
                            /\ ids[k] \notin Powers => r[k] = ids[k]
                            /\ r[k] \notin Rules!OldPower
  BY <1>2, PowersAre DEF Powers
<1>6. r \in [1..Len(ids) -> Names]
  <2>1. \A k \in 1..Len(ids) : r[k] \in Names
    BY <1>1, <1>2, PowersAre
  <2>. QED
    BY <1>1, <1>3, <2>1
<1>7. r \in Seq(Names)
  BY <1>1, <1>6, FunctionIsSequence
<1>8. OnePower(r) \in SUBSET (DOMAIN r)
  BY DEF OnePower
<1>. QED
  BY <1>2, <1>4, <1>5, <1>7, <1>8 DEF r

(* No old power graph, and the new one at most once.                       *)
IsMigrated(s) ==
  /\ s \in Seq(Names) /\ Range(s) \cap Rules!OldPower = {}
  /\ \A j, k \in DOMAIN s : s[j] = Rules!Power /\ s[k] = Rules!Power => j = k

(* A migrated list has the power graph once, under its new name, and the   *)
(* other graphs as before.                                                 *)
LEMMA MigratedIs ==
  ASSUME NEW ids \in Seq(Names)
  PROVE  LET m == Rules!MigrateDefaultPowerGraph(ids)
         IN  /\ IsMigrated(m)
             /\ Range(m) \ {Rules!Power} = Range(ids) \ Powers
             /\ Rules!Power \in Range(m) <=> Range(ids) \cap Powers # {}
<1> DEFINE r == Renamed(ids)
           P == OnePower(r)
           m == Selected(r, P)
           n == Cardinality(P)
           a == Ascending(P)
<1>1. /\ r \in Seq(Names) /\ DOMAIN r = DOMAIN ids /\ P \in SUBSET (DOMAIN r)
      /\ \A k \in DOMAIN ids : /\ r[k] = Rules!Power <=> ids[k] \in Powers
                               /\ ids[k] \notin Powers => r[k] = ids[k]
                               /\ r[k] \notin Rules!OldPower
      /\ Rules!MigrateDefaultPowerGraph(ids) = m
  BY RenamedIs
<1>2. DOMAIN r = 1..Len(r) /\ Len(r) \in Nat
  BY <1>1, LenProperties
<1>3. /\ IsAscent(a, P) /\ m \in Seq(Names) /\ DOMAIN m = 1..n
      /\ \A k \in 1..n : m[k] = r[a[k]]
      /\ Range(m) = {r[i] : i \in P}
  BY <1>1, SelectedIs
<1>4. n \in Nat /\ a \in [1..n -> P] /\ \A j, k \in 1..n : j < k => a[j] < a[k]
  BY <1>3 DEF IsAscent
<1>5. ASSUME NEW j \in P, NEW k \in P, r[j] = Rules!Power, r[k] = Rules!Power PROVE ~(j < k)
  <2>1. SUFFICES ASSUME j < k PROVE FALSE
    OBVIOUS
  <2>2. j \in 1..(k - 1)
    BY <1>1, <1>2, <2>1
  <2>. QED
    BY <1>5, <2>2 DEF OnePower, Rules!IsFirst
<1>6. ASSUME NEW i \in DOMAIN ids, r[i] = Rules!Power PROVE \E k \in P : r[k] = Rules!Power
  <2>1. PICK k \in First(r) : r[k] = r[i]
    BY <1>1, <1>6, EachHasAFirst, PowersAre
  <2>2. k \in DOMAIN r /\ Rules!IsFirst(r, k)
    BY DEF First
  <2>3. k \in P
    BY <2>2 DEF OnePower
  <2>. QED
    BY <1>6, <2>1, <2>3
<1>7. \A i \in DOMAIN ids : r[i] # Rules!Power => i \in P
  BY <1>1 DEF OnePower
<1> HIDE DEF r, P, m, n, a
<1>8. \A x : x \in Range(ids) <=> \E i \in DOMAIN ids : x = ids[i]
  BY DEF Range
<1>9. \A x : x \in Range(m) <=> \E i \in P : x = r[i]
  BY <1>3
<1>10. \A i \in P : i \in DOMAIN ids
  BY <1>1
<1>11. Range(m) \ {Rules!Power} = Range(ids) \ Powers
  <2>1. ASSUME NEW x \in Range(m) \ {Rules!Power} PROVE x \in Range(ids) \ Powers
    <3>1. PICK i \in P : x = r[i]
      BY <1>9
    <3>. QED
      BY <1>1, <1>8, <1>10, <3>1
  <2>2. ASSUME NEW x \in Range(ids) \ Powers PROVE x \in Range(m) \ {Rules!Power}
    <3>1. PICK i \in DOMAIN ids : x = ids[i]
      BY <1>8
    <3>2. r[i] = x /\ r[i] # Rules!Power
      BY <1>1, <3>1
    <3>. QED
      BY <1>7, <1>9, <3>2
  <2>. QED
    BY <2>1, <2>2
<1>12. Rules!Power \in Range(m) <=> Range(ids) \cap Powers # {}
  <2>1. ASSUME Rules!Power \in Range(m) PROVE Range(ids) \cap Powers # {}
    <3>1. PICK i \in P : Rules!Power = r[i]
      BY <1>9, <2>1
    <3>2. ids[i] \in Powers /\ ids[i] \in Range(ids)
      BY <1>1, <1>8, <1>10, <3>1
    <3>. QED
      BY <3>2
  <2>2. ASSUME NEW x \in Range(ids) \cap Powers PROVE Rules!Power \in Range(m)
    <3>1. PICK i \in DOMAIN ids : x = ids[i]
      BY <1>8
    <3>2. r[i] = Rules!Power
      BY <1>1, <3>1
    <3>. QED
      BY <1>6, <1>9, <3>2
  <2>. QED
    BY <2>1, <2>2
<1>13. IsMigrated(m)
  <2>1. Range(m) \cap Rules!OldPower = {}
    BY <1>1, <1>9, <1>10
  <2>2. ASSUME NEW j \in 1..n, NEW k \in 1..n, m[j] = Rules!Power, m[k] = Rules!Power PROVE j = k
    <3>1. a[j] \in P /\ a[k] \in P /\ r[a[j]] = Rules!Power /\ r[a[k]] = Rules!Power
      BY <1>3, <1>4, <2>2
    <3>2. ~(a[j] < a[k]) /\ ~(a[k] < a[j])
      BY <1>5, <3>1
    <3>. QED
      BY <1>4, <3>2
  <2>. QED
    BY <1>3, <2>1, <2>2 DEF IsMigrated
<1>. QED
  BY <1>1, <1>11, <1>12, <1>13 DEF m

(* Migrating again changes nothing.                                        *)
LEMMA MigratedOnce ==
  ASSUME NEW s, IsMigrated(s)
  PROVE  Rules!MigrateDefaultPowerGraph(s) = s
<1> DEFINE r == Renamed(s)
<1>1. s \in Seq(Names) /\ DOMAIN s = 1..Len(s) /\ Len(s) \in Nat
  BY LenProperties DEF IsMigrated
<1>2. \A k \in DOMAIN s : s[k] \notin Rules!OldPower
  BY DEF IsMigrated, Range
<1>3. /\ r \in Seq(Names) /\ DOMAIN r = DOMAIN s
      /\ \A k \in DOMAIN s : r[k] = Rules!Power <=> s[k] \in Powers
      /\ \A k \in DOMAIN s : s[k] \notin Powers => r[k] = s[k]
      /\ Rules!MigrateDefaultPowerGraph(s) = Selected(r, OnePower(r))
  BY <1>1, RenamedIs
<1> HIDE DEF r
<1>4. \A k \in DOMAIN s : r[k] = s[k]
  BY <1>2, <1>3 DEF Powers
<1>5. r = s
  <2>1. Len(r) = Len(s)
    <3>1. DOMAIN r = 1..Len(r) /\ Len(r) \in Nat
      BY <1>3, LenProperties
    <3>2. 1..Len(r) = 1..Len(s)
      BY <1>1, <1>3, <3>1
    <3>3. \A k \in Nat : Cardinality(1..k) = k
      BY FS_Interval
    <3>. QED
      BY <1>1, <3>1, <3>2, <3>3
  <2>. QED
    BY <1>1, <1>3, <1>4, <2>1, SeqEqual
<1>6. OnePower(s) = DOMAIN s
  <2>1. ASSUME NEW k \in DOMAIN s, s[k] = Rules!Power PROVE Rules!IsFirst(s, k)
    <3>1. s[k] # Rules!Unset
      BY <2>1, PowersAre
    <3>2. ASSUME NEW j \in 1..(k - 1) PROVE s[j] # s[k]
      <4>1. j \in DOMAIN s /\ j # k
        BY <1>1
      <4>. QED
        BY <2>1, <4>1 DEF IsMigrated
    <3>. QED
      BY <3>1, <3>2 DEF Rules!IsFirst
  <2>. QED
    BY <2>1 DEF OnePower
<1>. QED
  BY <1>1, <1>3, <1>5, <1>6, AllSelected

(* A list without some of its names.                                       *)
LEMMA WithoutIs ==
  ASSUME NEW T, NEW s \in Seq(T), NEW S
  PROVE  /\ {i \in DOMAIN s : s[i] \notin S} \in SUBSET (DOMAIN s)
         /\ Without(s, S) = Selected(s, {i \in DOMAIN s : s[i] \notin S})
         /\ Without(s, S) \in Seq(T) /\ Range(Without(s, S)) = Range(s) \ S
<1> DEFINE P == {i \in DOMAIN s : s[i] \notin S}
<1>1. P = {i \in DOMAIN s : s[i] \in Range(s) \ S}
  BY DEF Range
<1>2. Without(s, S) = Selected(s, P)
  BY <1>1 DEF Without, Only
<1>3. P \in SUBSET (DOMAIN s)
  OBVIOUS
<1>4. Selected(s, P) \in Seq(T) /\ Range(Selected(s, P)) = {s[i] : i \in P}
  BY <1>3, SelectedIs
<1>5. {s[i] : i \in P} = Range(s) \ S
  BY DEF Range
<1>. QED
  BY <1>2, <1>3, <1>4, <1>5

(* One list after another.                                                 *)
LEMMA RangeOfConcat ==
  ASSUME NEW T, NEW s \in Seq(T), NEW t \in Seq(T)
  PROVE  s \o t \in Seq(T) /\ Range(s \o t) = Range(s) \cup Range(t)
<1> DEFINE u == s \o t
<1>1. /\ DOMAIN s = 1..Len(s) /\ Len(s) \in Nat /\ DOMAIN t = 1..Len(t) /\ Len(t) \in Nat
      /\ u \in Seq(T) /\ DOMAIN u = 1..(Len(s) + Len(t))
      /\ \A i \in 1..(Len(s) + Len(t)) : u[i] = IF i <= Len(s) THEN s[i] ELSE t[i - Len(s)]
  BY ConcatProperties, LenProperties
<1> HIDE DEF u
<1>2. ASSUME NEW x \in Range(u) PROVE x \in Range(s) \cup Range(t)
  <2>1. PICK i \in 1..(Len(s) + Len(t)) : x = u[i]
    BY <1>1 DEF Range
  <2>2. CASE i <= Len(s)
    <3>1. i \in 1..Len(s) /\ x = s[i]
      BY <1>1, <2>1, <2>2
    <3>. QED
      BY <1>1, <3>1 DEF Range
  <2>3. CASE ~(i <= Len(s))
    <3>1. i - Len(s) \in 1..Len(t) /\ x = t[i - Len(s)]
      BY <1>1, <2>1, <2>3
    <3>. QED
      BY <1>1, <3>1 DEF Range
  <2>. QED
    BY <2>2, <2>3
<1>3. ASSUME NEW i \in 1..Len(s) PROVE s[i] \in Range(u)
  <2>1. i \in 1..(Len(s) + Len(t)) /\ u[i] = s[i]
    BY <1>1
  <2>. QED
    BY <1>1, <2>1 DEF Range
<1>4. ASSUME NEW i \in 1..Len(t) PROVE t[i] \in Range(u)
  <2>1. i + Len(s) \in 1..(Len(s) + Len(t)) /\ ~(i + Len(s) <= Len(s)) /\ i + Len(s) - Len(s) = i
    BY <1>1
  <2>2. u[i + Len(s)] = t[i]
    BY <1>1, <2>1
  <2>. QED
    BY <1>1, <2>1, <2>2 DEF Range
<1>5. Range(u) = Range(s) \cup Range(t)
  <2>1. \A x \in Range(s) : \E i \in 1..Len(s) : x = s[i]
    BY <1>1 DEF Range
  <2>2. \A x \in Range(t) : \E i \in 1..Len(t) : x = t[i]
    BY <1>1 DEF Range
  <2>. QED
    BY <1>2, <1>3, <1>4, <2>1, <2>2
<1>. QED
  BY <1>1, <1>5 DEF u

(* Migration keeps the other graphs in their order.                        *)
LEMMA MigratedOthers ==
  ASSUME NEW ids \in Seq(Names)
  PROVE  Without(Rules!MigrateDefaultPowerGraph(ids), Powers) = Without(ids, Powers)
<1> DEFINE r == Renamed(ids)
           P == OnePower(r)
           m == Selected(r, P)
           n == Cardinality(P)
           a == Ascending(P)
           Q == {q \in DOMAIN m : m[q] \notin Powers}
           A == {i \in DOMAIN ids : ids[i] \notin Powers}
<1>1. /\ r \in Seq(Names) /\ DOMAIN r = DOMAIN ids /\ P \in SUBSET (DOMAIN r)
      /\ \A k \in DOMAIN ids : /\ r[k] = Rules!Power <=> ids[k] \in Powers
                               /\ ids[k] \notin Powers => r[k] = ids[k]
      /\ Rules!MigrateDefaultPowerGraph(ids) = m
  BY RenamedIs
<1>2. /\ IsAscent(a, P) /\ m \in Seq(Names) /\ DOMAIN m = 1..n
      /\ \A k \in 1..n : m[k] = r[a[k]]
  BY <1>1, SelectedIs
<1>3. a \in [1..n -> P] /\ \A i \in P : Rank(P, i) \in 1..n /\ a[Rank(P, i)] = i
  BY <1>2 DEF IsAscent
<1>4. Without(m, Powers) = Selected(m, Q) /\ Q \in SUBSET (DOMAIN m)
  <2>1. m \in Seq(Names)
    BY <1>2
  <2> HIDE DEF m
  <2>2. Without(m, Powers) = Selected(m, {q \in DOMAIN m : m[q] \notin Powers})
    BY <2>1, WithoutIs
  <2>. QED
    BY <2>2
<1>5. Without(ids, Powers) = Selected(ids, A) /\ A \in SUBSET (DOMAIN ids)
  BY WithoutIs
<1>6. Selected(m, Q) = Selected(r, {a[q] : q \in Q})
  BY <1>1, <1>4, SelectedTwice
<1>7. \A i \in A : i \in P
  BY <1>1 DEF OnePower
<1>8. {a[q] : q \in Q} = A
  <2> HIDE DEF r, m, P, a, n
  <2>1. ASSUME NEW q \in Q PROVE a[q] \in A
    <3>1. q \in 1..n /\ r[a[q]] \notin Powers /\ a[q] \in DOMAIN ids
      BY <1>1, <1>2, <1>3
    <3>2. Rules!Power \in Powers
      BY DEF Powers
    <3>. QED
      BY <1>1, <3>1, <3>2
  <2>2. ASSUME NEW i \in A PROVE \E q \in Q : i = a[q]
    <3>1. i \in P /\ i \in DOMAIN ids /\ r[i] \notin Powers
      BY <1>1, <1>7
    <3>2. Rank(P, i) \in 1..n /\ a[Rank(P, i)] = i
      BY <1>3, <3>1
    <3>3. Rank(P, i) \in Q
      BY <1>2, <3>1, <3>2
    <3>. QED
      BY <3>2, <3>3
  <2> HIDE DEF Q, A
  <2>. QED
    BY <2>1, <2>2
<1>9. Selected(r, A) = Selected(ids, A)
  <2> DEFINE b == Ascending(A)
             k == Cardinality(A)
  <2>1. A \in SUBSET (DOMAIN r) /\ A \in SUBSET (DOMAIN ids)
    BY <1>1, <1>5
  <2>2. /\ IsAscent(b, A) /\ k \in Nat
        /\ Selected(r, A) \in Seq(Names) /\ Len(Selected(r, A)) = k
        /\ \A i \in 1..k : Selected(r, A)[i] = r[b[i]]
    BY <1>1, <2>1, SelectedIs
  <2>3. /\ Selected(ids, A) \in Seq(Names) /\ Len(Selected(ids, A)) = k
        /\ \A i \in 1..k : Selected(ids, A)[i] = ids[b[i]]
    BY <2>1, SelectedIs
  <2>4. \A i \in 1..k : b[i] \in A
    BY <2>2 DEF IsAscent
  <2>5. \A i \in A : r[i] = ids[i]
    BY <1>1
  <2> HIDE DEF b, k, A
  <2>6. \A i \in 1..k : Selected(r, A)[i] = Selected(ids, A)[i]
    BY <2>2, <2>3, <2>4, <2>5
  <2>. QED
    BY <2>2, <2>3, <2>6, SeqEqual
<1>. QED
  BY <1>1, <1>4, <1>5, <1>6, <1>8, <1>9

(* Where the first power graph is, if there is one.                        *)
PowerPlace(s) == {k \in DOMAIN s : s[k] \in Powers /\ \A j \in 1..(k - 1) : s[j] \notin Powers}

(* Migration leaves the power graph where its first name stood.            *)
LEMMA MigratedPlace ==
  ASSUME NEW ids \in Seq(Names)
  PROVE  PowerPlace(Rules!MigrateDefaultPowerGraph(ids)) = PowerPlace(ids)
<1> DEFINE r == Renamed(ids)
           P == OnePower(r)
           m == Selected(r, P)
<1>1. /\ r \in Seq(Names) /\ DOMAIN r = DOMAIN ids /\ P \in SUBSET (DOMAIN r)
      /\ \A k \in DOMAIN ids : /\ r[k] = Rules!Power <=> ids[k] \in Powers
                               /\ ids[k] \notin Powers => r[k] = ids[k]
      /\ Rules!MigrateDefaultPowerGraph(ids) = m
  BY RenamedIs
<1>2. DOMAIN ids = 1..Len(ids) /\ Len(ids) \in Nat
  BY LenProperties
<1>3. m \in Seq(Names) /\ DOMAIN m = 1..Len(m) /\ Len(m) \in Nat
  BY <1>1, SelectedIs, LenProperties
<1>4. Rules!Power \in Powers
  BY DEF Powers
<1>5. ASSUME NEW k \in PowerPlace(ids) PROVE k \in PowerPlace(m)
  <2>1. k \in 1..Len(ids) /\ ids[k] \in Powers /\ \A j \in 1..(k - 1) : ids[j] \notin Powers
    BY <1>2 DEF PowerPlace
  <2>2. r[k] = Rules!Power /\ \A j \in 1..(k - 1) : r[j] \notin Powers /\ j \in DOMAIN ids
    <3>1. \A j \in 1..(k - 1) : j \in DOMAIN ids
      BY <1>2, <2>1
    <3>. QED
      BY <1>1, <1>2, <2>1, <3>1
  <2>3. \A j \in 1..(k - 1) : j \in P
    BY <1>1, <1>4, <2>2 DEF OnePower
  <2>4. k \in P
    <3>1. Rules!IsFirst(r, k)
      BY <1>4, <2>2, PowersAre DEF Rules!IsFirst
    <3>. QED
      BY <1>1, <1>2, <2>1, <3>1 DEF OnePower
  <2>5. 1..k \subseteq P /\ k \in Nat
    <3>1. \A j \in 1..k : j = k \/ j \in 1..(k - 1)
      BY <1>2, <2>1
    <3>. QED
      BY <1>2, <2>1, <2>3, <2>4, <3>1
  <2> HIDE DEF r, P
  <2>6. \A j \in 1..k : j \in DOMAIN m /\ m[j] = r[j]
    BY <1>1, <2>5, SelectedStart
  <2> HIDE DEF m
  <2>7. k \in DOMAIN m /\ m[k] \in Powers
    BY <1>4, <2>1, <2>2, <2>6
  <2>8. \A j \in 1..(k - 1) : m[j] \notin Powers
    <3>1. \A j \in 1..(k - 1) : j \in 1..k
      BY <1>2, <2>1
    <3>. QED
      BY <2>2, <2>6, <3>1
  <2>. QED
    BY <2>7, <2>8 DEF PowerPlace
<1>6. ASSUME NEW k \in PowerPlace(m) PROVE k \in PowerPlace(ids)
  <2>1. k \in DOMAIN m /\ m[k] \in Powers /\ \A j \in 1..(k - 1) : m[j] \notin Powers
    BY DEF PowerPlace
  <2>2. \E i \in DOMAIN ids : ids[i] \in Powers
    <3>1. m[k] \in {r[i] : i \in P}
      <4>1. m[k] \in Range(m) /\ Range(m) = {r[i] : i \in P}
        <5>1. m[k] \in Range(m)
          BY <2>1 DEF Range
        <5>. QED
          BY <1>1, <5>1, SelectedIs
      <4>. QED
        BY <4>1
    <3>2. PICK i \in P : m[k] = r[i]
      BY <3>1
    <3>3. i \in DOMAIN ids
      BY <1>1
    <3> HIDE DEF r, P, m
    <3>. QED
      BY <1>1, <2>1, <3>2, <3>3
  <2> DEFINE some == {i \in DOMAIN ids : ids[i] \in Powers}
  <2>3. some \in SUBSET Nat /\ some # {}
    BY <1>2, <2>2
  <2>4. PICK i \in some : \A j \in some : i <= j
    <3> HIDE DEF some
    <3>. QED
      BY <2>3, LeastOfSome
  <2>5. i \in PowerPlace(ids)
    <3>1. i \in DOMAIN ids /\ ids[i] \in Powers /\ i \in Nat
      BY <1>2
    <3>2. ASSUME NEW j \in 1..(i - 1) PROVE ids[j] \notin Powers
      <4>1. j \in DOMAIN ids /\ ~(i <= j)
        BY <1>2, <3>1
      <4>. QED
        BY <2>4, <4>1
    <3>. QED
      BY <3>1, <3>2 DEF PowerPlace
  <2>6. i \in DOMAIN m /\ m[i] \in Powers /\ \A j \in 1..(i - 1) : m[j] \notin Powers
    BY <1>5, <2>5 DEF PowerPlace
  <2> HIDE DEF m, r, P
  <2>7. i = k
    <3>1. i \in 1..Len(m) /\ k \in 1..Len(m)
      BY <1>3, <2>1, <2>6
    <3>2. ~(i \in 1..(k - 1)) /\ ~(k \in 1..(i - 1))
      BY <2>1, <2>6
    <3>. QED
      BY <1>3, <3>1, <3>2
  <2>. QED
    BY <2>5, <2>7
<1>. QED
  BY <1>1, <1>5, <1>6
(* What is made of a layout is one.                                        *)
Uncopied(l) == Without(Rules!Sources(l.customs), Range(Rules!MigrateDefaultPowerGraph(l.order)))

(* What the custom graphs were copied from.                                *)
LEMMA SourcesAre ==
  ASSUME NEW l \in Rules!Layouts
  PROVE  /\ Rules!Sources(l.customs) \in Seq(Names)
         /\ ~Rules!HasOldCopy(l) => Range(Rules!Sources(l.customs)) \cap Rules!OldPower = {}
<1> DEFINE c == l.customs
           s == Rules!Sources(c)
<1>1. c \in Seq([id : Names, source : Names])
  BY DEF Rules!Layouts
<1>2. Len(c) \in Nat /\ DOMAIN c = 1..Len(c) /\ \A k \in 1..Len(c) : c[k].source \in Names
  <2> HIDE DEF c
  <2>1. Len(c) \in Nat /\ DOMAIN c = 1..Len(c)
    BY <1>1, LenProperties
  <2>2. \A k \in 1..Len(c) : c[k] \in [id : Names, source : Names]
    BY <1>1, <2>1, ElementOfSeq
  <2>. QED
    BY <2>1, <2>2
<1>3. DOMAIN s = DOMAIN c /\ \A k \in DOMAIN c : s[k] = c[k].source
  BY DEF Rules!Sources
<1>4. s \in [1..Len(c) -> Names]
  <2> HIDE DEF c
  <2>. QED
    BY <1>2 DEF Rules!Sources
<1>5. s \in Seq(Names)
  <2> HIDE DEF c, s
  <2>. QED
    BY <1>2, <1>4, FunctionIsSequence
<1>6. ASSUME ~Rules!HasOldCopy(l) PROVE Range(s) \cap Rules!OldPower = {}
  <2>1. \A k \in DOMAIN c : c[k].source \notin Rules!OldPower
    BY <1>6 DEF Rules!HasOldCopy
  <2> HIDE DEF c, s
  <2>. QED
    BY <1>3, <2>1 DEF Range
<1>. QED
  BY <1>5, <1>6

(* A summary is normalised once and for all.                               *)
LEMMA SummaryIs ==
  ASSUME NEW s \in Seq(Names) \cup {Rules!NoTiles}
  PROVE  LET t == Rules!NormalizeSummary(s)
         IN  IsList(t) /\ Rules!NormalizeSummary(t) = t
<1> DEFINE u == IF s = Rules!NoTiles THEN Rules!DefaultTiles ELSE s
           t == Rules!NormalizeIDList(u)
<1>1. Rules!DefaultTiles \in Seq(Names)
  BY LayoutConstants DEF Rules!LayoutRulesConstants, Rules!DefaultTiles
<1>2. u \in Seq(Names)
  BY <1>1
<1>3. IsList(t)
  <2> HIDE DEF u
  <2>. QED
    BY <1>2, NormalizedIsList
<1>4. t # Rules!NoTiles
  <2>1. t \in Seq(Names)
    BY <1>3 DEF IsList, Rows
  <2>2. "null" \notin Names
    BY LayoutConstants DEF Rules!LayoutRulesConstants
  <2>3. SUFFICES ASSUME <<"null">> \in Seq(Names) PROVE FALSE
    BY <2>1 DEF Rules!NoTiles
  <2>4. <<"null">>[1] \in Names
    BY <2>3, ElementOfSeq
  <2>. QED
    BY <2>2, <2>4
<1>5. Rules!NormalizeSummary(s) = t
  BY DEF Rules!NormalizeSummary
<1> HIDE DEF t
<1>6. Rules!NormalizeSummary(t) = Rules!NormalizeIDList(t)
  BY <1>4 DEF Rules!NormalizeSummary
<1>. QED
  BY <1>3, <1>5, <1>6, NormalizedOnce

(* What a normalised layout is.                                            *)
LEMMA NormalizeIs ==
  ASSUME NEW l \in Rules!Layouts
  PROVE  LET n == Rules!Normalize(l)
         IN  /\ n \in Rules!Layouts /\ n.customs = l.customs
             /\ n.order = Rules!MigrateDefaultPowerGraph(l.order) /\ IsMigrated(n.order)
             /\ n.hidden = Rules!NormalizeIDList(Rules!MigrateDefaultPowerGraph(l.hidden) \o Uncopied(l))
             /\ n.hiddenCustom = Rules!NormalizeIDList(l.hiddenCustom)
             /\ n.summary = Rules!NormalizeSummary(l.summary)
             /\ IsList(n.hidden) /\ IsList(n.hiddenCustom) /\ IsList(n.summary)
             /\ Range(n.hidden) = (Range(Rules!MigrateDefaultPowerGraph(l.hidden))
                                     \cup Range(Uncopied(l))) \ {Rules!Unset}
             /\ Uncopied(l) \in Seq(Names)
             /\ Range(Uncopied(l)) = Range(Rules!Sources(l.customs)) \ Range(n.order)
<1> DEFINE o == Rules!MigrateDefaultPowerGraph(l.order)
           g == Rules!MigrateDefaultPowerGraph(l.hidden)
           w == Uncopied(l)
           h == Rules!NormalizeIDList(g \o w)
           hc == Rules!NormalizeIDList(l.hiddenCustom)
           s == Rules!NormalizeSummary(l.summary)
           n == Rules!Normalize(l)
<1>1. /\ l.order \in Seq(Names) /\ l.hidden \in Seq(Names) /\ l.hiddenCustom \in Seq(Names)
      /\ l.summary \in Seq(Names) \cup {Rules!NoTiles}
  BY DEF Rules!Layouts
<1>2. IsMigrated(o) /\ IsMigrated(g)
  BY <1>1, MigratedIs
<1>3. o \in Seq(Names) /\ g \in Seq(Names)
  BY <1>2 DEF IsMigrated
<1>4. w \in Seq(Names) /\ Range(w) = Range(Rules!Sources(l.customs)) \ Range(o)
  <2>1. Rules!Sources(l.customs) \in Seq(Names)
    BY SourcesAre
  <2> HIDE DEF o
  <2>2. w = Without(Rules!Sources(l.customs), Range(o))
    BY DEF Uncopied, o
  <2> HIDE DEF w
  <2> DEFINE q == Rules!Sources(l.customs)
             S == Range(o)
  <2>3. q \in Seq(Names) /\ w = Without(q, S)
    BY <2>1, <2>2
  <2> HIDE DEF q, S
  <2>4. Without(q, S) \in Seq(Names) /\ Range(Without(q, S)) = Range(q) \ S
    BY <2>3, WithoutIs
  <2>. QED
    BY <2>3, <2>4 DEF q, S
<1>5. n = [l EXCEPT !.summary = s, !.order = o, !.hidden = h, !.hiddenCustom = hc]
  BY RulesSelect DEF Rules!Normalize, Rules!HideCustomizedDefaults, Rules!MigratedHidden, Uncopied
<1> HIDE DEF o, g, w, n
<1>6. g \o w \in Seq(Names) /\ Range(g \o w) = Range(g) \cup Range(w)
  BY <1>3, <1>4, RangeOfConcat
<1>7. IsList(h) /\ Range(h) = (Range(g) \cup Range(w)) \ {Rules!Unset}
  BY <1>6, NormalizedIsList
<1>8. IsList(hc) /\ IsList(s)
  BY <1>1, NormalizedIsList, SummaryIs
<1> HIDE DEF h, hc, s
<1>9. h \in Seq(Names) /\ hc \in Seq(Names) /\ s \in Seq(Names)
  BY <1>7, <1>8 DEF IsList, Rows
<1>10. /\ n \in Rules!Layouts /\ n.customs = l.customs
       /\ n.order = o /\ n.hidden = h /\ n.hiddenCustom = hc /\ n.summary = s
  BY <1>3, <1>5, <1>9 DEF Rules!Layouts
<1>. QED
  BY <1>2, <1>4, <1>7, <1>8, <1>10 DEF o, g, w, n, h, hc, s

(* What is made of a layout is made of it once.                            *)
LEMMA NormalizeOnce ==
  ASSUME NEW l \in Rules!Layouts, ~Rules!HasOldCopy(l)
  PROVE  Rules!Normalize(Rules!Normalize(l)) = Rules!Normalize(l)
<1> DEFINE n == Rules!Normalize(l)
           m == Rules!Normalize(n)
           g == Rules!MigrateDefaultPowerGraph(l.hidden)
<1>1. /\ n \in Rules!Layouts /\ n.customs = l.customs
      /\ n.order = Rules!MigrateDefaultPowerGraph(l.order) /\ IsMigrated(n.order)
      /\ n.summary = Rules!NormalizeSummary(l.summary)
      /\ IsList(n.hidden) /\ IsList(n.hiddenCustom)
      /\ Range(n.hidden) = (Range(g) \cup Range(Uncopied(l))) \ {Rules!Unset}
      /\ Uncopied(l) \in Seq(Names)
      /\ Range(Uncopied(l)) = Range(Rules!Sources(l.customs)) \ Range(n.order)
  BY NormalizeIs
<1>2. l.hidden \in Seq(Names) /\ l.summary \in Seq(Names) \cup {Rules!NoTiles}
  BY DEF Rules!Layouts
<1>3. Range(g) \cap Rules!OldPower = {}
  BY <1>2, MigratedIs DEF IsMigrated
<1>4. Range(Rules!Sources(l.customs)) \cap Rules!OldPower = {}
  BY SourcesAre
<1> HIDE DEF g, n
<1>5. /\ m \in Rules!Layouts /\ m.customs = n.customs
      /\ m.order = Rules!MigrateDefaultPowerGraph(n.order)
      /\ m.hidden = Rules!NormalizeIDList(Rules!MigrateDefaultPowerGraph(n.hidden) \o Uncopied(n))
      /\ m.hiddenCustom = Rules!NormalizeIDList(n.hiddenCustom)
      /\ m.summary = Rules!NormalizeSummary(n.summary)
  BY <1>1, NormalizeIs
<1>6. m.order = n.order
  BY <1>1, <1>5, MigratedOnce
<1>7. m.hiddenCustom = n.hiddenCustom /\ m.summary = n.summary
  BY <1>1, <1>2, <1>5, NormalizedOnce, SummaryIs
<1>8. Uncopied(n) = Uncopied(l)
  BY <1>1, <1>5, <1>6 DEF Uncopied
<1>9. IsMigrated(n.hidden)
  <2> DEFINE h == n.hidden
  <2>1. h \in Seq(Names) /\ \A j, k \in DOMAIN h : h[j] = h[k] => j = k
    BY <1>1 DEF IsList, Rows, IsInjective
  <2>2. Range(h) \cap Rules!OldPower = {}
    BY <1>1, <1>3, <1>4
  <2> HIDE DEF h
  <2>. QED
    BY <2>1, <2>2 DEF IsMigrated, h
<1>10. m.hidden = n.hidden
  <2>1. Rules!MigrateDefaultPowerGraph(n.hidden) = n.hidden
    BY <1>9, MigratedOnce
  <2>2. Range(Uncopied(l)) \subseteq Range(n.hidden) \cup {Rules!Unset}
    BY <1>1
  <2>. QED
    BY <1>1, <1>5, <1>8, <2>1, <2>2, NormalizedStart
<1> HIDE DEF m
<1>11. m = n
  <2>1. \A x, y \in Rules!Layouts :
          /\ x.order = y.order /\ x.hidden = y.hidden /\ x.hiddenCustom = y.hiddenCustom
          /\ x.summary = y.summary /\ x.customs = y.customs
          => x = y
    <3>1. \A x \in Rules!Layouts :
            x = [order |-> x.order, hidden |-> x.hidden, hiddenCustom |-> x.hiddenCustom,
                 summary |-> x.summary, customs |-> x.customs]
      BY DEF Rules!Layouts
    <3>. QED
      BY <3>1, Zenon
  <2>. QED
    BY <1>1, <1>5, <1>6, <1>7, <1>10, <2>1
<1>. QED
  BY <1>11 DEF m, n

(* What is loaded is what is made of the file.                             *)
UpgradeOK ==
  At("upgrade") =>
    /\ oldFile \in Rules!Layouts /\ loaded \in Rules!Layouts
    /\ loaded.customs = oldFile.customs
    /\ ~Rules!HasOldCopy(loaded) => loaded = Rules!Normalize(oldFile)

(* A layout file is loaded through Normalize.                              *)
LEMMA UpgradeInit == MCInit => UpgradeOK
<1> SUFFICES ASSUME MCInit, At("upgrade") PROVE UpgradeOK
  BY DEF UpgradeOK
<1>1. oldFile \in Files /\ loaded = Rules!Normalize(oldFile)
  BY DEF MCInit, Rules!Init
<1>2. oldFile \in Rules!Layouts
  BY <1>1, LayoutConstants DEF Rules!LayoutRulesConstants
<1>. QED
  BY <1>1, <1>2, NormalizeIs DEF UpgradeOK

(* Saving and loading keep it: what is loaded is normalised already.       *)
LEMMA UpgradeStep == UpgradeOK /\ [MCNext]_allVars => UpgradeOK'
<1> SUFFICES ASSUME UpgradeOK, [MCNext]_allVars, At("upgrade")' PROVE UpgradeOK'
  BY DEF UpgradeOK
<1>1. At("upgrade")
  BY DEF MCNext, allVars, At
<1>2. /\ oldFile \in Rules!Layouts /\ loaded \in Rules!Layouts
      /\ loaded.customs = oldFile.customs
      /\ ~Rules!HasOldCopy(loaded) => loaded = Rules!Normalize(oldFile)
  BY <1>1 DEF UpgradeOK
<1>3. CASE UNCHANGED layoutVars
  <2>1. oldFile' = oldFile /\ loaded' = loaded
    BY <1>3 DEF layoutVars
  <2>2. Rules!HasOldCopy(loaded)' <=> Rules!HasOldCopy(loaded)
    BY <2>1 DEF Rules!HasOldCopy
  <2>3. Rules!Normalize(oldFile)' = Rules!Normalize(oldFile)
    BY <2>1
  <2>. QED
    BY <1>2, <2>1, <2>2, <2>3 DEF UpgradeOK
<1>4. CASE Rules!Load
  <2>1. oldFile' = oldFile /\ loaded' = Rules!Normalize(oldFile)
    BY <1>4 DEF Rules!Load
  <2>2. loaded' \in Rules!Layouts /\ loaded'.customs = oldFile.customs
    BY <1>2, <2>1, NormalizeIs
  <2>. QED
    BY <1>2, <2>1, <2>2 DEF UpgradeOK
<1>5. CASE Rules!Save
  <2>1. loaded' = loaded /\ oldFile' = Rules!Normalize(loaded)
    BY <1>5 DEF Rules!Save
  <2>2. oldFile' \in Rules!Layouts /\ oldFile'.customs = loaded.customs
    BY <1>2, <2>1, NormalizeIs
  <2>3. ASSUME ~Rules!HasOldCopy(loaded) PROVE loaded = Rules!Normalize(oldFile')
    <3>1. loaded = Rules!Normalize(oldFile) /\ ~Rules!HasOldCopy(oldFile)
      BY <1>2, <2>3 DEF Rules!HasOldCopy
    <3>2. Rules!Normalize(loaded) = loaded
      BY <1>2, <3>1, NormalizeOnce
    <3>. QED
      BY <2>1, <3>2
  <2>4. Rules!HasOldCopy(loaded)' <=> Rules!HasOldCopy(loaded)
    BY <2>1 DEF Rules!HasOldCopy
  <2>. QED
    BY <1>2, <2>1, <2>2, <2>3, <2>4 DEF UpgradeOK
<1>6. \/ UNCHANGED layoutVars \/ Rules!Load \/ Rules!Save
  BY <1>1 DEF MCNext, allVars, Rules!Next, At
<1>. QED
  BY <1>3, <1>4, <1>5, <1>6

(* A layout that Normalize has made is not changed by it, and has the one  *)
(* power graph where the file had the first.                               *)
LEMMA UpgradeShows == UpgradeOK => LayoutSurvivesUpgrade
<1> SUFFICES ASSUME UpgradeOK, At("upgrade"), ~Rules!HasOldCopy(loaded)
             PROVE  Rules!LayoutSettles /\ Rules!PowerGraphsMerge
  BY DEF LayoutSurvivesUpgrade, Rules!LayoutSettles, Rules!PowerGraphsMerge
<1>1. /\ oldFile \in Rules!Layouts /\ loaded \in Rules!Layouts
      /\ loaded.customs = oldFile.customs /\ loaded = Rules!Normalize(oldFile)
  BY DEF UpgradeOK
<1>2. Rules!LayoutSettles
  BY <1>1 DEF Rules!LayoutSettles
<1> DEFINE g == Rules!MigrateDefaultPowerGraph(oldFile.hidden)
<1>3. /\ loaded.order = Rules!MigrateDefaultPowerGraph(oldFile.order)
      /\ Range(loaded.hidden) = (Range(g) \cup Range(Uncopied(oldFile))) \ {Rules!Unset}
      /\ Range(Uncopied(oldFile)) = Range(Rules!Sources(loaded.customs)) \ Range(loaded.order)
  BY <1>1, NormalizeIs
<1>4. oldFile.order \in Seq(Names) /\ oldFile.hidden \in Seq(Names)
  BY <1>1 DEF Rules!Layouts
<1>5. /\ Without(loaded.order, Powers) = Without(oldFile.order, Powers)
      /\ PowerPlace(loaded.order) = PowerPlace(oldFile.order)
  BY <1>3, <1>4, MigratedOthers, MigratedPlace
<1>6. Rules!Power \in Range(g) <=> Range(oldFile.hidden) \cap Powers # {}
  BY <1>4, MigratedIs
<1>7. Rules!Power \in Range(loaded.hidden) <=>
        \/ Range(oldFile.hidden) \cap Powers # {}
        \/ Rules!Power \in Range(Rules!Sources(loaded.customs)) \ Range(loaded.order)
  <2> HIDE DEF g
  <2>. QED
    BY <1>3, <1>6, PowersAre
<1>8. Rules!PowerGraphsMerge
  BY <1>5, <1>7, RulesSelect, Zenon DEF Rules!PowerGraphsMerge, Powers, PowerPlace
<1>. QED
  BY <1>2, <1>8

(* Whatever layouts files may hold, of whatever length: what the daemon    *)
(* makes of one (normalizeLayout) looks the same however often it is saved *)
(* and loaded again, and its old power graphs become one, where the first  *)
(* of them stood, without moving another.                                  *)
THEOREM LayoutsSettle == MCSpec => []LayoutSurvivesUpgrade
<1>1. UpgradeOK /\ UNCHANGED allVars => UpgradeOK'
  BY UpgradeStep
<1>. QED
  BY UpgradeInit, UpgradeStep, UpgradeShows, PTL DEF MCSpec

-----------------------------------------------------------------------------
(* What is thinned.                                                        *)

(* Division of numbers, and the only quotient and rest there are.          *)
LEMMA DivIs ==
  ASSUME NEW a \in Nat, NEW m \in Nat \ {0}
  PROVE  a \div m \in Nat /\ a % m \in 0..(m - 1) /\ a = (a \div m) * m + (a % m)
<1>1. a \div m \in Nat /\ a % m \in 0..(m - 1)
  OBVIOUS
<1>2. a = (a \div m) * m + (a % m)
  BY SMTT(30)
<1>. QED
  BY <1>1, <1>2

LEMMA DivOne ==
  ASSUME NEW a \in Nat, NEW m \in Nat \ {0}, NEW q \in Nat, NEW r \in 0..(m - 1), a = q * m + r
  PROVE  a \div m = q /\ a % m = r
  OBVIOUS

(* How far chosen points are apart at least, if m of n are chosen.         *)
Low(n, m) == IF (n - 1) % (m - 1) = 0 THEN (n - 1) \div (m - 1) - 1 ELSE (n - 1) \div (m - 1)

(* ... and at most.                                                        *)
High(n, m) == (n - 1) \div (m - 1) + 1

(* The largest distance is at most three times the least one.              *)
LEMMA LowIsClose ==
  ASSUME NEW n \in Nat, NEW m \in Nat, 1 < m, m < n
  PROVE  /\ Low(n, m) \in Nat \ {0} /\ High(n, m) \in Nat /\ High(n, m) <= 3 * Low(n, m)
<1> DEFINE N == n - 1
           M == m - 1
           b == N \div M
           r == N % M
<1>1. N \in Nat /\ M \in Nat \ {0} /\ M < N
  OBVIOUS
<1> HIDE DEF N, M
<1>2. b \in Nat /\ r \in 0..(M - 1) /\ N = b * M + r
  BY <1>1, DivIs
<1> HIDE DEF b, r
<1>3. b # 0
  <2>1. SUFFICES ASSUME b = 0 PROVE FALSE
    OBVIOUS
  <2>2. b * M = 0
    BY <1>1, <2>1
  <2>. QED
    BY <1>1, <1>2, <2>2
<1>4. r = 0 => b # 1
  <2>1. SUFFICES ASSUME r = 0, b = 1 PROVE FALSE
    OBVIOUS
  <2>2. b * M = M
    BY <1>1, <2>1
  <2>. QED
    BY <1>1, <1>2, <2>1, <2>2
<1>5. Low(n, m) = (IF r = 0 THEN b - 1 ELSE b) /\ High(n, m) = b + 1
  BY DEF Low, High, b, r, N, M
<1>. QED
  BY <1>2, <1>3, <1>4, <1>5

(* Chosen points follow one another at such distances.                     *)
LEMMA IndexRises ==
  ASSUME NEW n \in Nat, NEW m \in Nat, 1 < m, m < n, NEW i \in 0..(m - 2), NEW short
  PROVE  LET here == Answers!Index(n, m, i, short)
             next == Answers!Index(n, m, i + 1, short)
         IN  here \in Int /\ next \in Int /\ next - here \in Low(n, m)..High(n, m)
<1> DEFINE N == n - 1
           M == m - 1
           a == i * N
           c == (i + 1) * N
           b == N \div M
           r == N % M
           q == a \div M
           u == a % M
           s == IF i > 0 /\ i \in short /\ u = 0 THEN 1 ELSE 0
           t == IF i + 1 > 0 /\ i + 1 \in short /\ c % M = 0 THEN 1 ELSE 0
<1>1. N \in Nat /\ M \in Nat \ {0} /\ M < N /\ i \in Nat
  OBVIOUS
<1>2. Answers!Index(n, m, i, short) = q - s /\ Answers!Index(n, m, i + 1, short) = c \div M - t
  BY DEF Answers!Index, Answers!Whole
<1>3. Low(n, m) = (IF r = 0 THEN b - 1 ELSE b) /\ High(n, m) = b + 1
  BY DEF Low, High
<1> HIDE DEF N, M, q, b, u, r
<1>4. a \in Nat /\ c = a + N
  BY <1>1
<1>5. /\ b \in Nat /\ r \in 0..(M - 1) /\ q \in Nat /\ u \in 0..(M - 1)
      /\ N = b * M + r /\ a = q * M + u
  BY <1>1, <1>4, DivIs DEF q, b, u, r
<1>6. /\ u + r < M => c \div M = q + b /\ c % M = u + r
      /\ u + r >= M => c \div M = q + b + 1 /\ c % M = u + r - M
  <2>1. (q + b) * M = q * M + b * M /\ (q + b + 1) * M = q * M + b * M + M
    BY <1>1, <1>5
  <2>2. c \in Nat /\ c = q * M + b * M + u + r
    BY <1>1, <1>4, <1>5
  <2> HIDE DEF a, c
  <2>3. ASSUME u + r < M PROVE c \div M = q + b /\ c % M = u + r
    <3> DEFINE p == q + b
               w == u + r
    <3>1. p \in Nat /\ w \in 0..(M - 1) /\ c = p * M + w
      BY <1>1, <1>5, <2>1, <2>2, <2>3
    <3> HIDE DEF p, w
    <3>2. c \div M = p /\ c % M = w
      BY <1>1, <2>2, <3>1, DivOne
    <3>. QED
      BY <3>2 DEF p, w
  <2>4. ASSUME u + r >= M PROVE c \div M = q + b + 1 /\ c % M = u + r - M
    <3> DEFINE p == q + b + 1
               w == u + r - M
    <3>1. p \in Nat /\ w \in 0..(M - 1) /\ c = p * M + w
      BY <1>1, <1>5, <2>1, <2>2, <2>4
    <3> HIDE DEF p, w
    <3>2. c \div M = p /\ c % M = w
      BY <1>1, <2>2, <3>1, DivOne
    <3>. QED
      BY <3>2 DEF p, w
  <2>. QED
    BY <2>3, <2>4
<1>7. s \in {0, 1} /\ (s = 1 => u = 0)
  OBVIOUS
<1>8. t \in {0, 1} /\ (t = 1 => c % M = 0)
  OBVIOUS
<1> HIDE DEF s, t, a, c, b, r, q, u
<1>9. CASE u + r < M
  <2>1. c \div M = q + b /\ c % M = u + r
    BY <1>6, <1>9
  <2>. QED
    BY <1>1, <1>2, <1>3, <1>5, <1>7, <1>8, <2>1
<1>10. CASE u + r >= M
  <2>1. c \div M = q + b + 1 /\ c % M = u + r - M
    BY <1>6, <1>10
  <2>2. s = 0
    BY <1>1, <1>5, <1>7, <1>10
  <2>3. r # 0
    BY <1>1, <1>5, <1>10
  <2>. QED
    BY <1>1, <1>2, <1>3, <1>5, <1>7, <1>8, <2>1, <2>2, <2>3
<1>. QED
  BY <1>1, <1>5, <1>9, <1>10

(* The first point is chosen, the last or the last but one, and none       *)
(* outside.                                                                *)
LEMMA IndexIs ==
  ASSUME NEW n \in Nat, NEW m \in Nat, 1 < m, m < n, NEW i \in 0..(m - 1), NEW short
  PROVE  /\ Answers!Index(n, m, i, short) \in 0..(n - 1)
         /\ i = 0 => Answers!Index(n, m, i, short) = 0
         /\ i = m - 1 => Answers!Index(n, m, i, short) \in {n - 2, n - 1}
<1> DEFINE N == n - 1
           M == m - 1
           a == i * N
           q == a \div M
           u == a % M
           s == IF i > 0 /\ i \in short /\ u = 0 THEN 1 ELSE 0
<1>1. N \in Nat /\ M \in Nat \ {0} /\ M < N /\ i \in 0..M
  OBVIOUS
<1>2. Answers!Index(n, m, i, short) = q - s
  BY DEF Answers!Index, Answers!Whole
<1>3. s \in {0, 1} /\ (i = 0 => s = 0)
  OBVIOUS
<1> HIDE DEF N, M
<1>4. a \in Nat /\ i \in Nat /\ M \in Nat
  BY <1>1
<1>5. q \in Nat /\ u \in 0..(M - 1) /\ a = q * M + u
  BY <1>1, <1>4, DivIs
<1>6. CASE i = 0
  <2>1. a = 0 * M + 0
    BY <1>1, <1>6
  <2>2. q = 0
    <3> HIDE DEF a
    <3>. QED
      BY <1>1, <1>4, <2>1, DivOne
  <2>. QED
    BY <1>1, <1>2, <1>3, <1>6, <2>2 DEF N, M
<1>7. CASE i = M
  <2>1. a = N * M + 0
    BY <1>1, <1>7
  <2>2. q = N
    <3> HIDE DEF a
    <3>. QED
      BY <1>1, <1>4, <2>1, DivOne
  <2>. QED
    BY <1>1, <1>2, <1>3, <1>7, <2>2 DEF N, M
<1>8. CASE i # 0 /\ i # M
  <2>1. i >= 1 /\ i <= M
    BY <1>1, <1>8
  <2>2. a >= N
    <3>1. a = N + (i - 1) * N /\ (i - 1) * N >= 0
      BY <1>1, <2>1
    <3>. QED
      BY <1>1, <1>4, <3>1
  <2>3. a <= N * M
    <3>1. N * M = a + (M - i) * N /\ (M - i) * N >= 0
      BY <1>1, <2>1
    <3>. QED
      BY <1>1, <1>4, <3>1
  <2> HIDE DEF a, q, u, s
  <2>4. q # 0
    <3>1. SUFFICES ASSUME q = 0 PROVE FALSE
      OBVIOUS
    <3>2. q * M = 0
      BY <1>1, <3>1
    <3>. QED
      BY <1>1, <1>4, <1>5, <2>2, <3>2
  <2>5. q <= N
    <3>1. SUFFICES ASSUME q >= N + 1 PROVE FALSE
      BY <1>1, <1>5
    <3>2. q * M = N * M + M + (q - N - 1) * M /\ (q - N - 1) * M >= 0 /\ N * M \in Nat
      BY <1>1, <1>5, <3>1
    <3>3. q * M > N * M
      BY <1>1, <1>5, <3>2
    <3>. QED
      BY <1>1, <1>4, <1>5, <2>3, <3>2, <3>3
  <2>. QED
    BY <1>1, <1>2, <1>3, <1>5, <1>8, <2>4, <2>5 DEF N, M
<1>. QED
  BY <1>6, <1>7, <1>8

(* The larger of two.                                                      *)
LEMMA LargerIs ==
  ASSUME NEW a \in Int, NEW b \in Int
  PROVE  LET c == Answers!Max({a, b}) IN c \in {a, b} /\ c >= a /\ c >= b
<1> DEFINE S == {a, b}
           c == Answers!Max(S)
<1>1. \E x \in S : \A y \in S : x >= y
  <2>1. CASE a >= b
    BY <2>1
  <2>2. CASE ~(a >= b)
    BY <2>2
  <2>. QED
    BY <2>1, <2>2
<1>2. c = CHOOSE x \in S : \A y \in S : x >= y
  BY DEF Answers!Max
<1>3. c \in S /\ \A y \in S : c >= y
  <2> HIDE DEF S, c
  <2>. QED
    BY <1>1, <1>2
<1>. QED
  BY <1>3

(* The answer may have as many points as its range is long.                *)
LEMMA MaxPointsIs ==
  ASSUME NEW start \in Int, NEW end \in Int, NEW requested \in Int
  PROVE  LET m == Answers!MaxPointsForRange(start, end, requested)
         IN  /\ m \in Int /\ m >= requested
             /\ requested <= 0 \/ end <= start => m = requested
             /\ requested > 0 /\ end > start => m > 1 /\ (m - 1) * Spacing >= end - start
<1> DEFINE m == Answers!MaxPointsForRange(start, end, requested)
<1>1. CASE requested <= 0 \/ end <= start
  <2>1. m = requested
    BY <1>1 DEF Answers!MaxPointsForRange
  <2>. QED
    BY <1>1, <2>1
<1>2. CASE requested > 0 /\ end > start
  <2> DEFINE d == end - start
             q == d \div Spacing
             r == d % Spacing
             e == IF r = 0 THEN 0 ELSE 1
             l == q + 1 + e
  <2>1. Spacing \in Nat \ {0} /\ d \in Nat \ {0}
    BY <1>2, QueryConstants DEF Answers!QueriesConstants
  <2>2. ~(requested <= 0 \/ end <= start)
    BY <1>2
  <2>3. m = Answers!Max({requested, l})
    BY <2>2 DEF Answers!MaxPointsForRange
  <2> HIDE DEF d
  <2>4. q \in Nat /\ r \in 0..(Spacing - 1) /\ d = q * Spacing + r
    BY <2>1, DivIs
  <2>5. e \in {0, 1} /\ (r # 0 => e = 1) /\ l = q + 1 + e
    OBVIOUS
  <2> HIDE DEF q, r, e, l, m
  <2>6. l \in Int /\ m \in Int /\ m >= requested /\ m >= l
    <3>1. l \in Int
      BY <2>4, <2>5
    <3>2. Answers!Max({requested, l}) \in {requested, l}
      BY <3>1, LargerIs
    <3>3. Answers!Max({requested, l}) >= requested /\ Answers!Max({requested, l}) >= l
      BY <3>1, LargerIs
    <3>. QED
      BY <2>3, <3>1, <3>2, <3>3
  <2>7. l > 1
    <3>1. SUFFICES ASSUME q = 0, e = 0 PROVE FALSE
      BY <2>4, <2>5
    <3>2. q * Spacing = 0 /\ r = 0
      BY <2>1, <2>5, <3>1
    <3>. QED
      BY <2>1, <2>4, <3>2
  <2>8. (m - 1) * Spacing >= d
    <3>1. (m - 1) * Spacing = q * Spacing + e * Spacing + (m - l) * Spacing
      BY <2>1, <2>4, <2>5, <2>6
    <3>2. (m - l) * Spacing >= 0 /\ q * Spacing \in Nat
      BY <2>1, <2>4, <2>6
    <3>3. e * Spacing >= r
      BY <2>1, <2>4, <2>5
    <3>4. (m - l) * Spacing \in Int /\ e * Spacing \in Int
      BY <2>1, <2>5, <2>6
    <3>. QED
      BY <2>4, <3>1, <3>2, <3>3, <3>4
  <2>9. m > 1 /\ ~(requested <= 0 \/ end <= start)
    BY <2>2, <2>6, <2>7
  <2>. QED
    BY <2>6, <2>8, <2>9 DEF m, d
<1>. QED
  BY <1>1, <1>2

(* If there are points enough for the spacing, none is farther from the    *)
(* next than that and one more.                                            *)
LEMMA HighIsClose ==
  ASSUME NEW n \in Nat, NEW m \in Nat, 1 < m, m < n, (m - 1) * Spacing >= n - 1
  PROVE  High(n, m) <= Spacing + 1
<1> DEFINE N == n - 1
           M == m - 1
           b == N \div M
           r == N % M
<1>1. N \in Nat /\ M \in Nat \ {0} /\ M * Spacing >= N /\ Spacing \in Nat
  BY QueryConstants DEF Answers!QueriesConstants
<1>2. High(n, m) = b + 1
  BY DEF High
<1> HIDE DEF N, M
<1>3. b \in Nat /\ r \in 0..(M - 1) /\ N = b * M + r
  BY <1>1, DivIs
<1> HIDE DEF b, r
<1>4. SUFFICES ASSUME b >= Spacing + 1 PROVE FALSE
  BY <1>1, <1>2, <1>3
<1>5. b * M = M * Spacing + M + (b - Spacing - 1) * M /\ (b - Spacing - 1) * M >= 0
  BY <1>1, <1>3, <1>4
<1>6. b * M \in Int /\ M * Spacing \in Int /\ (b - Spacing - 1) * M \in Int
  BY <1>1, <1>3
<1>. QED
  BY <1>1, <1>3, <1>5, <1>6

(* Which points are left of a series of n: p rises from the first to the   *)
(* last or the one before it.                                              *)
Chooses(p, k, n) ==
  /\ k \in Nat \ {0} /\ p \in [1..k -> 1..n] /\ p[1] = 1
  /\ n > 1 => p[k] \in {n - 1, n}
  /\ \A j \in 1..(k - 1) : p[j + 1] > p[j]

(* Thinning chooses points in their order: all of them that are left, or   *)
(* at such distances.                                                      *)
LEMMA LimitIs ==
  ASSUME NEW T, NEW s \in Seq(T), s # <<>>, NEW m \in Int, NEW short, Len(s) > 1 => m # 1
  PROVE  LET thin == Answers!LimitPoints(s, m, short)
             n == Len(s)
         IN  \E k, p :
               /\ Chooses(p, k, n)
               /\ thin \in Seq(T) /\ Len(thin) = k /\ \A j \in 1..k : thin[j] = s[p[j]]
               /\ \/ \A j \in 1..(k - 1) : p[j + 1] - p[j] = 1
                  \/ /\ 1 < m /\ m < n /\ k = m
                     /\ \A j \in 1..(k - 1) : p[j + 1] - p[j] \in Low(n, m)..High(n, m)
<1> DEFINE thin == Answers!LimitPoints(s, m, short)
           n == Len(s)
<1>1. n \in Nat \ {0} /\ DOMAIN s = 1..n /\ \A i \in 1..n : s[i] \in T
  BY LenProperties, ElementOfSeq, EmptySeq
<1>2. CASE m <= 0 \/ n <= m
  <2> DEFINE p == [j \in 1..n |-> j]
  <2>1. thin = s
    BY <1>2 DEF Answers!LimitPoints
  <2>2. Chooses(p, n, n)
    <3>1. \A j \in 1..(n - 1) : j \in 1..n /\ j + 1 \in 1..n
      BY <1>1
    <3> HIDE DEF n
    <3>. QED
      BY <1>1, <3>1 DEF Chooses
  <2>3. \A j \in 1..(n - 1) : p[j + 1] - p[j] = 1
    <3>1. \A j \in 1..(n - 1) : j \in 1..n /\ j + 1 \in 1..n
      BY <1>1
    <3> HIDE DEF n
    <3>. QED
      BY <1>1, <3>1
  <2>4. thin \in Seq(T) /\ Len(thin) = n /\ \A j \in 1..n : thin[j] = s[p[j]]
    BY <2>1
  <2> HIDE DEF p, thin, n
  <2>. QED
    BY <2>2, <2>3, <2>4 DEF thin, n
<1>3. CASE ~(m <= 0 \/ n <= m)
  <2> DEFINE p == [j \in 1..m |-> Answers!Index(n, m, j - 1, short) + 1]
  <2>1. m \in Nat /\ 1 < m /\ m < n /\ n > 1
    BY <1>1, <1>3
  <2>2. thin = [j \in 1..m |-> s[p[j]]]
    <3>1. thin = [j \in 1..m |-> s[Answers!Index(n, m, j - 1, short) + 1]]
      BY <1>3, <2>1 DEF Answers!LimitPoints
    <3> HIDE DEF thin
    <3>. QED
      BY <3>1
  <2> HIDE DEF n, thin
  <2>3. \A j \in 1..m : Answers!Index(n, m, j - 1, short) \in 0..(n - 1)
    <3>1. SUFFICES ASSUME NEW j \in 1..m PROVE Answers!Index(n, m, j - 1, short) \in 0..(n - 1)
      OBVIOUS
    <3>2. j - 1 \in 0..(m - 1)
      BY <2>1
    <3>. QED
      BY <1>1, <2>1, <3>2, IndexIs
  <2>4. Answers!Index(n, m, 0, short) = 0 /\ Answers!Index(n, m, m - 1, short) \in {n - 2, n - 1}
    <3>1. 0 \in 0..(m - 1) /\ m - 1 \in 0..(m - 1) /\ n \in Nat
      BY <1>1, <2>1
    <3>. QED
      BY <2>1, <3>1, IndexIs
  <2>5. ASSUME NEW j \in 1..(m - 1)
        PROVE  /\ j \in 1..m /\ j + 1 \in 1..m
               /\ Answers!Index(n, m, j - 1, short) \in Int /\ Answers!Index(n, m, j, short) \in Int
               /\ Answers!Index(n, m, j, short) - Answers!Index(n, m, j - 1, short)
                    \in Low(n, m)..High(n, m)
    <3> DEFINE i == j - 1
    <3>1. i \in 0..(m - 2) /\ i + 1 = j /\ n \in Nat
      BY <1>1, <2>1
    <3> HIDE DEF i
    <3>2. /\ Answers!Index(n, m, i, short) \in Int /\ Answers!Index(n, m, i + 1, short) \in Int
          /\ Answers!Index(n, m, i + 1, short) - Answers!Index(n, m, i, short)
               \in Low(n, m)..High(n, m)
      BY <2>1, <3>1, IndexRises
    <3>3. j \in 1..m /\ j + 1 \in 1..m
      BY <2>1
    <3>. QED
      BY <3>1, <3>2, <3>3 DEF i
  <2> DEFINE I(j) == Answers!Index(n, m, j, short)
             low == Low(n, m)
             high == High(n, m)
  <2>6. low \in Nat \ {0} /\ high \in Nat
    BY <1>1, <2>1, LowIsClose
  <2>7. /\ \A j \in 1..m : I(j - 1) \in 0..(n - 1)
        /\ I(0) = 0 /\ I(m - 1) \in {n - 2, n - 1}
        /\ \A j \in 1..(m - 1) : /\ j \in 1..m /\ j + 1 \in 1..m /\ I(j - 1) \in Int /\ I(j) \in Int
                                 /\ I(j) - I(j - 1) \in low..high
        /\ p = [j \in 1..m |-> I(j - 1) + 1]
    BY <2>3, <2>4, <2>5
  <2> HIDE DEF I, low, high, p
  <2>8. p \in [1..m -> 1..n]
    <3>1. ASSUME NEW j \in 1..m PROVE I(j - 1) + 1 \in 1..n
      <4>1. I(j - 1) \in 0..(n - 1)
        BY <2>7
      <4>. QED
        BY <1>1, <4>1
    <3>. QED
      BY <2>7, <3>1
  <2>9. p[1] = 1 /\ p[m] \in {n - 1, n}
    <3>1. 1 \in 1..m /\ m \in 1..m /\ 1 - 1 = 0
      BY <2>1
    <3>2. p[1] = I(0) + 1 /\ p[m] = I(m - 1) + 1
      BY <2>7, <3>1
    <3>. QED
      BY <1>1, <2>7, <3>2
  <2>10. ASSUME NEW j \in 1..(m - 1) PROVE p[j + 1] - p[j] \in low..high /\ p[j + 1] > p[j]
    <3>1. /\ j \in 1..m /\ j + 1 \in 1..m /\ I(j) - I(j - 1) \in low..high /\ j + 1 - 1 = j
          /\ p[j] = I(j - 1) + 1 /\ p[j + 1] = I(j + 1 - 1) + 1
      BY <2>1, <2>7
    <3>2. I(j - 1) \in Int /\ I(j) \in Int
      BY <2>7
    <3>. QED
      BY <2>6, <3>1, <3>2
  <2>11. thin \in Seq(T) /\ Len(thin) = m /\ \A j \in 1..m : thin[j] = s[p[j]]
    <3>1. \A j \in 1..m : p[j] \in 1..n
      BY <2>8
    <3>2. thin \in [1..m -> T] /\ \A j \in 1..m : thin[j] = s[p[j]]
      BY <1>1, <2>2, <3>1
    <3>. QED
      BY <2>1, <3>2, FunctionIsSequence
  <2>12. Chooses(p, m, n)
    BY <2>1, <2>8, <2>9, <2>10 DEF Chooses
  <2>. QED
    BY <2>1, <2>10, <2>11, <2>12 DEF thin, n, low, high
<1>. QED
  BY <1>2, <1>3
-----------------------------------------------------------------------------
(* Where data is shown as missing.                                         *)
LEMMA MostOfSome ==
  ASSUME NEW n \in Nat \ {0}, NEW d \in [1..n -> Int]
  PROVE  \E k \in 1..n : \A j \in 1..n : d[j] <= d[k]
<1> DEFINE S == 1..n
           Above(k) == {j \in S : d[j] > d[k]}
           U == {Above(k) : k \in S}
<1>1. IsFiniteSet(S) /\ 1 \in S
  BY FS_Interval
<1>2. U \in SUBSET SUBSET S /\ U # {}
  <2>1. \A k : Above(k) \in SUBSET S
    OBVIOUS
  <2> HIDE DEF S, Above
  <2>. QED
    BY <1>1, <2>1
<1>3. PICK u \in U : \A v \in U : v \subseteq u => v = u
  <2> HIDE DEF U, S
  <2>. QED
    BY <1>1, <1>2, Minimal
<1>4. PICK k \in S : u = Above(k)
  OBVIOUS
<1>5. ASSUME NEW j \in S PROVE d[j] <= d[k]
  <2>1. SUFFICES ASSUME d[j] > d[k] PROVE FALSE
    OBVIOUS
  <2>2. \A i \in S : d[i] \in Int
    OBVIOUS
  <2>3. Above(j) \subseteq Above(k) /\ j \in Above(k) /\ j \notin Above(j)
    BY <2>1, <2>2
  <2>4. Above(j) \in U
    OBVIOUS
  <2> HIDE DEF Above, U
  <2>. QED
    BY <1>3, <1>4, <2>3, <2>4
<1>. QED
  BY <1>5

(* The least of some numbers.                                              *)
LEMMA SmallestIs ==
  ASSUME NEW S \in SUBSET Nat, S # {}
  PROVE  Answers!Min(S) \in S /\ \A k \in S : Answers!Min(S) <= k
<1>1. \E n \in S : \A k \in S : n <= k
  BY LeastOfSome
<1>. QED
  BY <1>1 DEF Answers!Min

(* The median is one of the numbers.                                       *)
LEMMA MedianIsOne ==
  ASSUME NEW n \in Nat \ {0}, NEW d \in [1..n -> Nat]
  PROVE  \E k \in 1..n : Answers!Median(d, 1..n) = d[k]
<1> DEFINE S == 1..n
           V == {v \in {d[k] : k \in S} :
                   Answers!Cardinality({k \in S : d[k] <= v}) > Answers!Cardinality(S) \div 2}
<1>1. Answers!Median(d, S) = Answers!Min(V)
  BY DEF Answers!Median
<1>2. PICK k \in S : \A j \in S : d[j] <= d[k]
  <2>1. \A j \in S : d[j] \in Nat
    OBVIOUS
  <2>2. d \in [1..n -> Int]
    OBVIOUS
  <2>. QED
    BY <2>2, MostOfSome
<1>3. d[k] \in V
  <2>1. {j \in S : d[j] <= d[k]} = S
    BY <1>2
  <2>2. Answers!Cardinality(S) = n
    <3>1. Answers!Cardinality(S) = Cardinality(S)
      BY DEF Answers!Cardinality, Cardinality
    <3>. QED
      BY <3>1, FS_Interval
  <2>3. n > n \div 2
    OBVIOUS
  <2>. QED
    BY <2>1, <2>2, <2>3
<1>4. V \in SUBSET Nat
  OBVIOUS
<1>5. Answers!Min(V) \in V
  <2> HIDE DEF V
  <2>. QED
    BY <1>3, <1>4, SmallestIs
<1>. QED
  BY <1>1, <1>5

(* Data is missing only between points that are further apart than three   *)
(* times what some others are.                                             *)
LEMMA ThresholdIs ==
  ASSUME NEW s, Len(s) \in Nat \ {0},
         \A k \in 1..(Len(s) - 1) : Answers!Deltas(s)[k] \in Nat \ {0}
  PROVE  LET t == Answers!GapThresholdForPoints(s)
         IN  /\ t \in Int /\ t >= GapThreshold
             /\ Len(s) >= 3 => \E k \in 1..(Len(s) - 1) : t >= 3 * Answers!Deltas(s)[k]
<1> DEFINE n == Len(s) - 1
           d == Answers!Deltas(s)
           P == {k \in DOMAIN d : d[k] > 0}
           t == Answers!GapThresholdForPoints(s)
<1>1. DOMAIN d = 1..n /\ d \in [1..n -> Nat] /\ \A k \in 1..n : d[k] \in Nat \ {0}
  <2>1. d = [k \in 1..n |-> s[k + 1].time - s[k].time]
    BY DEF Answers!Deltas
  <2>2. \A k \in 1..n : d[k] \in Nat \ {0}
    OBVIOUS
  <2> HIDE DEF d, n
  <2>3. DOMAIN d = 1..n /\ d = [k \in 1..n |-> d[k]]
    BY <2>1
  <2>. QED
    BY <2>2, <2>3
<1>2. P = 1..n
  <2> HIDE DEF d, n
  <2>. QED
    BY <1>1
<1>3. n \in Nat /\ GapThreshold \in Nat
  BY QueryConstants DEF Answers!QueriesConstants
<1>4. t = IF Len(s) < 3 \/ P = {} THEN GapThreshold
          ELSE Answers!Max({GapThreshold, 3 * Answers!Median(d, P)})
  BY DEF Answers!GapThresholdForPoints
<1> HIDE DEF t, P, d
<1>5. CASE Len(s) < 3
  <2>1. t = GapThreshold
    BY <1>4, <1>5
  <2>. QED
    BY <1>3, <1>5, <2>1 DEF t
<1>6. CASE Len(s) >= 3
  <2>1. n \in Nat \ {0} /\ 1 \in 1..n
    <3>1. n # 0
      <4> DEFINE l == Len(s)
      <4>1. l \in Nat /\ l >= 3 /\ n = l - 1
        BY <1>6
      <4> HIDE DEF l, n
      <4>. QED
        BY <4>1
    <3> HIDE DEF n
    <3>. QED
      BY <1>3, <3>1
  <2> HIDE DEF n
  <2>2. PICK k \in 1..n : Answers!Median(d, 1..n) = d[k]
    BY <1>1, <2>1, MedianIsOne
  <2>3. ~(Len(s) < 3) /\ P # {}
    <3>1. ~(Len(s) < 3)
      BY <1>6
    <3>. QED
      BY <1>2, <2>1, <3>1
  <2>4. t = Answers!Max({GapThreshold, 3 * d[k]})
    BY <1>2, <1>4, <2>2, <2>3
  <2>5. 3 * d[k] \in Int /\ GapThreshold \in Int
    BY <1>1, <1>3
  <2>6. t \in {GapThreshold, 3 * d[k]} /\ t >= GapThreshold /\ t >= 3 * d[k]
    <3> DEFINE x == 3 * d[k]
    <3>1. x \in Int
      BY <2>5
    <3> HIDE DEF x
    <3>2. /\ Answers!Max({GapThreshold, x}) \in {GapThreshold, x}
          /\ Answers!Max({GapThreshold, x}) >= GapThreshold
          /\ Answers!Max({GapThreshold, x}) >= x
      BY <2>5, <3>1, LargerIs
    <3>. QED
      BY <2>4, <3>2 DEF x
  <2>. QED
    BY <2>5, <2>6 DEF t, n, d
<1>. QED
  BY <1>3, <1>5, <1>6
-----------------------------------------------------------------------------
(* A series of points, and what is asked for of it.                        *)
LEMMA AnswersSelect ==
  /\ \A s, P : Answers!Selected(s, P) = Selected(s, P)
  /\ \A P : Answers!Ascending(P) = Ascending(P)
  /\ \A s : Answers!Range(s) = Range(s)
<1>1. \A P : Answers!Ascending(P) = Ascending(P)
  BY DEF Answers!Ascending, Ascending, Answers!Rank, Rank, Answers!Cardinality, Cardinality
<1>2. \A s, P : Answers!Selected(s, P) = Selected(s, P)
  BY <1>1, Zenon DEF Answers!Selected, Selected
<1>3. \A s : Answers!Range(s) = Range(s)
  BY DEF Answers!Range, Range
<1>. QED
  BY <1>1, <1>2, <1>3

(* A sample as a point, and the samples a query is about.                  *)
Point(history, t) == [time |-> t, value |-> history[t]]

Kept(history, a, b, zenpower) ==
  {t \in (a..b) \cap DOMAIN history : zenpower => history[t] \in Plausible}

(* s has the points of the times c, which ascend.                          *)
IsSeries(s, history, c, n) ==
  /\ Ascends(c, n)
  /\ s \in Seq({Point(history, t) : t \in Range(c)}) /\ Len(s) = n /\ DOMAIN s = 1..n
  /\ \A k \in 1..n : s[k] = Point(history, c[k]) /\ c[k] \in Range(c)

(* The points of times that ascend are such a series.                      *)
LEMMA SeriesIs ==
  ASSUME NEW history, NEW c, NEW n, Ascends(c, n), NEW s,
         s = [k \in 1..n |-> Point(history, c[k])]
  PROVE  IsSeries(s, history, c, n)
<1> DEFINE T == {Point(history, t) : t \in Range(c)}
<1>1. n \in Nat /\ DOMAIN c = 1..n
  BY DEF Ascends
<1>2. \A k \in 1..n : c[k] \in Range(c)
  BY <1>1 DEF Range
<1>3. \A k \in 1..n : Point(history, c[k]) \in T
  BY <1>2
<1> HIDE DEF T
<1>4. s \in [1..n -> T] /\ DOMAIN s = 1..n /\ \A k \in 1..n : s[k] = Point(history, c[k])
  BY <1>3
<1>5. s \in Seq(T) /\ Len(s) = n
  BY <1>1, <1>4, FunctionIsSequence
<1>. QED
  BY <1>2, <1>4, <1>5 DEF IsSeries, T

(* A query for points gives every sample it is about, in time order.       *)
LEMMA PointsAre ==
  ASSUME NEW history, NEW a \in Int, NEW b \in Int, NEW zenpower \in BOOLEAN
  PROVE  \E c, n :
           /\ IsSeries(Answers!QueryMetric(history, a, b, zenpower, FALSE), history, c, n)
           /\ Range(c) = Kept(history, a, b, zenpower)
<1> DEFINE S == (a..b) \cap DOMAIN history
           d == Ascending(S)
           l == Cardinality(S)
           s == Answers!Select(history, a, b)
<1>1. S \in SUBSET Int /\ IsFiniteSet(S)
  <2>1. IsFiniteSet(a..b) /\ S \subseteq a..b
    BY FS_Interval
  <2>. QED
    BY <2>1, FS_Subset
<1>2. Ascends(d, l) /\ Range(d) = S
  <2> HIDE DEF S
  <2>. QED
    BY <1>1, AscentAscends
<1>3. l \in Nat /\ d \in [1..l -> Int] /\ DOMAIN d = 1..l
  BY <1>2 DEF Ascends
<1>4. s = [k \in 1..l |-> Point(history, d[k])]
  <2>1. s = [k \in DOMAIN d |-> [time |-> d[k], value |-> history[d[k]]]]
    BY AnswersSelect DEF Answers!Select
  <2> HIDE DEF d, l, s
  <2>. QED
    BY <1>3, <2>1 DEF Point
<1> HIDE DEF d, l, s
<1>5. IsSeries(s, history, d, l)
  BY <1>2, <1>4, SeriesIs
<1> DEFINE T == {Point(history, t) : t \in Range(d)}
           P == {k \in DOMAIN s : zenpower => s[k].value \in Plausible}
           e == Ascending(P)
           n == Cardinality(P)
           all == Selected(s, P)
           c == [k \in 1..n |-> d[e[k]]]
<1>6. Answers!QueryMetric(history, a, b, zenpower, FALSE) = all
  BY AnswersSelect DEF Answers!QueryMetric, Answers!FilterQueryPoints, s
<1>7. s \in Seq(T) /\ P \in SUBSET (DOMAIN s) /\ DOMAIN s = 1..l
  BY <1>5 DEF IsSeries
<1>8. /\ IsAscent(e, P) /\ all \in Seq(T) /\ Len(all) = n /\ DOMAIN all = 1..n /\ n \in Nat
      /\ \A k \in 1..n : all[k] = s[e[k]]
  <2> HIDE DEF T, P
  <2>. QED
    BY <1>7, SelectedIs
<1>9. /\ e \in [1..n -> P] /\ \A j, k \in 1..n : j < k => e[j] < e[k]
      /\ \A i \in P : \E k \in 1..n : e[k] = i
  BY <1>8 DEF IsAscent
<1>10. \A k \in 1..l : s[k] = Point(history, d[k]) /\ d[k] \in S
  BY <1>2, <1>5 DEF IsSeries
<1>11. \A k \in 1..n : e[k] \in P /\ e[k] \in 1..l
  BY <1>7, <1>9
<1>12. \A k \in 1..l : k \in P <=> d[k] \in Kept(history, a, b, zenpower)
  BY <1>7, <1>10 DEF Kept, Point
<1> HIDE DEF P, e, n, all, T
<1>13. Ascends(c, n)
  <2>1. \A k \in 1..n : d[e[k]] \in Int
    BY <1>3, <1>11
  <2>2. c \in [1..n -> Int] /\ \A k \in 1..n : c[k] = d[e[k]]
    BY <2>1
  <2>3. ASSUME NEW j \in 1..n, NEW k \in 1..n, j < k PROVE c[j] < c[k]
    <3>1. e[j] < e[k] /\ e[j] \in 1..l /\ e[k] \in 1..l
      BY <1>9, <1>11, <2>3
    <3>2. d[e[j]] < d[e[k]]
      BY <1>2, <3>1 DEF Ascends
    <3>. QED
      BY <2>2, <3>2
  <2> HIDE DEF c
  <2>. QED
    BY <1>8, <2>2, <2>3 DEF Ascends
<1>14. Range(c) = Kept(history, a, b, zenpower)
  <2>1. DOMAIN c = 1..n /\ \A k \in 1..n : c[k] = d[e[k]]
    OBVIOUS
  <2>2. ASSUME NEW t \in Kept(history, a, b, zenpower) PROVE \E k \in 1..n : c[k] = t
    <3>1. t \in S
      BY DEF Kept
    <3>2. PICK i \in 1..l : d[i] = t
      BY <1>2, <1>3, <3>1 DEF Range
    <3>3. PICK k \in 1..n : e[k] = i
      BY <1>9, <1>12, <3>2
    <3>. QED
      BY <2>1, <3>2, <3>3
  <2>3. \A k \in 1..n : c[k] \in Kept(history, a, b, zenpower)
    BY <1>11, <1>12, <2>1
  <2> HIDE DEF c
  <2>. QED
    BY <2>1, <2>2, <2>3 DEF Range
<1>15. all = [k \in 1..n |-> Point(history, c[k])]
  <2>1. \A k \in 1..n : all[k] = Point(history, c[k])
    BY <1>8, <1>10, <1>11
  <2>2. all = [k \in 1..n |-> all[k]]
    BY <1>8
  <2>. QED
    BY <2>1, <2>2
<1> HIDE DEF c
<1>16. IsSeries(all, history, c, n)
  BY <1>13, <1>15, SeriesIs
<1>. QED
  BY <1>6, <1>14, <1>16

(* What ascends through an interval ascends by one.                        *)
LEMMA IntervalAscends ==
  ASSUME NEW a \in Int, NEW b \in Int, a <= b, NEW c, NEW n, Ascends(c, n), Range(c) = a..b
  PROVE  n = b - a + 1 /\ \A k \in 1..n : c[k] = a + k - 1
<1> DEFINE l == b - a + 1
           d == [k \in 1..l |-> a + k - 1]
<1>1. l \in Nat
  OBVIOUS
<1>2. Ascends(d, l) /\ Range(d) = a..b
  <2>1. /\ d \in [1..l -> Int] /\ DOMAIN d = 1..l
        /\ \A k \in 1..l : d[k] = a + k - 1
    BY <1>1
  <2>2. \A t \in a..b : t - a + 1 \in 1..l /\ a + (t - a + 1) - 1 = t
    OBVIOUS
  <2>3. \A k \in 1..l : a + k - 1 \in a..b
    OBVIOUS
  <2> HIDE DEF d, l
  <2>4. Ascends(d, l)
    BY <1>1, <2>1 DEF Ascends
  <2>5. \A t \in a..b : \E k \in 1..l : d[k] = t
    BY <2>1, <2>2
  <2>6. Range(d) = a..b
    BY <2>1, <2>3, <2>5 DEF Range
  <2>. QED
    BY <2>4, <2>6
<1> HIDE DEF d
<1>3. c = d
  <2> HIDE DEF l
  <2>. QED
    BY <1>2, SameAscent
<1>4. n = l
  <2> HIDE DEF l
  <2>1. n \in Nat /\ DOMAIN c = 1..n /\ DOMAIN d = 1..l
    BY <1>2 DEF Ascends
  <2>2. \A k \in Nat : Cardinality(1..k) = k
    BY FS_Interval
  <2>3. Cardinality(1..n) = n /\ Cardinality(1..l) = l /\ 1..n = 1..l
    BY <1>1, <1>3, <2>1, <2>2
  <2>. QED
    BY <2>3
<1>. QED
  BY <1>3, <1>4 DEF d
(* The page asks for three points at least.                                *)
LEMMA PageAsksEnough ==
  ASSUME NEW start \in Int, NEW end \in Int
  PROVE  Answers!PageRequest(start, end) >= 3 /\ Answers!PageRequest(start, end) \in Int
<1> DEFINE l == Answers!Max({0, end - start})
           r == Answers!CeilDiv(l, Spacing) + 1
<1>1. Spacing \in Nat \ {0} /\ Least \in Nat /\ Least >= 3
  BY QueryConstants DEF Answers!QueriesConstants
<1>2. l \in Nat
  <2>1. end - start \in Int
    OBVIOUS
  <2>. QED
    BY <2>1, LargerIs
<1> HIDE DEF l
<1>3. r \in Int
  BY <1>1, <1>2 DEF Answers!CeilDiv
<1> HIDE DEF r
<1>4. Answers!Max({Least, r}) \in {Least, r} /\ Answers!Max({Least, r}) >= Least
  BY <1>1, <1>3, LargerIs
<1>5. Answers!PageRequest(start, end) = Answers!Max({Least, r})
  BY DEF Answers!PageRequest, r, l
<1>. QED
  BY <1>1, <1>3, <1>4, <1>5

(* The answer to a query for points (QueryMetric, maxPointsForRange,       *)
(* limitPoints), for every history, range and number of points asked for:  *)
(* points of the series in their order, from the first to the last or the  *)
(* last but one, and, of a series without a break, at most an interval     *)
(* more than the spacing apart, and, when the page has asked, never so     *)
(* that it draws a gap between them (gapThresholdForPoints).               *)
THEOREM ThinnedAnswersAreWhole ==
  ASSUME NEW history, NEW q, q.start \in Int, q.end \in Int, q.requested \in Int,
         q.zenpower \in BOOLEAN, q.rate = FALSE
  PROVE  Answers!ThinnedIsWhole(history, q)
<1> DEFINE a == q.start
           b == q.end
           all == Answers!QueryMetric(history, a, b, q.zenpower, FALSE)
           m == Answers!MaxPointsForRange(a, b, q.requested)
           thin == Answers!BatchSeries(history, q)
           unbroken == q.start..q.end \subseteq DOMAIN history /\ ~q.zenpower
           d == Answers!Deltas(thin)
           threshold == Answers!GapThresholdForPoints(thin)
           K == Kept(history, a, b, q.zenpower)
<1>1. thin = Answers!LimitPoints(all, m, q.short)
  BY DEF Answers!BatchSeries
<1>2. PICK c, n : IsSeries(all, history, c, n) /\ Range(c) = K
  BY PointsAre
<1> DEFINE T == {Point(history, t) : t \in Range(c)}
<1>3. /\ Ascends(c, n) /\ all \in Seq(T) /\ Len(all) = n /\ DOMAIN all = 1..n
      /\ \A k \in 1..n : all[k] = Point(history, c[k]) /\ c[k] \in K
  BY <1>2 DEF IsSeries
<1>4. n \in Nat /\ c \in [1..n -> Int] /\ \A j, k \in 1..n : j < k => c[j] < c[k]
  BY <1>3 DEF Ascends
<1>5. \A t \in K : t \in Int /\ a <= t /\ t <= b
  BY DEF Kept
<1>6. /\ m \in Int /\ m >= q.requested
      /\ q.requested <= 0 \/ b <= a => m = q.requested
      /\ q.requested > 0 /\ b > a => m > 1 /\ (m - 1) * Spacing >= b - a
  BY MaxPointsIs
<1> HIDE DEF all, m, thin, T, K
<1>7. n > 1 => b > a
  <2>1. SUFFICES ASSUME n > 1 PROVE b > a
    OBVIOUS
  <2>2. 1 \in 1..n /\ 2 \in 1..n /\ 1 < 2
    BY <1>4, <2>1
  <2>3. c[1] < c[2] /\ c[1] \in K /\ c[2] \in K
    BY <1>3, <1>4, <2>2
  <2>. QED
    BY <1>5, <2>3
<1>8. SUFFICES ASSUME all # <<>> PROVE Answers!ThinnedIsWhole(history, q)
  BY DEF Answers!ThinnedIsWhole, all
<1>9. n > 1 => m # 1
  BY <1>6, <1>7
<1>10. PICK k, p :
         /\ Chooses(p, k, n)
         /\ thin \in Seq(T) /\ Len(thin) = k /\ \A j \in 1..k : thin[j] = all[p[j]]
         /\ \/ \A j \in 1..(k - 1) : p[j + 1] - p[j] = 1
            \/ /\ 1 < m /\ m < n /\ k = m
               /\ \A j \in 1..(k - 1) : p[j + 1] - p[j] \in Low(n, m)..High(n, m)
  BY <1>1, <1>3, <1>6, <1>8, <1>9, LimitIs
<1>11. /\ k \in Nat \ {0} /\ p \in [1..k -> 1..n] /\ p[1] = 1
       /\ n > 1 => p[k] \in {n - 1, n}
       /\ \A j \in 1..(k - 1) : p[j + 1] > p[j]
  BY <1>10 DEF Chooses
<1>12. DOMAIN thin = 1..k
  BY <1>10, LenProperties
<1>13. \A j \in 1..k : p[j] \in 1..n
  BY <1>11
<1>14. n \in Nat \ {0} /\ 1 \in 1..k /\ k \in 1..k
  <2>1. 1 \in 1..k /\ k \in 1..k
    BY <1>11
  <2>2. p[1] \in 1..n
    BY <1>13, <2>1
  <2>. QED
    BY <1>4, <2>1, <2>2
<1>15. /\ DOMAIN d = 1..(k - 1)
       /\ \A j \in 1..(k - 1) : /\ j \in 1..k /\ j + 1 \in 1..k
                               /\ d[j] = c[p[j + 1]] - c[p[j]] /\ d[j] \in Int /\ d[j] > 0
  <2>1. d = [j \in 1..(k - 1) |-> thin[j + 1].time - thin[j].time]
    BY <1>10 DEF Answers!Deltas
  <2> HIDE DEF d
  <2>2. ASSUME NEW j \in 1..(k - 1)
        PROVE  /\ j \in 1..k /\ j + 1 \in 1..k
               /\ d[j] = c[p[j + 1]] - c[p[j]] /\ d[j] \in Int /\ d[j] > 0
    <3>1. j \in 1..k /\ j + 1 \in 1..k
      BY <1>11
    <3>2. p[j] \in 1..n /\ p[j + 1] \in 1..n /\ p[j] < p[j + 1]
      BY <1>11, <1>13, <3>1
    <3>3. thin[j] = all[p[j]] /\ thin[j + 1] = all[p[j + 1]]
      BY <1>10, <3>1
    <3>4. thin[j].time = c[p[j]] /\ thin[j + 1].time = c[p[j + 1]]
      BY <1>3, <3>2, <3>3 DEF Point
    <3>5. d[j] = c[p[j + 1]] - c[p[j]]
      BY <2>1, <3>4
    <3>6. c[p[j]] \in Int /\ c[p[j + 1]] \in Int /\ c[p[j]] < c[p[j + 1]]
      BY <1>4, <3>2
    <3>. QED
      BY <3>1, <3>5, <3>6
  <2>. QED
    BY <2>1, <2>2
<1>16. \A j \in DOMAIN thin : thin[j] \in Range(all)
  BY <1>3, <1>10, <1>12, <1>13 DEF Range
<1>17. Head(thin) = Head(all)
  <2>1. Head(thin) = thin[1] /\ Head(all) = all[1]
    BY <1>3, <1>10, <1>11, <1>14
  <2>. QED
    BY <1>10, <1>11, <1>14, <2>1
<1>18. n > 1 => Answers!Last(thin) \in {all[n], all[n - 1]}
  BY <1>10, <1>11, <1>14 DEF Answers!Last
<1>19. ASSUME unbroken
       PROVE  n = b - a + 1 /\ \A j \in 1..(k - 1) : d[j] = p[j + 1] - p[j]
  <2>1. K = a..b
    BY <1>19 DEF Kept, K
  <2>2. a <= b
    <3>1. c[1] \in K
      BY <1>3, <1>14
    <3>. QED
      BY <1>5, <3>1
  <2>3. n = b - a + 1 /\ \A j \in 1..n : c[j] = a + j - 1
    BY <1>2, <1>3, <2>1, <2>2, IntervalAscends
  <2>4. ASSUME NEW j \in 1..(k - 1) PROVE d[j] = p[j + 1] - p[j]
    <3>1. p[j] \in 1..n /\ p[j + 1] \in 1..n /\ d[j] = c[p[j + 1]] - c[p[j]]
      BY <1>13, <1>15
    <3>2. c[p[j]] = a + p[j] - 1 /\ c[p[j + 1]] = a + p[j + 1] - 1
      BY <2>3, <3>1
    <3>. QED
      BY <3>1, <3>2
  <2>. QED
    BY <2>3, <2>4
<1>20. 1 < m /\ m < n => /\ Low(n, m) \in Nat \ {0} /\ High(n, m) \in Nat
                          /\ High(n, m) <= 3 * Low(n, m)
  BY <1>4, <1>6, LowIsClose
<1>21. Spacing \in Nat \ {0} /\ GapThreshold \in Nat \ {0}
  BY QueryConstants DEF Answers!QueriesConstants
<1> HIDE DEF d
<1>22. ASSUME unbroken, q.requested > 0
       PROVE  \A j \in 1..(k - 1) : d[j] <= Spacing + 1
  <2>1. CASE \A j \in 1..(k - 1) : p[j + 1] - p[j] = 1
    <3>1. \A j \in 1..(k - 1) : d[j] = 1
      BY <1>19, <1>22, <2>1
    <3>. QED
      BY <1>21, <3>1
  <2>2. CASE /\ 1 < m /\ m < n
             /\ \A j \in 1..(k - 1) : p[j + 1] - p[j] \in Low(n, m)..High(n, m)
    <3>1. n = b - a + 1
      BY <1>19, <1>22
    <3>2. m \in Nat /\ b > a
      BY <1>4, <1>6, <1>7, <2>2
    <3>3. (m - 1) * Spacing >= n - 1
      <4>1. (m - 1) * Spacing >= b - a
        BY <1>6, <1>22, <3>2
      <4>. QED
        BY <3>1, <4>1
    <3>4. High(n, m) <= Spacing + 1
      BY <1>4, <2>2, <3>2, <3>3, HighIsClose
    <3>5. \A j \in 1..(k - 1) : d[j] \in Low(n, m)..High(n, m)
      BY <1>19, <1>22, <2>2
    <3>. QED
      BY <1>20, <1>21, <2>2, <3>4, <3>5
  <2>. QED
    BY <1>10, <2>1, <2>2
<1>23. ASSUME unbroken, q.requested = Answers!PageRequest(a, b)
       PROVE  Answers!Missing(thin) = {}
  <2>1. q.requested >= 3
    BY <1>23, PageAsksEnough
  <2>2. /\ threshold \in Int /\ threshold >= GapThreshold
        /\ k >= 3 => \E j \in 1..(k - 1) : threshold >= 3 * d[j]
    <3>1. \A j \in 1..(k - 1) : d[j] \in Nat \ {0}
      BY <1>15
    <3>. QED
      BY <1>10, <1>11, <3>1, ThresholdIs DEF d
  <2> HIDE DEF threshold
  <2>3. \A j \in 1..(k - 1) : d[j] <= threshold
    <3>1. CASE \A j \in 1..(k - 1) : p[j + 1] - p[j] = 1
      <4>1. \A j \in 1..(k - 1) : d[j] = 1
        BY <1>19, <1>23, <3>1
      <4>. QED
        BY <1>21, <2>2, <4>1
    <3>2. CASE /\ 1 < m /\ m < n /\ k = m
               /\ \A j \in 1..(k - 1) : p[j + 1] - p[j] \in Low(n, m)..High(n, m)
      <4>1. k >= 3
        BY <1>6, <2>1, <3>2
      <4>2. PICK i \in 1..(k - 1) : threshold >= 3 * d[i]
        BY <2>2, <4>1
      <4>3. \A j \in 1..(k - 1) : d[j] \in Low(n, m)..High(n, m)
        BY <1>19, <1>23, <3>2
      <4> DEFINE low == Low(n, m)
                 high == High(n, m)
      <4>4. low \in Nat /\ high \in Nat /\ high <= 3 * low
        BY <1>20, <3>2
      <4>5. \A j \in 1..(k - 1) : d[j] \in low..high
        BY <4>3
      <4> HIDE DEF low, high
      <4>6. d[i] \in Int /\ d[i] >= low
        BY <4>4, <4>5
      <4>7. threshold >= high
        BY <2>2, <4>2, <4>4, <4>6
      <4>. QED
        BY <2>2, <4>4, <4>5, <4>7
    <3>. QED
      BY <1>10, <3>1, <3>2
  <2>4. \A j \in 1..(Len(thin) - 1) : ~(d[j] > threshold)
    <3>1. \A j \in 1..(k - 1) : ~(d[j] > threshold)
      BY <1>15, <2>2, <2>3
    <3>. QED
      BY <1>10, <3>1
  <2>. QED
    BY <2>4 DEF Answers!Missing, d, threshold
<1>24. /\ \A j \in DOMAIN thin : thin[j] \in Answers!Range(all)
       /\ \A j \in DOMAIN d : d[j] > 0
       /\ Len(all) > 1 => Answers!Last(thin) \in {all[Len(all)], all[Len(all) - 1]}
       /\ unbroken /\ q.requested > 0 => \A j \in DOMAIN d : d[j] <= Spacing + 1
  BY <1>3, <1>15, <1>16, <1>18, <1>22, AnswersSelect
<1>. QED
  BY <1>17, <1>23, <1>24, Zenon DEF Answers!ThinnedIsWhole, all, thin, d
-----------------------------------------------------------------------------
(* Rates, loaded in two pieces.                                            *)
Rates == [time : Int, value : Int, over : Int]

(* The rate between two samples, the sample after another, and the rates   *)
(* that a query finds: those that do not fall.                             *)
Rate(history, u, t) == [time |-> t, value |-> history[t] - history[u], over |-> t - u]
Follows(K, u, t) == u \in K /\ t \in K /\ u < t /\ \A x \in K : ~(u < x /\ x < t)
Grown(history, K, g) ==
  \E u, t \in K : Follows(K, u, t) /\ history[t] - history[u] >= 0 /\ g = Rate(history, u, t)

(* What follows what, if c ascends through K.                              *)
LEMMA FollowsIs ==
  ASSUME NEW c, NEW n, Ascends(c, n)
  PROVE  /\ \A k \in 1..(n - 1) : k \in 1..n /\ k + 1 \in 1..n /\ Follows(Range(c), c[k], c[k + 1])
         /\ \A u, t : Follows(Range(c), u, t) => \E k \in 1..(n - 1) : u = c[k] /\ t = c[k + 1]
<1> DEFINE K == Range(c)
<1>1. /\ n \in Nat /\ DOMAIN c = 1..n /\ \A k \in 1..n : c[k] \in Int
      /\ \A j, k \in 1..n : j < k => c[j] < c[k]
  BY DEF Ascends
<1>2. (\A k \in 1..n : c[k] \in K) /\ \A x \in K : \E k \in 1..n : x = c[k]
  BY <1>1 DEF Range
<1> HIDE DEF K
<1>3. ASSUME NEW k \in 1..(n - 1) PROVE k \in 1..n /\ k + 1 \in 1..n /\ Follows(K, c[k], c[k + 1])
  <2>1. k \in 1..n /\ k + 1 \in 1..n /\ k < k + 1
    BY <1>1
  <2>2. ASSUME NEW x \in K, c[k] < x, x < c[k + 1] PROVE FALSE
    <3>1. PICK j \in 1..n : x = c[j]
      BY <1>2
    <3>2. ~(j < k) /\ ~(k + 1 < j) /\ j # k /\ j # k + 1
      BY <1>1, <2>1, <2>2, <3>1
    <3>. QED
      BY <1>1, <2>1, <3>2
  <2>. QED
    BY <1>1, <1>2, <2>1, <2>2 DEF Follows
<1>4. ASSUME NEW u, NEW t, Follows(K, u, t) PROVE \E k \in 1..(n - 1) : u = c[k] /\ t = c[k + 1]
  <2>1. PICK k \in 1..n : u = c[k]
    BY <1>2, <1>4 DEF Follows
  <2>2. PICK j \in 1..n : t = c[j]
    BY <1>2, <1>4 DEF Follows
  <2>3. k < j
    <3>1. u < t
      BY <1>4 DEF Follows
    <3>2. ~(j < k) /\ j # k
      BY <1>1, <2>1, <2>2, <3>1
    <3>. QED
      BY <1>1, <3>2
  <2>4. j = k + 1
    <3>1. SUFFICES ASSUME k + 1 < j PROVE FALSE
      BY <1>1, <2>3
    <3>2. k + 1 \in 1..n /\ k < k + 1
      BY <1>1, <3>1
    <3>3. c[k] < c[k + 1] /\ c[k + 1] < c[j] /\ c[k + 1] \in K
      BY <1>1, <1>2, <3>1, <3>2
    <3>. QED
      BY <1>4, <2>1, <2>2, <3>3 DEF Follows
  <2>5. k \in 1..(n - 1)
    BY <1>1, <2>4
  <2>. QED
    BY <2>1, <2>2, <2>4, <2>5
<1>. QED
  BY <1>3, <1>4 DEF K

(* A query for rates gives just these.                                     *)
LEMMA RatesAre ==
  ASSUME NEW history, NEW a \in Int, NEW b \in Int, NEW zenpower \in BOOLEAN,
         \A t \in DOMAIN history : history[t] \in Int
  PROVE  LET s == Answers!QueryMetric(history, a, b, zenpower, TRUE)
         IN  s \in Seq(Rates) /\ \A g : g \in Range(s) <=> Grown(history, Kept(history, a, b, zenpower), g)
<1> DEFINE K == Kept(history, a, b, zenpower)
           all == Answers!QueryMetric(history, a, b, zenpower, FALSE)
           s == Answers!QueryMetric(history, a, b, zenpower, TRUE)
           growth == [k \in 1..(Len(all) - 1) |-> Answers!GrowthAt(all, k + 1)]
           P == {k \in DOMAIN growth : growth[k].over > 0 /\ growth[k].value >= 0}
<1>1. PICK c, n : IsSeries(all, history, c, n) /\ Range(c) = K
  BY PointsAre
<1>2. /\ Ascends(c, n) /\ Len(all) = n
      /\ \A k \in 1..n : all[k] = Point(history, c[k]) /\ c[k] \in K
  BY <1>1 DEF IsSeries
<1>3. n \in Nat /\ \A j, k \in 1..n : j < k => c[j] < c[k]
  BY <1>2 DEF Ascends
<1>4. s = Selected(growth, P)
  <2>1. all = Answers!FilterQueryPoints(zenpower, Answers!Select(history, a, b))
    BY DEF Answers!QueryMetric
  <2>2. s = Answers!RatePoints(all)
    BY <2>1 DEF Answers!QueryMetric
  <2> HIDE DEF all, s
  <2>. QED
    BY <2>2, AnswersSelect DEF Answers!RatePoints
<1>5. \A t \in K : t \in Int /\ history[t] \in Int
  BY DEF Kept
<1>6. /\ \A k \in 1..(n - 1) : k \in 1..n /\ k + 1 \in 1..n /\ Follows(K, c[k], c[k + 1])
      /\ \A u, t : Follows(K, u, t) => \E k \in 1..(n - 1) : u = c[k] /\ t = c[k + 1]
  BY <1>1, <1>2, FollowsIs
<1> HIDE DEF all, s, K
<1>7. /\ DOMAIN growth = 1..(n - 1)
      /\ \A k \in 1..(n - 1) : growth[k] = Rate(history, c[k], c[k + 1]) /\ growth[k] \in Rates
  <2>1. DOMAIN growth = 1..(n - 1) /\ \A k \in 1..(n - 1) : growth[k] = Answers!GrowthAt(all, k + 1)
    BY <1>2
  <2> HIDE DEF growth
  <2>2. ASSUME NEW k \in 1..(n - 1)
        PROVE  growth[k] = Rate(history, c[k], c[k + 1]) /\ growth[k] \in Rates
    <3>1. k \in 1..n /\ k + 1 \in 1..n /\ k + 1 - 1 = k
      BY <1>3, <1>6
    <3>2. all[k] = Point(history, c[k]) /\ all[k + 1] = Point(history, c[k + 1])
      BY <1>2, <3>1
    <3>3. growth[k] = [time |-> all[k + 1].time, value |-> all[k + 1].value - all[k].value,
                       over |-> all[k + 1].time - all[k].time]
      BY <2>1, <3>1 DEF Answers!GrowthAt
    <3>4. growth[k] = Rate(history, c[k], c[k + 1])
      BY <3>2, <3>3 DEF Point, Rate
    <3>5. /\ c[k] \in Int /\ c[k + 1] \in Int
          /\ history[c[k]] \in Int /\ history[c[k + 1]] \in Int
      BY <1>2, <1>5, <3>1
    <3>. QED
      BY <3>4, <3>5 DEF Rate, Rates
  <2>. QED
    BY <2>1, <2>2
<1>8. growth \in Seq(Rates)
  <2>1. growth = [k \in 1..(n - 1) |-> growth[k]]
    BY <1>2
  <2> HIDE DEF growth
  <2>2. growth \in [1..(n - 1) -> Rates]
    BY <1>7, <2>1
  <2>3. CASE n = 0
    <3>1. 1..(n - 1) = 1..0
      BY <2>3
    <3>2. growth \in [1..0 -> Rates]
      BY <2>2, <3>1
    <3>. QED
      BY <3>2, FunctionIsSequence
  <2>4. CASE n # 0
    <3> DEFINE l == n - 1
    <3>1. l \in Nat /\ growth \in [1..l -> Rates]
      BY <1>3, <2>2, <2>4
    <3> HIDE DEF l
    <3>. QED
      BY <3>1, FunctionIsSequence
  <2>. QED
    BY <2>3, <2>4
<1> HIDE DEF growth
<1>9. P \in SUBSET (DOMAIN growth)
  OBVIOUS
<1>10. \A k \in 1..(n - 1) : k \in P <=> history[c[k + 1]] - history[c[k]] >= 0
  <2>1. SUFFICES ASSUME NEW k \in 1..(n - 1)
                 PROVE  k \in P <=> history[c[k + 1]] - history[c[k]] >= 0
    OBVIOUS
  <2>2. /\ growth[k].value = history[c[k + 1]] - history[c[k]]
        /\ growth[k].over = c[k + 1] - c[k]
    BY <1>7 DEF Rate
  <2>3. c[k] < c[k + 1] /\ c[k] \in Int /\ c[k + 1] \in Int
    <3>1. k \in 1..n /\ k + 1 \in 1..n /\ k < k + 1
      BY <1>3, <1>6
    <3>. QED
      BY <1>2, <1>3, <1>5, <3>1
  <2>. QED
    BY <1>7, <2>2, <2>3
<1>11. \A k \in P : k \in 1..(n - 1)
  BY <1>7
<1> HIDE DEF P
<1>12. s \in Seq(Rates) /\ Range(s) = {growth[k] : k \in P}
  BY <1>4, <1>8, <1>9, SelectedIs
<1>13. ASSUME NEW g \in Range(s) PROVE Grown(history, K, g)
  <2>1. PICK k \in P : g = growth[k]
    BY <1>12
  <2>2. /\ k \in 1..(n - 1) /\ g = Rate(history, c[k], c[k + 1])
        /\ history[c[k + 1]] - history[c[k]] >= 0
    BY <1>7, <1>10, <1>11, <2>1
  <2>3. Follows(K, c[k], c[k + 1]) /\ c[k] \in K /\ c[k + 1] \in K
    BY <1>6, <2>2 DEF Follows
  <2>. QED
    BY <2>2, <2>3 DEF Grown
<1>14. ASSUME NEW g, Grown(history, K, g) PROVE g \in Range(s)
  <2>1. PICK u \in K, t \in K : /\ Follows(K, u, t) /\ history[t] - history[u] >= 0
                               /\ g = Rate(history, u, t)
    BY <1>14 DEF Grown
  <2>2. PICK k \in 1..(n - 1) : u = c[k] /\ t = c[k + 1]
    BY <1>6, <2>1
  <2>3. k \in P /\ g = growth[k]
    BY <1>7, <1>10, <2>1, <2>2
  <2>. QED
    BY <1>12, <2>3
<1>. QED
  BY <1>12, <1>13, <1>14 DEF s, K

(* What is merged is in one piece or the other.                            *)
LEMMA MergedIs ==
  ASSUME NEW older \in Seq(Rates), NEW newer \in Seq(Rates),
         \A x, y \in Range(older) \cup Range(newer) : x.time = y.time => x = y
  PROVE  Range(Answers!MergePoints(older, newer)) = Range(older) \cup Range(newer)
<1> DEFINE both == older \o newer
           S == Answers!Times(both)
           c == Ascending(S)
           n == Cardinality(S)
           At1(k) == {j \in DOMAIN both : both[j].time = c[k]}
           merged == Answers!MergePoints(older, newer)
<1>1. both \in Seq(Rates) /\ Range(both) = Range(older) \cup Range(newer)
  BY RangeOfConcat
<1>2. merged = [k \in DOMAIN c |-> both[Answers!Min(At1(k))]]
  BY AnswersSelect DEF Answers!MergePoints
<1> HIDE DEF both, merged
<1>3. /\ DOMAIN both = 1..Len(both) /\ Len(both) \in Nat
      /\ \A j \in DOMAIN both : both[j] \in Rates /\ both[j] \in Range(both)
  <2>1. DOMAIN both = 1..Len(both) /\ Len(both) \in Nat
    BY <1>1, LenProperties
  <2>2. \A j \in DOMAIN both : both[j] \in Rates
    BY <1>1, <2>1, ElementOfSeq
  <2>. QED
    BY <2>1, <2>2 DEF Range
<1>4. S = {both[j].time : j \in DOMAIN both}
  BY DEF Answers!Times
<1>5. S \in SUBSET Int
  BY <1>3, <1>4 DEF Rates
<1>6. IsFiniteSet(S)
  <2> DEFINE f == [j \in DOMAIN both |-> both[j].time]
  <2>1. f \in Surjection(DOMAIN both, S)
    BY <1>4 DEF Surjection
  <2>2. IsFiniteSet(DOMAIN both)
    BY <1>3, FS_Interval
  <2> HIDE DEF f, S
  <2>. QED
    BY <2>1, <2>2, FS_Surjection
<1> HIDE DEF S
<1>7. /\ Range(c) = S /\ DOMAIN c = 1..n
  BY <1>5, <1>6, AscentAscends DEF Ascends
<1> HIDE DEF c, n
<1>8. ASSUME NEW k \in 1..n
      PROVE  Answers!Min(At1(k)) \in DOMAIN both /\ both[Answers!Min(At1(k))].time = c[k]
  <2>1. c[k] \in S
    BY <1>7 DEF Range
  <2>2. At1(k) # {} /\ At1(k) \in SUBSET Nat
    BY <1>3, <1>4, <2>1
  <2> DEFINE A == At1(k)
  <2>3. Answers!Min(A) \in A
    <3> HIDE DEF A
    <3>. QED
      BY <2>2, SmallestIs DEF A
  <2>. QED
    BY <2>3
<1> DEFINE f(k) == Answers!Min(At1(k))
<1>9. DOMAIN merged = 1..n /\ \A k \in 1..n : merged[k] = both[f(k)]
  BY <1>2, <1>7
<1>10. \A k \in 1..n : f(k) \in DOMAIN both /\ both[f(k)].time = c[k]
  BY <1>8
<1> HIDE DEF f
<1>11. \A x \in Range(merged) : x \in Range(both)
  BY <1>3, <1>9, <1>10 DEF Range
<1>12. ASSUME NEW x \in Range(both) PROVE x \in Range(merged)
  <2>1. PICK j \in DOMAIN both : x = both[j]
    BY DEF Range
  <2>2. x.time \in Range(c)
    BY <1>4, <1>7, <2>1
  <2>3. PICK k \in 1..n : c[k] = x.time
    BY <1>7, <2>2 DEF Range
  <2>4. both[f(k)].time = x.time /\ both[f(k)] \in Range(both)
    BY <1>3, <1>10, <2>3
  <2>5. both[f(k)] = x
    BY <1>1, <2>4
  <2>. QED
    BY <1>9, <2>5 DEF Range
<1>13. Range(merged) = Range(both)
  BY <1>11, <1>12
<1>. QED
  BY <1>1, <1>13 DEF merged

(* An answer in two parts, merged by the page (mergePoints, app.js), has   *)
(* no rate that one answer has not, and misses at most the one rate whose  *)
(* samples lie on either side of the seam, for every history, range and    *)
(* seam.                                                                   *)
THEOREM SeamsCutOneInterval ==
  ASSUME NEW history, NEW q, q.start \in Int, q.end \in Int, q.zenpower \in BOOLEAN,
         NEW seam \in Int, q.start <= seam, seam <= q.end,
         \A t \in DOMAIN history : history[t] \in Int
  PROVE  Answers!SeamCutsOneInterval(history, q, seam)
<1> DEFINE part(a, b) == Answers!QueryMetric(history, a, b, q.zenpower, TRUE)
           K(a, b) == Kept(history, a, b, q.zenpower)
           K1 == K(q.start, seam)
           K2 == K(seam, q.end)
           K0 == K(q.start, q.end)
           older == part(q.start, seam)
           newer == part(seam, q.end)
           atOnce == Range(part(q.start, q.end))
           pieces == Range(Answers!MergePoints(older, newer))
<1>1. /\ older \in Seq(Rates) /\ newer \in Seq(Rates)
      /\ \A g : g \in Range(older) <=> Grown(history, K1, g)
      /\ \A g : g \in Range(newer) <=> Grown(history, K2, g)
      /\ \A g : g \in atOnce <=> Grown(history, K0, g)
  <2>1. ASSUME NEW a \in Int, NEW b \in Int
        PROVE  part(a, b) \in Seq(Rates) /\ \A g : g \in Range(part(a, b)) <=> Grown(history, K(a, b), g)
    BY RatesAre
  <2> HIDE DEF part, K
  <2>. QED
    BY <2>1
<1>2. /\ \A t \in K0 : t \in Int
      /\ \A t : t \in K1 <=> t \in K0 /\ t <= seam
      /\ \A t : t \in K2 <=> t \in K0 /\ t >= seam
  BY DEF Kept
<1> HIDE DEF K, part
<1>3. \A u, t : Follows(K1, u, t) <=> Follows(K0, u, t) /\ t <= seam
  BY <1>2 DEF Follows
<1>4. \A u, t : Follows(K2, u, t) <=> Follows(K0, u, t) /\ u >= seam
  BY <1>2 DEF Follows
<1> HIDE DEF K0, K1, K2
<1>5. \A g : Grown(history, K1, g) <=>
        \E u, t \in K0 : /\ Follows(K0, u, t) /\ history[t] - history[u] >= 0
                        /\ g = Rate(history, u, t) /\ t <= seam
  <2>1. \A u, t : Follows(K0, u, t) => u \in K0 /\ t \in K0
    BY DEF Follows
  <2>2. \A u, t : Follows(K1, u, t) => u \in K1 /\ t \in K1
    BY DEF Follows
  <2>. QED
    BY <1>3, <2>1, <2>2 DEF Grown
<1>6. \A g : Grown(history, K2, g) <=>
        \E u, t \in K0 : /\ Follows(K0, u, t) /\ history[t] - history[u] >= 0
                        /\ g = Rate(history, u, t) /\ u >= seam
  <2>1. \A u, t : Follows(K0, u, t) => u \in K0 /\ t \in K0
    BY DEF Follows
  <2>2. \A u, t : Follows(K2, u, t) => u \in K2 /\ t \in K2
    BY DEF Follows
  <2>. QED
    BY <1>4, <2>1, <2>2 DEF Grown
<1>7. \A u, t : Rate(history, u, t).time = t /\ Rate(history, u, t).over = t - u
  BY DEF Rate
<1>8. pieces = Range(older) \cup Range(newer)
  <2>1. ASSUME NEW x \in Range(older) \cup Range(newer), NEW y \in Range(older) \cup Range(newer),
               x.time = y.time
        PROVE  x = y
    <3>1. PICK u \in K0, t \in K0 : Follows(K0, u, t) /\ x = Rate(history, u, t)
      BY <1>1, <1>5, <1>6
    <3>2. PICK v \in K0, w \in K0 : Follows(K0, v, w) /\ y = Rate(history, v, w)
      BY <1>1, <1>5, <1>6
    <3>3. t = w
      BY <1>7, <2>1, <3>1, <3>2
    <3>4. u = v
      <4>1. ~(u < v) /\ ~(v < u)
        BY <3>1, <3>2, <3>3 DEF Follows
      <4>. QED
        BY <1>2, <4>1
    <3>. QED
      BY <3>1, <3>2, <3>3, <3>4
  <2>. QED
    BY <1>1, <2>1, MergedIs
<1> HIDE DEF older, newer, atOnce, pieces
<1>9. ASSUME NEW g \in pieces PROVE g \in atOnce
  <2>1. PICK u \in K0, t \in K0 : /\ Follows(K0, u, t) /\ history[t] - history[u] >= 0
                                 /\ g = Rate(history, u, t)
    BY <1>1, <1>5, <1>6, <1>8
  <2>2. Grown(history, K0, g)
    BY <2>1 DEF Grown
  <2>. QED
    BY <1>1, <2>2
<1>10. ASSUME NEW g \in atOnce \ pieces PROVE g.time > seam /\ g.time - g.over < seam
  <2>1. PICK u \in K0, t \in K0 : /\ Follows(K0, u, t) /\ history[t] - history[u] >= 0
                                 /\ g = Rate(history, u, t)
    BY <1>1 DEF Grown
  <2>2. ~(t <= seam) /\ ~(u >= seam)
    BY <1>1, <1>5, <1>6, <1>8, <2>1
  <2>3. u \in Int /\ t \in Int /\ g.time = t /\ g.over = t - u
    BY <1>2, <1>7, <2>1
  <2>. QED
    BY <2>2, <2>3
<1>11. /\ Answers!Range(Answers!MergePoints(part(q.start, seam), part(seam, q.end))) = pieces
       /\ Answers!Range(part(q.start, q.end)) = atOnce
  BY AnswersSelect DEF pieces, atOnce, older, newer
<1>. QED
  BY <1>9, <1>10, <1>11, Zenon DEF Answers!SeamCutsOneInterval, part

-----------------------------------------------------------------------------
(* What is asked for, and of which history.                                *)
QueryOK ==
  At("query") =>
    /\ query.ask.start \in Int /\ query.ask.end \in Int /\ query.ask.requested \in Int
    /\ query.ask.zenpower \in BOOLEAN /\ query.ask.rate \in BOOLEAN
    /\ query.ask.rate =>
         /\ query.seam \in Int /\ query.ask.start <= query.seam /\ query.seam <= query.ask.end
         /\ \A t \in DOMAIN query.history : query.history[t] \in Int

(* What is asked is asked of integers.                                     *)
LEMMA QueryInit == MCInit => QueryOK
<1> SUFFICES ASSUME MCInit, At("query") PROVE QueryOK
  BY DEF QueryOK
<1>1. CASE IsThinned
  <2>1. PICK start \in 0..2, end \in {0, 1, 6, 9, 10} :
          \E requested \in {0, 1, 2, 4, Answers!PageRequest(start, end)},
             short \in {{}, {1}, {2}, {3}, 1..10}, gone \in Gaps :
            query = Thinned(start, end, requested, short, gone)
    BY <1>1 DEF IsThinned
  <2>2. PICK requested \in {0, 1, 2, 4, Answers!PageRequest(start, end)},
             short \in {{}, {1}, {2}, {3}, 1..10}, gone \in Gaps :
            query = Thinned(start, end, requested, short, gone)
    BY <2>1
  <2>3. start \in Int /\ end \in Int
    OBVIOUS
  <2>4. requested \in Int
    BY <2>3, PageAsksEnough
  <2>5. /\ query.ask.start = start /\ query.ask.end = end /\ query.ask.requested = requested
        /\ query.ask.zenpower = FALSE /\ query.ask.rate = FALSE
    BY <2>2 DEF Thinned, Ask
  <2>. QED
    BY <2>3, <2>4, <2>5 DEF QueryOK
<1>2. CASE IsRate
  <2>1. PICK times \in SUBSET (0..4), zenpower \in BOOLEAN, seam \in 0..4 :
          \E history \in [times -> 0..2] :
            query = [seam |-> seam, history |-> history,
                     ask |-> [Ask(0, 4) EXCEPT !.zenpower = zenpower, !.rate = TRUE]]
    BY <1>2 DEF IsRate
  <2>2. PICK history \in [times -> 0..2] :
          query = [seam |-> seam, history |-> history,
                   ask |-> [Ask(0, 4) EXCEPT !.zenpower = zenpower, !.rate = TRUE]]
    BY <2>1
  <2>3. /\ query.ask.start = 0 /\ query.ask.end = 4 /\ query.ask.requested = 0
        /\ query.ask.zenpower = zenpower /\ query.ask.rate = TRUE
        /\ query.seam = seam /\ query.history = history
    BY <2>2 DEF Ask
  <2>4. /\ \A t \in DOMAIN history : history[t] \in Int
        /\ seam \in Int /\ 0 <= seam /\ seam <= 4
    OBVIOUS
  <2> HIDE DEF IsRate, MCInit
  <2>5. \A t \in DOMAIN query.history : query.history[t] \in Int
    BY <2>3, <2>4
  <2> DEFINE ask == query.ask
             at == query.seam
  <2>6. /\ ask.start = 0 /\ ask.end = 4 /\ ask.requested = 0 /\ ask.zenpower \in BOOLEAN
        /\ ask.rate \in BOOLEAN /\ at = seam
    BY <2>3
  <2> HIDE DEF ask, at
  <2>7. /\ ask.start \in Int /\ ask.end \in Int /\ ask.requested \in Int /\ at \in Int
        /\ ask.start <= at /\ at <= ask.end
    BY <2>4, <2>6
  <2>. QED
    BY <2>5, <2>6, <2>7 DEF QueryOK, ask, at
<1>. QED
  BY <1>1, <1>2 DEF MCInit

(* No step asks anything else.                                             *)
LEMMA QueryStep == QueryOK /\ [MCNext]_allVars => QueryOK'
<1> SUFFICES ASSUME QueryOK, [MCNext]_allVars PROVE QueryOK'
  OBVIOUS
<1>1. subject' = subject /\ query' = query
  BY DEF MCNext, allVars
<1>. QED
  BY <1>1 DEF QueryOK, At

(* So the two theorems are about every query of the run.                   *)
LEMMA QueryAnswered == QueryOK => HistoryComesWhole
<1> SUFFICES ASSUME QueryOK, At("query")
             PROVE  IF query.ask.rate
                    THEN Answers!SeamCutsOneInterval(query.history, query.ask, query.seam)
                    ELSE Answers!ThinnedIsWhole(query.history, query.ask)
  BY DEF HistoryComesWhole
<1> DEFINE h == query.history
           q == query.ask
           s == query.seam
<1>1. /\ q.start \in Int /\ q.end \in Int /\ q.requested \in Int
      /\ q.zenpower \in BOOLEAN /\ q.rate \in BOOLEAN
      /\ q.rate => /\ s \in Int /\ q.start <= s /\ s <= q.end
                   /\ \A t \in DOMAIN h : h[t] \in Int
  BY DEF QueryOK
<1> HIDE DEF h, q, s
<1>2. CASE q.rate
  <2>1. Answers!SeamCutsOneInterval(h, q, s)
    BY <1>1, <1>2, SeamsCutOneInterval
  <2>. QED
    BY <1>2, <2>1 DEF h, q, s
<1>3. CASE ~q.rate
  <2>1. q.rate = FALSE
    BY <1>1, <1>3
  <2>2. Answers!ThinnedIsWhole(h, q)
    BY <1>1, <2>1, ThinnedAnswersAreWhole
  <2>. QED
    BY <1>3, <2>2 DEF h, q, s
<1>. QED
  BY <1>2, <1>3

(* Every query of the page's runs is answered whole: thinned without a gap *)
(* that the page would draw, and cut at a seam in one interval only        *)
(* (QueryMetric, limitPoints, gapThresholdForPoints, mergePoints).         *)
THEOREM HistoriesComeWhole == MCSpec => []HistoryComesWhole
<1>. QED
  BY QueryInit, QueryStep, QueryAnswered, PTL DEF MCSpec

=============================================================================
