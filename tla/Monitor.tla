------------------------------ MODULE Monitor ------------------------------
(***************************************************************************)
(* monitor.Monitor.Run: sample, turn counters into rates, store, publish,  *)
(* wait for the ticker, until the context is done; and the daemon that     *)
(* runs it, which may crash anywhere and is started again on the same      *)
(* storage.                                                                *)
(*                                                                         *)
(* SampleAll is replaced by what Sampler is shown to promise               *)
(* (RoundService): every collector gets one answer, and only then does the *)
(* call return.  Each collector exposes one counter series; an answer is   *)
(* its value when it was read, or an error of any of Sampler's kinds.      *)
(* FlattenSample contributes that point; gauges pass through Transform     *)
(* untouched and are left out.                                             *)
(***************************************************************************)
EXTENDS Integers, FiniteSets

CONSTANTS
  Collectors,
  MaxTime,     \* bound on the clock
  MaxValue,    \* bound on a counter
  MaxSamples   \* bound on the samples taken

ASSUME MonitorConstants ==
  /\ MaxTime \in Nat
  /\ MaxValue \in Nat
  /\ MaxSamples \in Nat

VARIABLES
  now,         \* the clock
  ticked,      \* the ticker's channel (it holds one tick)
  ctxDone,     \* the context was cancelled
  device,      \* the counters as the machine has them
  pc,          \* where Run is
  answers,     \* SampleAll's records
  stamp,       \* the sample's timestamp
  points,      \* the sample's points after Transform
  errors,      \* the sample's collectorErrors
  failing,     \* Monitor.failing
  prev,        \* CounterRateTransformer.prev
  listed,      \* Store.metrics
  rows,        \* what the time series storage holds
  live         \* what OnSample was given

\* What happened so far, for the properties only.
VARIABLES
  samples,     \* samples started
  grown,       \* how much each device counter has counted in all
  restarted,   \* counters that went back to zero
  squeezed,    \* counters read twice under one timestamp
  first,       \* the first value seen of each counter
  counted,     \* what the rates of this process add up to
  earlier,     \* and those of the processes before it
  before,      \* the rows they left
  warned,      \* "collector failing" lines per collector
  recovered,   \* "collector recovered" lines per collector
  unsaved      \* points of failed inserts

machine == <<now, ticked, device, grown, restarted>>
transformer == <<prev, first, counted, squeezed, earlier>>
logging == <<failing, warned, recovered>>
storage == <<listed, rows, unsaved, before>>
vars == <<machine, transformer, logging, storage, ctxDone, pc, answers, stamp, points,
          errors, live, samples>>

NoAnswer == [kind |-> "none", value |-> 0]
Failed == [kind |-> "error", value |-> 0]
Read(v) == [kind |-> "metrics", value |-> v]
NoPrev == [time |-> -1, value |-> 0]

Zero == [c \in Collectors |-> 0]

Init ==
  /\ now = 0 /\ ticked = FALSE /\ ctxDone = FALSE
  /\ device = Zero /\ grown = Zero /\ restarted = {}
  /\ pc = "sampling"
  /\ answers = [c \in Collectors |-> NoAnswer]
  /\ stamp = 0 /\ points = {} /\ errors = {}
  /\ failing = {} /\ warned = Zero /\ recovered = Zero
  /\ prev = [c \in Collectors |-> NoPrev]
  /\ first = Zero /\ counted = Zero /\ squeezed = {} /\ earlier = Zero
  /\ listed = {} /\ rows = {} /\ unsaved = {} /\ before = {}
  /\ live = {}
  /\ samples = 1

-----------------------------------------------------------------------------
(* The machine: time passes, counters count and restart at zero.           *)

Tick ==
  /\ now < MaxTime
  /\ now' = now + 1
  /\ ticked' = TRUE
  /\ UNCHANGED <<device, grown, restarted, transformer, logging, storage, ctxDone, pc,
                 answers, stamp, points, errors, live, samples>>

Count(c) ==
  /\ grown[c] < MaxValue
  /\ device' = [device EXCEPT ![c] = @ + 1]
  /\ grown' = [grown EXCEPT ![c] = @ + 1]
  /\ UNCHANGED <<now, ticked, restarted, transformer, logging, storage, ctxDone, pc, answers,
                 stamp, points, errors, live, samples>>

Restart(c) ==
  /\ device[c] > 0
  /\ device' = [device EXCEPT ![c] = 0]
  /\ restarted' = restarted \cup {c}
  /\ UNCHANGED <<now, ticked, grown, transformer, logging, storage, ctxDone, pc, answers,
                 stamp, points, errors, live, samples>>

Cancel ==
  /\ ~ctxDone
  /\ ctxDone' = TRUE
  /\ UNCHANGED <<machine, transformer, logging, storage, pc, answers, stamp, points, errors,
                 live, samples>>

-----------------------------------------------------------------------------
(* Monitor.sample.                                                         *)

Answer(c) ==
  /\ pc = "sampling"
  /\ answers[c] = NoAnswer
  /\ \E a \in {Read(device[c]), Failed} : answers' = [answers EXCEPT ![c] = a]
  /\ UNCHANGED <<machine, transformer, logging, storage, ctxDone, pc, stamp, points, errors,
                 live, samples>>

CollectorErrors == {c \in Collectors : answers[c].kind = "error"}
Counters == {c \in Collectors : answers[c].kind = "metrics"}

(* logFailures: a line when a collector is in this sample's errors and was *)
(* not in the last one's, and one when it no longer is.                    *)
StartsFailing_Every(now_) == now_   \* a line per failed sample

StartsFailing(now_) == now_ \ failing
Recovers(now_) == failing \ now_

LogFailures(now_) ==
  /\ warned' = [c \in Collectors |-> warned[c] + IF c \in StartsFailing(now_) THEN 1 ELSE 0]
  /\ recovered' = [c \in Collectors |-> recovered[c] + IF c \in Recovers(now_) THEN 1 ELSE 0]
  /\ failing' = now_

(* Transform: no rate from a first value, from two values under one        *)
(* timestamp, or across a counter that went backwards.                     *)
HasRate_NextOnly(p, v, t) == p # NoPrev /\ t - p.time = 1 /\ v >= p.value

HasRate(p, v, t) == p # NoPrev /\ t - p.time > 0 /\ v >= p.value

Rate(c, p, v, t) == [series |-> c, time |-> t, delta |-> v - p.value, over |-> t - p.time]

Remember_First(p, v, t) == IF p = NoPrev THEN [time |-> t, value |-> v] ELSE p

Remember(p, v, t) == [time |-> t, value |-> v]

Transform(t) ==
  LET seen == [c \in Collectors |-> answers[c].value]
      rated == {c \in Counters : HasRate(prev[c], seen[c], t)}
  IN  /\ points' = {Rate(c, prev[c], seen[c], t) : c \in rated}
      /\ prev' = [c \in Collectors |->
                    IF c \in Counters THEN Remember(prev[c], seen[c], t) ELSE prev[c]]
      /\ counted' = [c \in Collectors |->
                       counted[c] + IF c \in rated THEN seen[c] - prev[c].value ELSE 0]
      /\ first' = [c \in Collectors |->
                     IF c \in Counters /\ prev[c] = NoPrev THEN seen[c] ELSE first[c]]
      /\ squeezed' = squeezed \cup {c \in Counters : prev[c].time = t}
      /\ UNCHANGED earlier

Process ==
  /\ pc = "sampling"
  /\ \A c \in Collectors : answers[c] # NoAnswer
  /\ errors' = CollectorErrors
  /\ LogFailures(CollectorErrors)
  /\ stamp' = now
  /\ Transform(now)
  /\ pc' = "inserting"
  /\ UNCHANGED <<machine, storage, ctxDone, answers, live, samples>>

(* Store.Insert: the metric list first, under the lock, then the rows,     *)
(* which the storage may refuse.                                           *)
SeriesOf(ps) == {p.series : p \in ps}

Insert_ListsLast ==          \* the metric list only after the rows
  /\ pc = "inserting"
  /\ \/ /\ rows' = rows \cup points
        /\ listed' = listed \cup SeriesOf(points)
        /\ UNCHANGED unsaved
     \/ /\ points # {}
        /\ unsaved' = unsaved \cup points
        /\ UNCHANGED <<rows, listed>>
  /\ pc' = "publishing"
  /\ UNCHANGED <<machine, transformer, logging, before, ctxDone, answers, stamp, points, errors,
                 live, samples>>

Insert ==
  /\ pc = "inserting"
  /\ listed' = listed \cup SeriesOf(points)
  /\ \/ rows' = rows \cup points /\ UNCHANGED unsaved
     \/ /\ points # {}
        /\ unsaved' = unsaved \cup points
        /\ UNCHANGED rows
  /\ pc' = "publishing"
  /\ UNCHANGED <<machine, transformer, logging, before, ctxDone, answers, stamp, points, errors,
                 live, samples>>

(* OnSample, after a failed insert as well.                                *)
Publish_Stored ==            \* an early return after a failed insert
  /\ pc = "publishing"
  /\ live' = live \cup (points \ unsaved)
  /\ pc' = "waiting"
  /\ UNCHANGED <<machine, transformer, logging, storage, ctxDone, answers, stamp, points,
                 errors, samples>>

Publish ==
  /\ pc = "publishing"
  /\ live' = live \cup points
  /\ pc' = "waiting"
  /\ UNCHANGED <<machine, transformer, logging, storage, ctxDone, answers, stamp, points,
                 errors, samples>>

-----------------------------------------------------------------------------
(* Run's select; when both channels are ready either case may be taken.    *)

TakeTick ==
  /\ pc = "waiting"
  /\ ticked
  /\ samples < MaxSamples
  /\ ticked' = FALSE
  /\ pc' = "sampling"
  /\ answers' = [c \in Collectors |-> NoAnswer]
  /\ samples' = samples + 1
  /\ UNCHANGED <<now, device, grown, restarted, transformer, logging, storage, ctxDone, stamp,
                 points, errors, live>>

Stop ==
  /\ pc = "waiting"
  /\ ctxDone
  /\ pc' = "returned"
  /\ UNCHANGED <<machine, transformer, logging, storage, ctxDone, answers, stamp, points,
                 errors, live, samples>>

(* The service manager, or a user, starts the daemon again after a crash   *)
(* at any point or after Run returned.  What a process knew is gone: the   *)
(* previous values, the failing collectors, the metric list, the live      *)
(* view.  The storage has what it was given, all of it after it was        *)
(* closed; a crash may lose what was not flushed, or come in the middle of *)
(* an insert.                                                              *)
Recovered ==
  IF pc = "returned" THEN {rows}
                     ELSE SUBSET (rows \cup IF pc = "inserting" THEN points ELSE {})

DaemonRestart ==
  /\ samples < MaxSamples
  /\ rows' \in Recovered
  /\ before' = rows'
  /\ earlier' = [c \in Collectors |-> earlier[c] + counted[c]]
  /\ prev' = [c \in Collectors |-> NoPrev]
  /\ failing' = {} /\ warned' = Zero /\ recovered' = Zero
  /\ first' = Zero /\ counted' = Zero /\ squeezed' = {} /\ restarted' = {}
  /\ listed' = {} /\ unsaved' = {} /\ live' = {}
  /\ answers' = [c \in Collectors |-> NoAnswer]
  /\ points' = {} /\ errors' = {} /\ stamp' = 0
  /\ ticked' = FALSE /\ ctxDone' = FALSE
  /\ pc' = "sampling"
  /\ samples' = samples + 1
  /\ UNCHANGED <<now, device, grown>>

(* Run has returned, or the bounds keep it waiting for a tick.             *)
Idle ==
  /\ \/ pc = "returned"
     \/ pc = "waiting" /\ (samples = MaxSamples \/ now = MaxTime)
  /\ UNCHANGED vars

RunStep ==
  \/ \E c \in Collectors : Answer(c)
  \/ Process \/ Insert \/ Publish
  \/ TakeTick

Next ==
  \/ Tick \/ Cancel
  \/ \E c \in Collectors : Count(c) \/ Restart(c)
  \/ RunStep \/ Stop \/ DaemonRestart \/ Idle

Spec == Init /\ [][Next]_vars

-----------------------------------------------------------------------------
Points == [series : Collectors, time : 0..MaxTime, delta : Int, over : Int]

TypeOK ==
  /\ now \in 0..MaxTime /\ stamp \in 0..MaxTime
  /\ ticked \in BOOLEAN /\ ctxDone \in BOOLEAN
  /\ pc \in {"sampling", "inserting", "publishing", "waiting", "returned"}
  /\ device \in [Collectors -> 0..MaxValue]
  /\ answers \in [Collectors -> [kind : {"none", "error", "metrics"}, value : 0..MaxValue]]
  /\ prev \in [Collectors -> [time : -1..MaxTime, value : 0..MaxValue]]
  /\ points \subseteq Points /\ rows \subseteq Points /\ live \subseteq Points
  /\ failing \subseteq Collectors /\ errors \subseteq Collectors /\ listed \subseteq Collectors

(* The comment on logFailures: one line when a collector starts failing    *)
(* and one when it recovers, so the two kinds alternate per collector in   *)
(* the log of each process.                                                *)
IncidentsAlternate ==
  \A c \in Collectors :
    warned[c] = recovered[c] + IF c \in failing THEN 1 ELSE 0

(* The rates never add up to more than the counter really counted, through *)
(* failed samples, restarts of the counter or of the daemon, and reads     *)
(* older than their timestamp.                                             *)
RatesNeverOvercount == \A c \in Collectors : earlier[c] + counted[c] <= grown[c]

(* A sample without the collector loses nothing: the next rate spans the   *)
(* gap.  Only a counter restart, or two samples under one timestamp, may.  *)
GapsAreBridged ==
  \A c \in Collectors :
    prev[c] # NoPrev /\ c \notin restarted /\ c \notin squeezed
      => counted[c] = prev[c].value - first[c]

(* No viewer is shown a negative or instantaneous rate.                    *)
RatesArePlausible == \A p \in live \cup rows : p.delta >= 0 /\ p.over > 0

(* Live viewers and the stored history agree point for point, except for   *)
(* what earlier processes stored, inserts that failed (which viewers do    *)
(* get) and the sample in between.                                         *)
LiveMatchesStored ==
  LET inHand == IF pc = "publishing" THEN points ELSE {}
  IN  (before \cup live \cup inHand) = (rows \cup unsaved)

(* Whatever a viewer is shown it can look up: the metric list is complete  *)
(* before the samples go out, also when storing them fails.  Of the rows   *)
(* stored, it lacks only series that had no rate since the daemon started. *)
ViewersFindTheirSeries == SeriesOf(live \cup (rows \ before) \cup unsaved) \subseteq listed

-----------------------------------------------------------------------------
(* The inductive invariants behind these properties.                       *)

HistoryOK ==
  /\ grown \in [Collectors -> 0..MaxValue]
  /\ first \in [Collectors -> 0..MaxValue]
  /\ counted \in [Collectors -> Nat] /\ earlier \in [Collectors -> Nat]
  /\ before \subseteq rows
  /\ warned \in [Collectors -> Nat] /\ recovered \in [Collectors -> Nat]
  /\ \A c \in Collectors : device[c] <= grown[c] /\ prev[c].time <= now

AtLeast0(n) == IF n > 0 THEN n ELSE 0

(* An answer that was read but not yet turned into a rate.                 *)
Fresh(c) == pc = "sampling" /\ answers[c].kind = "metrics"

(* What the rates add up to, with what the values in hand and in the       *)
(* device can still add, is covered by what the counter has counted.       *)
Covered(c) ==
  /\ prev[c] = NoPrev => counted[c] = 0
  /\ prev[c] = NoPrev /\ ~Fresh(c) => earlier[c] <= grown[c]
  /\ prev[c] = NoPrev /\ Fresh(c) =>
       earlier[c] + AtLeast0(device[c] - answers[c].value) <= grown[c]
  /\ prev[c] # NoPrev /\ ~Fresh(c) =>
       earlier[c] + counted[c] + AtLeast0(device[c] - prev[c].value) <= grown[c]
  /\ prev[c] # NoPrev /\ Fresh(c) =>
       earlier[c] + counted[c] + AtLeast0(answers[c].value - prev[c].value)
                               + AtLeast0(device[c] - answers[c].value) <= grown[c]

GrowthCovered == \A c \in Collectors : Covered(c)

(* A counter that never restarted is remembered, read and held in the      *)
(* device in this order.                                                   *)
Ordered(c) ==
  /\ prev[c].value <= device[c]
  /\ Fresh(c) => prev[c].value <= answers[c].value /\ answers[c].value <= device[c]

ValuesOrdered == \A c \in Collectors \ restarted : Ordered(c)

(* The points in hand, like those delivered, are real rates.               *)
PointsPlausible == \A p \in points \cup live \cup rows \cup unsaved : p.delta >= 0 /\ p.over > 0

(* Insert lists the series of a sample before anybody is shown it.         *)
ListedFirst == pc = "publishing" => SeriesOf(points) \subseteq listed
=============================================================================
