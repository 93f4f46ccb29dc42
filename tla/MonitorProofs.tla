--------------------------- MODULE MonitorProofs ---------------------------
(***************************************************************************)
(* What holds of Monitor for every set of collectors and all bounds.  The  *)
(* types are proved first; each property then has an inductive invariant   *)
(* of its own on top of them.                                              *)
(***************************************************************************)
EXTENDS Monitor, TLAPS

Types == TypeOK /\ HistoryOK

(* What one counter contributes to Transform: a remembered value, a rate   *)
(* or none, and the totals the properties speak of.                        *)
LEMMA ProcessOneCounter ==
  ASSUME Types, Process, NEW c \in Collectors
  PROVE  /\ c \notin Counters => /\ prev'[c] = prev[c]
                                 /\ counted'[c] = counted[c]
                                 /\ first'[c] = first[c]
         /\ c \in Counters =>
              /\ prev'[c] = [time |-> now, value |-> answers[c].value]
              /\ counted'[c] = counted[c] + IF HasRate(prev[c], answers[c].value, now)
                                            THEN answers[c].value - prev[c].value ELSE 0
              /\ first'[c] = IF prev[c] = NoPrev THEN answers[c].value ELSE first[c]
              /\ prev[c].time = now => c \in squeezed'
         /\ squeezed \subseteq squeezed'
BY DEF Types, TypeOK, HistoryOK, Process, Transform, Remember, Counters

(* A point Transform emits has a rate of a positive time.                  *)
LEMMA EmittedPoints ==
  ASSUME Types, Process, NEW p \in points'
  PROVE  /\ p \in Points
         /\ p.delta >= 0
         /\ p.over > 0
<1>1. PICK c \in Counters : /\ HasRate(prev[c], answers[c].value, now)
                            /\ p = Rate(c, prev[c], answers[c].value, now)
  BY DEF Process, Transform, Counters
<1>2. c \in Collectors /\ prev[c].time \in Int /\ prev[c].value \in Int
      /\ answers[c].value \in Int
  BY MonitorConstants DEF Counters, Types, TypeOK
<1>3. now \in 0..MaxTime /\ now \in Int
  BY MonitorConstants DEF Types, TypeOK
<1>. QED
  BY <1>1, <1>2, <1>3 DEF HasRate, Rate, Points

-----------------------------------------------------------------------------
(* The types hold initially.                                               *)
LEMMA InitTypes == Init => Types
<1>. SUFFICES ASSUME Init PROVE Types
  OBVIOUS
<1>1. MaxTime \in Nat /\ MaxValue \in Nat
  BY MonitorConstants
<1>2. TypeOK
  <2>1. prev \in [Collectors -> [time : -1..MaxTime, value : 0..MaxValue]]
    BY <1>1 DEF Init, NoPrev
  <2>2. answers \in [Collectors -> [kind : {"none", "error", "metrics"}, value : 0..MaxValue]]
    BY <1>1 DEF Init, NoAnswer
  <2>3. device \in [Collectors -> 0..MaxValue] /\ now \in 0..MaxTime /\ stamp \in 0..MaxTime
    BY <1>1 DEF Init, Zero
  <2>4. points = {} /\ rows = {} /\ live = {} /\ failing = {} /\ errors = {} /\ listed = {}
    BY DEF Init
  <2>5. ticked = FALSE /\ ctxDone = FALSE /\ pc = "sampling"
    BY DEF Init
  <2>. QED
    BY <2>1, <2>2, <2>3, <2>4, <2>5 DEF TypeOK
<1>3. HistoryOK
  BY <1>1 DEF Init, HistoryOK, Zero, NoPrev
<1>. QED
  BY <1>2, <1>3 DEF Types

(* Every step keeps them.                                                  *)
LEMMA StepTypes == Types /\ [Next]_vars => Types'
<1>. SUFFICES ASSUME Types, [Next]_vars PROVE Types'
  OBVIOUS
<1>. USE MonitorConstants DEF Types, TypeOK, HistoryOK, machine, transformer, logging, storage
<1>1. CASE Tick
  BY <1>1 DEF Tick
<1>2. CASE Cancel
  BY <1>2 DEF Cancel
<1>3. ASSUME NEW c \in Collectors, Count(c) PROVE Types'
  BY <1>3 DEF Count
<1>4. ASSUME NEW c \in Collectors, Restart(c) PROVE Types'
  BY <1>4 DEF Restart
<1>5. ASSUME NEW c \in Collectors, Answer(c) PROVE Types'
  BY <1>5 DEF Answer, Read, Failed
<1>6. CASE Process
  <2>1. points' \subseteq Points
    BY <1>6, EmittedPoints
  <2>2. prev' \in [Collectors -> [time : -1..MaxTime, value : 0..MaxValue]]
    BY <1>6 DEF Process, Transform, Remember
  <2>3. first' \in [Collectors -> 0..MaxValue]
    BY <1>6 DEF Process, Transform
  <2>4. counted' \in [Collectors -> Nat]
    <3>1. ASSUME NEW c \in Collectors
          PROVE  counted[c] + (IF c \in {d \in Counters : HasRate(prev[d], answers[d].value, now)}
                               THEN answers[c].value - prev[c].value ELSE 0) \in Nat
      BY <1>6 DEF HasRate
    <3>2. counted' = [c \in Collectors |->
                        counted[c] + IF c \in {d \in Counters : HasRate(prev[d], answers[d].value, now)}
                                     THEN answers[c].value - prev[c].value ELSE 0]
      BY <1>6 DEF Process, Transform, Counters
    <3>. QED
      BY <3>1, <3>2
  <2>5. warned' \in [Collectors -> Nat] /\ recovered' \in [Collectors -> Nat]
        /\ failing' \subseteq Collectors /\ errors' \subseteq Collectors
    BY <1>6 DEF Process, LogFailures, CollectorErrors
  <2>6. \A c \in Collectors : prev'[c].time <= now'
    <3>1. ASSUME NEW c \in Collectors PROVE prev'[c].time \in {prev[c].time, now}
      <4>1. CASE c \in Counters
        <5>1. prev'[c] = [time |-> now, value |-> answers[c].value]
          BY <1>6, <4>1, ProcessOneCounter
        <5>. QED
          BY <5>1
      <4>2. CASE c \notin Counters
        BY <1>6, <4>2, ProcessOneCounter
      <4>. QED
        BY <4>1, <4>2
    <3>. QED
      BY <1>6, <3>1 DEF Process
  <2>7. earlier' = earlier
    BY <1>6 DEF Process, Transform
  <2>. QED
    BY <1>6, <2>1, <2>2, <2>3, <2>4, <2>5, <2>6, <2>7 DEF Process
<1>7. CASE Insert
  BY <1>7 DEF Insert, SeriesOf, Points
<1>8. CASE Publish
  BY <1>8 DEF Publish
<1>9. CASE TakeTick
  <2>1. answers' \in [Collectors -> [kind : {"none", "error", "metrics"}, value : 0..MaxValue]]
    BY <1>9 DEF TakeTick, NoAnswer
  <2>. QED
    BY <1>9, <2>1 DEF TakeTick
<1>10. CASE Stop
  BY <1>10 DEF Stop
<1>11. CASE DaemonRestart
  <2>1. answers' \in [Collectors -> [kind : {"none", "error", "metrics"}, value : 0..MaxValue]]
    BY <1>11 DEF DaemonRestart, NoAnswer
  <2>2. prev' = [c \in Collectors |-> [time |-> -1, value |-> 0]]
    BY <1>11 DEF DaemonRestart, NoPrev
  <2>3. rows' \subseteq rows \cup points /\ before' \subseteq rows'
    BY <1>11 DEF DaemonRestart, Recovered
  <2>4. earlier' \in [Collectors -> Nat]
    BY <1>11 DEF DaemonRestart
  <2>5. /\ counted' \in [Collectors -> Nat] /\ first' \in [Collectors -> 0..MaxValue]
        /\ warned' \in [Collectors -> Nat] /\ recovered' \in [Collectors -> Nat]
    BY <1>11 DEF DaemonRestart, Zero
  <2>6. /\ stamp' \in 0..MaxTime /\ points' = {} /\ live' = {} /\ errors' = {}
        /\ failing' = {} /\ listed' = {} /\ ticked' = FALSE /\ ctxDone' = FALSE
        /\ pc' = "sampling" /\ UNCHANGED <<now, device, grown>>
    BY <1>11 DEF DaemonRestart
  <2>7. /\ rows' \subseteq Points /\ before' \subseteq rows'
        /\ \A c \in Collectors : device'[c] <= grown'[c] /\ prev'[c].time <= now'
    BY <2>2, <2>3, <2>6
  <2>8. prev' \in [Collectors -> [time : -1..MaxTime, value : 0..MaxValue]]
    BY <2>2
  <2>9. TypeOK'
    BY <2>1, <2>6, <2>7, <2>8
  <2>10. HistoryOK'
    BY <2>4, <2>5, <2>6, <2>7
  <2>. QED
    BY <2>9, <2>10
<1>12. CASE Idle \/ UNCHANGED vars
  BY <1>12 DEF Idle, vars
<1>. QED
  BY <1>1, <1>2, <1>3, <1>4, <1>5, <1>6, <1>7, <1>8, <1>9, <1>10, <1>11, <1>12 DEF Next, RunStep

(* Type correctness, with that of the history variables.                   *)
THEOREM TypeCorrect == Spec => [](TypeOK /\ HistoryOK)
<1>. QED
  BY InitTypes, StepTypes, PTL DEF Spec, Types

-----------------------------------------------------------------------------
(* One line when a collector starts failing, one when it recovers: what    *)
(* was logged of a collector says whether it fails now.                    *)
THEOREM LoggingAlternates == Spec => []IncidentsAlternate
<1>1. Init => IncidentsAlternate
  BY DEF Init, IncidentsAlternate, Zero
<1>2. ASSUME Types, IncidentsAlternate, [Next]_vars PROVE IncidentsAlternate'
  <2>. USE <1>2 DEF IncidentsAlternate
  <2>1. CASE Process
    <3>. SUFFICES ASSUME NEW c \in Collectors
                  PROVE  warned'[c] = recovered'[c] + IF c \in failing' THEN 1 ELSE 0
      OBVIOUS
    <3>1. /\ warned'[c] = warned[c] + IF c \in CollectorErrors \ failing THEN 1 ELSE 0
          /\ recovered'[c] = recovered[c] + IF c \in failing \ CollectorErrors THEN 1 ELSE 0
          /\ failing' = CollectorErrors
      BY <2>1 DEF Process, LogFailures, StartsFailing, Recovers
    <3>2. recovered[c] \in Nat /\ warned[c] \in Nat
      BY DEF Types, HistoryOK
    <3>. QED
      BY <3>1, <3>2
  <2>2. CASE DaemonRestart
    BY <2>2 DEF DaemonRestart, Zero
  <2>3. CASE ~Process /\ ~DaemonRestart
    <3>1. UNCHANGED logging
      BY <2>3 DEF Next, RunStep, Tick, Cancel, Count, Restart, Answer, Insert, Publish, TakeTick,
                  Stop, Idle, vars
    <3>. QED
      BY <3>1 DEF logging
  <2>. QED
    BY <2>1, <2>2, <2>3
<1>. QED
  BY <1>1, <1>2, TypeCorrect, PTL DEF Spec, Types

-----------------------------------------------------------------------------
(* GrowthCovered is inductive: reading a counter, a restart and a rate     *)
(* each move what is still to be counted, none of them adds to it.         *)
LEMMA GrowthStaysCovered == Types /\ GrowthCovered /\ [Next]_vars => GrowthCovered'
<1>. SUFFICES ASSUME Types, GrowthCovered, [Next]_vars, NEW c \in Collectors
              PROVE  Covered(c)'
  BY DEF GrowthCovered
<1>1. /\ prev[c].value \in Nat /\ answers[c].value \in Nat /\ device[c] \in Nat
      /\ counted[c] \in Nat /\ grown[c] \in Nat /\ device[c] <= grown[c]
      /\ earlier[c] \in Nat
      /\ prev[c].time \in Int /\ now \in Nat
  BY MonitorConstants DEF Types, TypeOK, HistoryOK
<1>2. Covered(c)
  BY DEF GrowthCovered
<1>. USE <1>1, <1>2 DEF Covered, AtLeast0, Fresh, machine, transformer
<1>3. ASSUME NEW d \in Collectors, Count(d) PROVE Covered(c)'
  <2>1. /\ device'[c] \in {device[c], device[c] + 1}
        /\ grown'[c] - grown[c] = device'[c] - device[c]
    BY <1>3 DEF Count, Types, TypeOK, HistoryOK
  <2>. QED
    BY <1>3, <2>1 DEF Count
<1>4. ASSUME NEW d \in Collectors, Restart(d) PROVE Covered(c)'
  <2>1. device'[c] \in {device[c], 0}
    BY <1>4 DEF Restart, Types, TypeOK
  <2>. QED
    BY <1>4, <2>1 DEF Restart
<1>5. ASSUME NEW d \in Collectors, Answer(d) PROVE Covered(c)'
  <2>1. CASE c = d
    <3>1. answers'[c] \in {Read(device[c]), Failed} /\ ~Fresh(c)
      BY <1>5, <2>1 DEF Answer, Types, TypeOK, NoAnswer
    <3>2. Fresh(c)' => answers'[c].value = device[c]
      BY <3>1 DEF Read, Failed
    <3>. QED
      BY <1>5, <3>1, <3>2 DEF Answer
  <2>2. CASE c # d
    <3>1. answers'[c] = answers[c]
      BY <1>5, <2>2 DEF Answer, Types, TypeOK
    <3>. QED
      BY <1>5, <3>1 DEF Answer
  <2>. QED
    BY <2>1, <2>2
<1>6. CASE Process
  <2>1. ~Fresh(c)' /\ device'[c] = device[c] /\ grown'[c] = grown[c] /\ earlier'[c] = earlier[c]
    BY <1>6 DEF Process, Transform
  <2>2. CASE c \notin Counters
    <3>1. prev'[c] = prev[c] /\ counted'[c] = counted[c]
      BY <1>6, <2>2, ProcessOneCounter
    <3>2. ~Fresh(c)
      BY <2>2 DEF Counters
    <3>. QED
      BY <2>1, <3>1, <3>2
  <2>3. CASE c \in Counters
    <3>1. prev'[c] = [time |-> now, value |-> answers[c].value]
      BY <1>6, <2>3, ProcessOneCounter
    <3>2. counted'[c] = counted[c] + IF HasRate(prev[c], answers[c].value, now)
                                     THEN answers[c].value - prev[c].value ELSE 0
      BY <1>6, <2>3, ProcessOneCounter
    <3>3. Fresh(c)
      BY <1>6, <2>3 DEF Counters, Process
    <3>4. prev'[c] # NoPrev
      BY <3>1 DEF NoPrev
    <3>5. CASE prev[c] = NoPrev
      BY <2>1, <3>1, <3>2, <3>3, <3>4, <3>5 DEF HasRate
    <3>6. CASE prev[c] # NoPrev
      BY <2>1, <3>1, <3>2, <3>3, <3>4, <3>6 DEF HasRate
    <3>. QED
      BY <3>5, <3>6
  <2>. QED
    BY <2>2, <2>3
<1>7. CASE TakeTick
  <2>1. ~Fresh(c) /\ ~Fresh(c)'
    BY <1>7 DEF TakeTick, NoAnswer
  <2>. QED
    BY <1>7, <2>1 DEF TakeTick
<1>8. CASE Tick \/ Cancel \/ Insert \/ Publish \/ Stop \/ Idle \/ UNCHANGED vars
  <2>1. /\ UNCHANGED <<device, grown, transformer, answers>>
        /\ pc' = "sampling" <=> pc = "sampling"
    BY <1>8 DEF Tick, Cancel, Insert, Publish, Stop, Idle, vars
  <2>. QED
    BY <2>1
<1>9. CASE DaemonRestart
  <2>1. /\ earlier'[c] = earlier[c] + counted[c] /\ counted'[c] = 0 /\ prev'[c] = NoPrev
        /\ answers'[c] = NoAnswer /\ grown'[c] = grown[c]
    BY <1>9 DEF DaemonRestart, Zero
  <2>2. earlier[c] + counted[c] <= grown[c]
    OBVIOUS
  <2>. QED
    BY <2>1, <2>2 DEF NoAnswer
<1>. QED
  BY <1>3, <1>4, <1>5, <1>6, <1>7, <1>8, <1>9 DEF Next, RunStep

(* The emitted rates never add up to more than the counter counted.        *)
THEOREM NothingIsOvercounted == Spec => []RatesNeverOvercount
<1>1. Init => GrowthCovered
  BY DEF Init, GrowthCovered, Covered, Fresh, AtLeast0, Zero, NoPrev, NoAnswer
<1>2. Types /\ GrowthCovered => RatesNeverOvercount
  <2>. SUFFICES ASSUME Types, GrowthCovered, NEW c \in Collectors
                PROVE  earlier[c] + counted[c] <= grown[c]
    BY DEF RatesNeverOvercount
  <2>1. /\ prev[c].value \in Nat /\ answers[c].value \in Nat /\ device[c] \in Nat
        /\ counted[c] \in Nat /\ grown[c] \in Nat /\ earlier[c] \in Nat
    BY MonitorConstants DEF Types, TypeOK, HistoryOK
  <2>. QED
    BY <2>1 DEF GrowthCovered, Covered, AtLeast0
<1>. QED
  BY <1>1, <1>2, GrowthStaysCovered, TypeCorrect, PTL DEF Spec, Types

(* GrowthCovered as an invariant of its own, for the theorems below.       *)
LEMMA GrowthAlwaysCovered == Spec => []GrowthCovered
<1>1. Init => GrowthCovered
  BY DEF Init, GrowthCovered, Covered, Fresh, AtLeast0, Zero, NoPrev, NoAnswer
<1>. QED
  BY <1>1, GrowthStaysCovered, TypeCorrect, PTL DEF Spec, Types

-----------------------------------------------------------------------------
(* A counter that never restarted is only ever read going up.              *)
LEMMA ValuesStayOrdered == Types /\ ValuesOrdered /\ [Next]_vars => ValuesOrdered'
<1>. SUFFICES ASSUME Types, ValuesOrdered, [Next]_vars, NEW c \in Collectors, c \notin restarted'
              PROVE  Ordered(c)'
  BY DEF ValuesOrdered
<1>1. /\ prev[c].value \in Nat /\ answers[c].value \in Nat /\ device[c] \in Nat
  BY MonitorConstants DEF Types, TypeOK, HistoryOK
<1>2. CASE DaemonRestart
  <2>1. prev'[c] = NoPrev /\ answers'[c] = NoAnswer /\ device'[c] = device[c]
    BY <1>2 DEF DaemonRestart
  <2>. QED
    BY <1>1, <2>1 DEF Ordered, Fresh, NoPrev, NoAnswer
<1>. SUFFICES ASSUME ~DaemonRestart PROVE Ordered(c)'
  BY <1>2
<1>0. Ordered(c)
  <2>1. restarted \subseteq restarted'
    BY DEF Next, RunStep, Tick, Cancel, Count, Restart, Answer, Process, Insert, Publish, TakeTick,
           Stop, Idle, vars, machine
  <2>. QED
    BY <2>1 DEF ValuesOrdered
<1>. USE <1>0, <1>1 DEF Ordered, Fresh, machine, transformer
<1>3. ASSUME NEW d \in Collectors, Count(d) PROVE Ordered(c)'
  <2>1. device'[c] >= device[c] /\ device'[c] \in Nat
    BY <1>3 DEF Count, Types, TypeOK
  <2>. QED
    BY <1>3, <2>1 DEF Count
<1>4. ASSUME NEW d \in Collectors, Restart(d) PROVE Ordered(c)'
  <2>1. c # d
    BY <1>4 DEF Restart
  <2>2. device'[c] = device[c]
    BY <1>4, <2>1 DEF Restart, Types, TypeOK
  <2>. QED
    BY <1>4, <2>2 DEF Restart
<1>5. ASSUME NEW d \in Collectors, Answer(d) PROVE Ordered(c)'
  <2>1. answers'[c] \in {answers[c], Read(device[c]), Failed}
    BY <1>5 DEF Answer, Types, TypeOK
  <2>. QED
    BY <1>5, <2>1 DEF Answer, Read, Failed
<1>6. CASE Process
  <2>1. ~Fresh(c)' /\ device'[c] = device[c]
    BY <1>6 DEF Process
  <2>2. CASE c \notin Counters
    BY <1>6, <2>1, <2>2, ProcessOneCounter
  <2>3. CASE c \in Counters
    <3>1. prev'[c] = [time |-> now, value |-> answers[c].value]
      BY <1>6, <2>3, ProcessOneCounter
    <3>2. Fresh(c)
      BY <1>6, <2>3 DEF Counters, Process
    <3>. QED
      BY <2>1, <3>1, <3>2
  <2>. QED
    BY <2>2, <2>3
<1>7. CASE TakeTick
  <2>1. ~Fresh(c)'
    BY <1>7 DEF TakeTick, NoAnswer
  <2>. QED
    BY <1>7, <2>1 DEF TakeTick
<1>8. CASE Tick \/ Cancel \/ Insert \/ Publish \/ Stop \/ Idle \/ UNCHANGED vars
  <2>1. /\ UNCHANGED <<device, prev, answers>>
        /\ pc' = "sampling" <=> pc = "sampling"
    BY <1>8 DEF Tick, Cancel, Insert, Publish, Stop, Idle, vars
  <2>. QED
    BY <2>1
<1>. QED
  BY <1>3, <1>4, <1>5, <1>6, <1>7, <1>8 DEF Next, RunStep

(* A sample without a collector loses nothing of its counter: the next     *)
(* rate spans the gap.                                                     *)
THEOREM GapsLoseNothing == Spec => []GapsAreBridged
<1>1. Init => ValuesOrdered
  BY MonitorConstants DEF Init, ValuesOrdered, Ordered, Fresh, Zero, NoPrev, NoAnswer
<1>2. Init => GapsAreBridged
  BY DEF Init, GapsAreBridged
<1>3. ASSUME Types, GrowthCovered, ValuesOrdered, GapsAreBridged, [Next]_vars
      PROVE  GapsAreBridged'
  <2>. SUFFICES ASSUME NEW c \in Collectors, prev'[c] # NoPrev, c \notin restarted',
                       c \notin squeezed'
                PROVE  counted'[c] = prev'[c].value - first'[c]
    BY DEF GapsAreBridged
  <2>1. CASE Process
    <3>1. /\ prev[c].value \in Nat /\ answers[c].value \in Nat /\ counted[c] \in Nat
          /\ first[c] \in Nat /\ prev[c].time \in Int /\ now \in Nat /\ prev[c].time <= now
      BY <1>3, MonitorConstants DEF Types, TypeOK, HistoryOK
    <3>2. c \notin squeezed /\ c \notin restarted
      BY <1>3, <2>1, ProcessOneCounter DEF Process, machine
    <3>3. prev[c] # NoPrev => counted[c] = prev[c].value - first[c]
      BY <1>3, <3>2 DEF GapsAreBridged
    <3>4. CASE c \notin Counters
      BY <1>3, <2>1, <3>3, <3>4, ProcessOneCounter
    <3>5. CASE c \in Counters
      <4>1. prev'[c] = [time |-> now, value |-> answers[c].value]
        BY <1>3, <2>1, <3>5, ProcessOneCounter
      <4>2. counted'[c] = counted[c] + IF HasRate(prev[c], answers[c].value, now)
                                       THEN answers[c].value - prev[c].value ELSE 0
        BY <1>3, <2>1, <3>5, ProcessOneCounter
      <4>3. first'[c] = IF prev[c] = NoPrev THEN answers[c].value ELSE first[c]
        BY <1>3, <2>1, <3>5, ProcessOneCounter
      <4>4. CASE prev[c] = NoPrev
        <5>1. counted[c] = 0
          BY <1>3, <4>4 DEF GrowthCovered, Covered
        <5>. QED
          BY <3>1, <4>1, <4>2, <4>3, <4>4, <5>1 DEF HasRate
      <4>5. CASE prev[c] # NoPrev
        <5>1. prev[c].time # now
          BY <1>3, <2>1, <3>5, ProcessOneCounter
        <5>2. prev[c].value <= answers[c].value
          <6>1. Fresh(c)
            BY <2>1, <3>5 DEF Process, Counters, Fresh
          <6>. QED
            BY <1>3, <3>2, <6>1 DEF ValuesOrdered, Ordered
        <5>3. HasRate(prev[c], answers[c].value, now)
          BY <3>1, <4>5, <5>1, <5>2 DEF HasRate
        <5>. QED
          BY <3>1, <3>3, <4>1, <4>2, <4>3, <4>5, <5>3
      <4>. QED
        BY <4>4, <4>5
    <3>. QED
      BY <3>4, <3>5
  <2>2. CASE DaemonRestart
    BY <1>3, <2>2 DEF DaemonRestart
  <2>3. CASE ~Process /\ ~DaemonRestart
    <3>1. UNCHANGED transformer /\ restarted \subseteq restarted'
      BY <1>3, <2>3 DEF Next, RunStep, Tick, Cancel, Count, Restart, Answer, Insert, Publish,
                        TakeTick, Stop, Idle, vars, machine
    <3>. QED
      BY <1>3, <3>1 DEF GapsAreBridged, transformer
  <2>. QED
    BY <2>1, <2>2, <2>3
<1>. QED
  BY <1>1, <1>2, <1>3, ValuesStayOrdered, GrowthAlwaysCovered, TypeCorrect, PTL DEF Spec, Types

-----------------------------------------------------------------------------
(* No viewer is ever shown a negative or instantaneous rate, nor is one    *)
(* stored.                                                                 *)
THEOREM RatesPlausible == Spec => []RatesArePlausible
<1>1. Init => PointsPlausible
  BY DEF Init, PointsPlausible
<1>2. ASSUME Types, PointsPlausible, [Next]_vars PROVE PointsPlausible'
  <2>1. CASE Process
    <3>1. \A p \in points' : p.delta >= 0 /\ p.over > 0
      BY <1>2, <2>1, EmittedPoints
    <3>2. UNCHANGED <<live, rows, unsaved>>
      BY <2>1 DEF Process, storage
    <3>. QED
      BY <1>2, <3>1, <3>2 DEF PointsPlausible
  <2>2. CASE ~Process
    <3>1. points' \cup live' \cup rows' \cup unsaved'
            \subseteq points \cup live \cup rows \cup unsaved
      BY <1>2, <2>2 DEF Next, RunStep, Tick, Cancel, Count, Restart, Answer, Insert, Publish,
                        TakeTick, Stop, DaemonRestart, Recovered, Idle, vars, storage
    <3>. QED
      BY <1>2, <3>1 DEF PointsPlausible
  <2>. QED
    BY <2>1, <2>2
<1>3. PointsPlausible => RatesArePlausible
  BY DEF PointsPlausible, RatesArePlausible
<1>. QED
  BY <1>1, <1>2, <1>3, TypeCorrect, PTL DEF Spec, Types

(* Live viewers and history differ only by inserts that failed and the     *)
(* sample between Insert and OnSample.                                     *)
THEOREM LiveAgreesWithStored == Spec => []LiveMatchesStored
<1>1. Init => LiveMatchesStored
  BY DEF Init, LiveMatchesStored
<1>2. LiveMatchesStored /\ [Next]_vars => LiveMatchesStored'
  <2>. SUFFICES ASSUME LiveMatchesStored, [Next]_vars PROVE LiveMatchesStored'
    OBVIOUS
  <2>. USE DEF LiveMatchesStored, storage
  <2>1. CASE Insert
    BY <2>1 DEF Insert
  <2>2. CASE Publish
    BY <2>2 DEF Publish
  <2>3. CASE DaemonRestart
    BY <2>3 DEF DaemonRestart
  <2>4. CASE ~Insert /\ ~Publish /\ ~DaemonRestart
    <3>1. /\ UNCHANGED <<live, rows, unsaved, before>>
          /\ pc' # "publishing" \/ UNCHANGED <<pc, points>>
          /\ pc = "publishing" => pc' = "publishing"
      BY <2>4 DEF Next, RunStep, Tick, Cancel, Count, Restart, Answer, Process, TakeTick,
                  Stop, Idle, vars
    <3>. QED
      BY <3>1
  <2>. QED
    BY <2>1, <2>2, <2>3, <2>4
<1>. QED
  BY <1>1, <1>2, PTL DEF Spec

(* Every series a viewer was shown is in the metric list; the points about *)
(* to be published are there already.                                      *)
LEMMA SeriesStayListed ==
  ASSUME ViewersFindTheirSeries, ListedFirst, [Next]_vars
  PROVE  ViewersFindTheirSeries' /\ ListedFirst'
<1>. USE DEF ViewersFindTheirSeries, ListedFirst, SeriesOf, storage
<1>1. CASE Insert
  BY <1>1 DEF Insert
<1>2. CASE Publish
  BY <1>2 DEF Publish
<1>3. CASE DaemonRestart
  BY <1>3 DEF DaemonRestart
<1>4. CASE ~Insert /\ ~Publish /\ ~DaemonRestart
  <2>1. /\ UNCHANGED <<live, rows, unsaved, before, listed>>
        /\ pc' # "publishing" \/ UNCHANGED <<pc, points>>
    BY <1>4 DEF Next, RunStep, Tick, Cancel, Count, Restart, Answer, Process, TakeTick,
                Stop, Idle, vars
  <2>. QED
    BY <2>1
<1>. QED
  BY <1>1, <1>2, <1>3, <1>4

THEOREM ViewersFindSeries == Spec => []ViewersFindTheirSeries
<1>1. Init => ViewersFindTheirSeries /\ ListedFirst
  BY DEF Init, ViewersFindTheirSeries, ListedFirst, SeriesOf
<1>. QED
  BY <1>1, SeriesStayListed, PTL DEF Spec
=============================================================================
