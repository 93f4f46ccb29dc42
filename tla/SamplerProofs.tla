--------------------------- MODULE SamplerProofs ---------------------------
(***************************************************************************)
(* Proofs about Sampler, for every number of collectors, every timeout and *)
(* stale window, and behaviours of every length (MaxTime and MaxRounds are *)
(* arbitrary).                                                             *)
(***************************************************************************)
EXTENDS Sampler, TLAPS, FiniteSetTheorems

(* The for loop of SampleAll walks a finite set of indices, one after the  *)
(* other, and leaves it only at the end.                                   *)
LEMMA IndicesFacts ==
  /\ Indices \subseteq Nat
  /\ IsFiniteSet(Indices)
  /\ Cardinality(Indices) = NumCollectors
  /\ \A n \in 1..(NumCollectors + 1) : n \notin Indices => n = NumCollectors + 1
  /\ \A n \in Indices : n + 1 \in 1..(NumCollectors + 1)
<1>1. IsFiniteSet(1..NumCollectors) /\ Cardinality(1..NumCollectors) = NumCollectors
  BY FS_Interval, SamplerConstants
<1>2. QED
  BY <1>1, SamplerConstants DEF Indices

-----------------------------------------------------------------------------
(* Every variable keeps its type: the model's state space is the one the   *)
(* source declares.                                                        *)
THEOREM TypeCorrect == Spec => []TypeOK
<1> USE SamplerConstants
<1>1. Init => TypeOK
  <2> SUFFICES ASSUME Init PROVE TypeOK
    OBVIOUS
  <2>1. records \in [Indices -> {Nil} \cup [kind : Kinds, round : 1..MaxRounds]]
    BY DEF Init
  <2>2. states \in [Indices -> [inFlight : BOOLEAN, startedAt : Nat, generation : Nat]]
    BY DEF Init
  <2>3. now \in 0..MaxTime /\ round \in 0..MaxRounds /\ next \in 1..(NumCollectors + 1)
    BY DEF Init
  <2>4. tasks \subseteq Task /\ results \subseteq Result
    BY DEF Init
  <2>5. startTime \in Nat /\ pending \in Nat /\ ctxDone \in BOOLEAN
    BY DEF Init
  <2>6. pc = "idle"
    BY DEF Init
  <2>7. QED
    BY <2>1, <2>2, <2>3, <2>4, <2>5, <2>6 DEF TypeOK
<1>2. TypeOK /\ [Next]_vars => TypeOK'
  <2> SUFFICES ASSUME TypeOK, [Next]_vars PROVE TypeOK'
    OBVIOUS
  <2> USE DEF TypeOK
  <2>1. CASE Tick
    BY <2>1 DEF Tick, callerVars
  <2>2. CASE Cancel
    BY <2>2 DEF Cancel, callerVars
  <2>3. CASE BeginRound
    BY <2>3 DEF BeginRound
  <2>4. CASE Refuse
    <3>1. Record("busy", round) \in [kind : Kinds, round : 1..MaxRounds]
      BY <2>4 DEF Refuse, Record, Kinds
    <3>2. QED
      BY <2>4, <3>1, IndicesFacts DEF Refuse
  <2>5. CASE Start
    <3>1. NewTask(next) \in Task
      BY <2>5 DEF Start, NewTask, Task, Phases
    <3>2. QED
      BY <2>5, <3>1, IndicesFacts DEF Start, Started
  <2>6. CASE LoopDone
    BY <2>6 DEF LoopDone
  <2>7. ASSUME NEW m \in results, Receive(m) PROVE TypeOK'
    <3>1. Record("answer", m.round) \in [kind : Kinds, round : 1..MaxRounds]
      BY DEF Record, Kinds, Result
    <3>2. records' \in [Indices -> {Nil} \cup [kind : Kinds, round : 1..MaxRounds]]
      BY <2>7, <3>1 DEF Receive, Accept
    <3>3. pending' \in Nat
      BY <2>7 DEF Receive, Accept, Waiting
    <3>4. QED
      BY <2>7, <3>2, <3>3 DEF Receive
  <2>8. ASSUME NEW k \in {"timeout", "cancelled"}, Waiting, records' = FillNil(k)
        PROVE  records' \in [Indices -> {Nil} \cup [kind : Kinds, round : 1..MaxRounds]]
    <3>1. Record(k, round) \in [kind : Kinds, round : 1..MaxRounds]
      BY <2>8 DEF Record, Kinds, Waiting
    <3>2. \A i \in Indices : (IF records[i] = Nil THEN Record(k, round) ELSE records[i])
                               \in {Nil} \cup [kind : Kinds, round : 1..MaxRounds]
      BY <3>1
    <3>3. QED
      BY <2>8, <3>2 DEF FillNil
  <2>9. CASE TimeOut
    BY <2>9, <2>8 DEF TimeOut
  <2>10. CASE GiveUp
    BY <2>10, <2>8 DEF GiveUp
  <2>11. CASE Return
    BY <2>11 DEF Return
  <2>12. ASSUME NEW t \in tasks, SampleReturns(t) PROVE TypeOK'
    <3>1. [t EXCEPT !.phase = "sending"] \in Task
      BY DEF Task, Phases
    <3>2. QED
      BY <2>12, <3>1 DEF SampleReturns, ReplaceTask, callerVars
  <2>13. ASSUME NEW t \in tasks, Send(t) \/ Abandon(t) PROVE TypeOK'
    <3>1. [t EXCEPT !.phase = "finishing"] \in Task /\ Message(t) \in Result
      BY DEF Task, Phases, Message, Result
    <3>2. QED
      BY <2>13, <3>1 DEF Send, Abandon, ReplaceTask, callerVars
  <2>14. ASSUME NEW t \in tasks, Finish(t) PROVE TypeOK'
    <3>1. t.index \in Indices
      BY DEF Task
    <3>2. QED
      BY <2>14, <3>1 DEF Finish, callerVars
  <2>15. CASE UNCHANGED vars
    BY <2>15 DEF vars, callerVars
  <2>16. QED
    BY <2>1, <2>2, <2>3, <2>4, <2>5, <2>6, <2>7, <2>9, <2>10, <2>11, <2>12, <2>13, <2>14,
       <2>15 DEF Next, CallerStep, TaskExit, Exhausted
<1>3. QED
  BY <1>1, <1>2, PTL DEF Spec

-----------------------------------------------------------------------------
(* A step that replaces one goroutine's record by one that differs only in *)
(* its phase disturbs nothing that AttemptInv says.                        *)
LEMMA SamePhaseless ==
  ASSUME TypeOK, AttemptInv,
         NEW t \in tasks, NEW p \in Phases,
         tasks' = (tasks \ {t}) \cup {[t EXCEPT !.phase = p]},
         now' = now, startTime' = startTime, states' = states
  PROVE  AttemptInv'
<1> DEFINE s == [t EXCEPT !.phase = p]
<1>1. s.index = t.index /\ s.generation = t.generation /\ s.startedAt = t.startedAt
  BY DEF TypeOK, Task
<1>2. \A v \in tasks' : \E w \in tasks :
        /\ w.index = v.index /\ w.generation = v.generation /\ w.startedAt = v.startedAt
        /\ w = t => v = s
        /\ w # t => v = w
  BY <1>1
<1>3. \A w \in tasks : \E v \in tasks' :
        w.index = v.index /\ w.generation = v.generation
  BY <1>1
<1> HIDE DEF s
<1>4. AttemptsAged'
  BY <1>2 DEF AttemptInv, AttemptsAged
<1>5. OneTaskPerGeneration'
  BY <1>2 DEF AttemptInv, OneTaskPerGeneration
<1>6. InFlightTracksNewest'
  BY <1>2, <1>3 DEF AttemptInv, InFlightTracksNewest
<1>7. OverlapOnlyAfterStale'
  BY <1>2 DEF AttemptInv, OverlapOnlyAfterStale
<1>8. QED
  BY <1>4, <1>5, <1>6, <1>7 DEF AttemptInv

(* A new attempt is the newest of its key, and every older one that is     *)
(* still running was refused its place only by being stale.                *)
LEMMA StartKeepsAttempts ==
  ASSUME TypeOK, AttemptInv, Start
  PROVE  AttemptInv'
<1> DEFINE n == NewTask(next)
<1>1. /\ next \in Indices /\ ~Busy(next)
      /\ tasks' = tasks \cup {n}
      /\ states' = [states EXCEPT ![next] = Started(@)]
      /\ now' = now /\ startTime' = startTime
  BY DEF Start
<1>2. /\ n.index = next /\ n.generation = states[next].generation + 1
      /\ n.startedAt = startTime
  BY DEF NewTask
<1>3. /\ states'[next].inFlight
      /\ states'[next].startedAt = startTime
      /\ states'[next].generation = states[next].generation + 1
      /\ \A i \in Indices : i # next => states'[i] = states[i]
  BY <1>1 DEF TypeOK, Started
<1>4. /\ startTime \in Nat
      /\ \A i \in Indices : states[i].generation \in Nat /\ states[i].startedAt \in Nat
      /\ \A t \in tasks : t.index \in Indices /\ t.generation \in Nat /\ t.startedAt \in Nat
      /\ StaleAfter \in Nat
  BY SamplerConstants DEF TypeOK, Task
<1>5. \A t \in tasks : t.index = next =>
        /\ t.generation <= states[next].generation
        /\ startTime - t.startedAt > StaleAfter
  <2> SUFFICES ASSUME NEW t \in tasks, t.index = next
               PROVE  /\ t.generation <= states[next].generation
                      /\ startTime - t.startedAt > StaleAfter
    OBVIOUS
  <2>1. /\ t.generation <= states[next].generation
        /\ t.generation = states[next].generation => t.startedAt = states[next].startedAt
        /\ t.generation < states[next].generation
             => states[next].startedAt - t.startedAt > StaleAfter
        /\ states[next].startedAt <= startTime
    BY <1>1 DEF AttemptInv, AttemptsAged
  <2>2. CASE t.generation = states[next].generation
    <3>1. states[next].inFlight
      BY <1>1, <2>2 DEF AttemptInv, InFlightTracksNewest
    <3>2. QED
      BY <1>1, <1>4, <2>1, <2>2, <3>1 DEF Busy
  <2>3. CASE t.generation < states[next].generation
    BY <1>1, <1>4, <2>1, <2>3
  <2>4. QED
    BY <1>1, <1>4, <2>1, <2>2, <2>3
<1> HIDE DEF n
<1>6. AttemptsAged'
  BY <1>1, <1>2, <1>3, <1>4, <1>5 DEF AttemptInv, AttemptsAged
<1>7. OneTaskPerGeneration'
  BY <1>1, <1>2, <1>4, <1>5 DEF AttemptInv, OneTaskPerGeneration
<1>8. InFlightTracksNewest'
  <2> SUFFICES ASSUME NEW i \in Indices
               PROVE  states'[i].inFlight <=>
                        \E t \in tasks' : t.index = i /\ t.generation = states'[i].generation
    BY DEF InFlightTracksNewest
  <2>1. CASE i = next
    BY <2>1, <1>1, <1>2, <1>3
  <2>2. CASE i # next
    BY <2>2, <1>1, <1>2, <1>3 DEF AttemptInv, InFlightTracksNewest
  <2>3. QED
    BY <2>1, <2>2
<1>9. OverlapOnlyAfterStale'
  BY <1>1, <1>2, <1>4, <1>5 DEF AttemptInv, OverlapOnlyAfterStale
<1>10. QED
  BY <1>6, <1>7, <1>8, <1>9 DEF AttemptInv

(* finish releases the key only for its newest attempt, which is the one   *)
(* that leaves.                                                            *)
LEMMA FinishKeepsAttempts ==
  ASSUME TypeOK, AttemptInv, NEW t \in tasks, Finish(t)
  PROVE  AttemptInv'
<1>1. /\ tasks' = tasks \ {t}
      /\ states' = IF Releases(t) THEN [states EXCEPT ![t.index].inFlight = FALSE] ELSE states
      /\ now' = now /\ startTime' = startTime
      /\ t.index \in Indices
  BY DEF Finish, callerVars, TypeOK, Task
<1>2. /\ \A i \in Indices : /\ states'[i].generation = states[i].generation
                            /\ states'[i].startedAt = states[i].startedAt
                            /\ i # t.index => states'[i] = states[i]
      /\ ~Releases(t) => states' = states
      /\ Releases(t) => ~states'[t.index].inFlight
  BY <1>1 DEF TypeOK
<1>3. AttemptsAged'
  BY <1>1, <1>2 DEF AttemptInv, AttemptsAged, TypeOK, Task
<1>4. OneTaskPerGeneration' /\ OverlapOnlyAfterStale'
  BY <1>1 DEF AttemptInv, OneTaskPerGeneration, OverlapOnlyAfterStale
<1>5. InFlightTracksNewest'
  <2> SUFFICES ASSUME NEW i \in Indices
               PROVE  states'[i].inFlight <=>
                        \E u \in tasks' : u.index = i /\ u.generation = states'[i].generation
    BY DEF InFlightTracksNewest
  <2>1. CASE i = t.index /\ Releases(t)
    <3>1. \A u \in tasks' : u.index = i => u.generation # states[i].generation
      BY <2>1, <1>1 DEF Releases, AttemptInv, OneTaskPerGeneration
    <3>2. QED
      BY <2>1, <1>2, <3>1
  <2>2. CASE ~(i = t.index /\ Releases(t))
    BY <2>2, <1>1, <1>2 DEF Releases, AttemptInv, InFlightTracksNewest
  <2>3. QED
    BY <2>1, <2>2
<1>6. QED
  BY <1>3, <1>4, <1>5 DEF AttemptInv

(* The first layer of the invariant, in every reachable state.             *)
THEOREM AttemptsCorrect == Spec => []AttemptInv
<1>1. Init => AttemptInv
  BY DEF Init, AttemptInv, AttemptsAged, OneTaskPerGeneration, InFlightTracksNewest,
         OverlapOnlyAfterStale
<1>2. TypeOK /\ AttemptInv /\ [Next]_vars => AttemptInv'
  <2> SUFFICES ASSUME TypeOK, AttemptInv, [Next]_vars PROVE AttemptInv'
    OBVIOUS
  <2>1. ASSUME UNCHANGED <<startTime, states, tasks>>, now' = now \/ now' = now + 1
        PROVE  AttemptInv'
    <3>1. startTime <= now'
      BY <2>1 DEF AttemptInv, AttemptsAged, TypeOK
    <3>2. QED
      BY <2>1, <3>1 DEF AttemptInv, AttemptsAged, OneTaskPerGeneration, InFlightTracksNewest,
                        OverlapOnlyAfterStale
  <2>2. CASE Tick \/ Cancel \/ Refuse \/ LoopDone \/ TimeOut \/ GiveUp \/ Return \/ UNCHANGED vars
    BY <2>1, <2>2 DEF Tick, Cancel, Refuse, LoopDone, TimeOut, GiveUp, Return, vars, callerVars
  <2>3. CASE BeginRound
    <3>1. now' = now /\ startTime' = now /\ UNCHANGED <<states, tasks>>
      BY <2>3 DEF BeginRound
    <3>2. \A i \in Indices : states[i].startedAt <= now
      BY DEF AttemptInv, AttemptsAged, TypeOK
    <3>3. AttemptsAged'
      BY <3>1, <3>2 DEF AttemptInv, AttemptsAged, TypeOK
    <3>4. QED
      BY <3>1, <3>3 DEF AttemptInv, OneTaskPerGeneration, InFlightTracksNewest,
                        OverlapOnlyAfterStale
  <2>4. CASE Start
    BY <2>4, StartKeepsAttempts
  <2>5. ASSUME NEW m \in results, Receive(m) PROVE AttemptInv'
    BY <2>1, <2>5 DEF Receive
  <2>6. ASSUME NEW t \in tasks, SampleReturns(t) \/ Send(t) \/ Abandon(t) PROVE AttemptInv'
    BY <2>6, SamePhaseless DEF SampleReturns, Send, Abandon, ReplaceTask, callerVars, Phases
  <2>7. ASSUME NEW t \in tasks, Finish(t) PROVE AttemptInv'
    BY <2>7, FinishKeepsAttempts
  <2>8. QED
    BY <2>2, <2>3, <2>4, <2>5, <2>6, <2>7 DEF Next, CallerStep, TaskExit, Exhausted
<1>3. QED
  BY <1>1, <1>2, TypeCorrect, PTL DEF Spec

(* finish of a stale goroutine never clears the flag of its successor, and *)
(* a key is in flight only while its newest attempt runs.                  *)
THEOREM InFlightIsNewest == Spec => []InFlightTracksNewest
<1>1. AttemptInv => InFlightTracksNewest
  BY DEF AttemptInv
<1>2. QED
  BY <1>1, AttemptsCorrect, PTL

(* Two calls of one collector's Sample overlap only when the later one     *)
(* began more than StaleAfter after the earlier one.                       *)
THEOREM OverlapIsStale == Spec => []OverlapOnlyAfterStale
<1>1. AttemptInv => OverlapOnlyAfterStale
  BY DEF AttemptInv
<1>2. QED
  BY <1>1, AttemptsCorrect, PTL

-----------------------------------------------------------------------------
(* The indices that still owe a record are finitely many, and the count    *)
(* follows the set.                                                        *)
LEMMA OutstandingFinite == IsFiniteSet(Outstanding) /\ Cardinality(Outstanding) \in Nat
<1>1. Outstanding \in SUBSET Indices
  BY DEF Outstanding
<1>2. QED
  BY <1>1, IndicesFacts, FS_Subset, FS_CardinalityType

(* A step that touches neither the caller nor the records, and replaces    *)
(* one goroutine's record by one with a later phase, keeps the second      *)
(* layer, if a goroutine that stops owing leaves a result or a cancelled   *)
(* context behind.                                                         *)
LEMMA TaskStepKeepsRound ==
  ASSUME TypeOK, RoundInv, UNCHANGED callerVars,
         NEW t \in tasks, NEW u,
         u.index = t.index, u.round = t.round,
         t.phase = "finishing" => u.phase = "finishing",
         tasks' = (tasks \ {t}) \cup {u},
         ctxDone => ctxDone',
         \/ results' = results /\ (u.phase # "finishing" \/ ctxDone)
         \/ /\ results' = results \cup {Message(t)}
            /\ t.phase = "sending" /\ u.phase = "finishing"
  PROVE  RoundInv'
<1>1. \A v \in tasks' : v # u => v \in tasks /\ v # t
  OBVIOUS
<1>2. \A m \in results' : m \notin results =>
        /\ m.index = t.index /\ m.round = t.round /\ t.phase = "sending"
        /\ u.phase = "finishing"
  BY DEF Message
<1>3. RoundsOfTasks'
  <2>1. \A v \in tasks' : v.round <= round
    BY <1>1 DEF RoundInv, RoundsOfTasks
  <2>2. \A m \in results' : m.round <= round
    BY <1>2 DEF RoundInv, RoundsOfTasks
  <2>3. \A v, w \in tasks' : v.index = w.index /\ v.round = w.round => v = w
    BY <1>1 DEF RoundInv, RoundsOfTasks
  <2>4. \A v \in tasks', m \in results' :
          v.index = m.index /\ v.round = m.round => v.phase = "finishing"
    BY <1>1, <1>2 DEF RoundInv, RoundsOfTasks
  <2>5. QED
    BY <2>1, <2>2, <2>3, <2>4 DEF RoundsOfTasks, callerVars
<1>4. LoopProgress'
  BY <1>1, <1>2 DEF RoundInv, LoopProgress, callerVars, Waiting
<1>5. RecordsOfThisRound' /\ PendingCountsNil'
  BY DEF RoundInv, RecordsOfThisRound, PendingCountsNil, Outstanding, callerVars
<1>6. NobodyForgotten'
  <2> SUFFICES ASSUME pc \in {"starting", "collecting"}, NEW i \in Outstanding, ~ctxDone'
               PROVE  \/ \E v \in tasks' : v.index = i /\ v.round = round /\ v.phase # "finishing"
                      \/ \E m \in results' : m.index = i /\ m.round = round
    BY DEF NobodyForgotten, Outstanding, callerVars
  <2>1. \/ \E v \in tasks : v.index = i /\ v.round = round /\ v.phase # "finishing"
        \/ \E m \in results : m.index = i /\ m.round = round
    BY DEF RoundInv, NobodyForgotten
  <2>2. CASE t.index = i /\ t.round = round /\ t.phase # "finishing"
    <3>1. CASE u.phase # "finishing"
      BY <2>2, <3>1
    <3>2. CASE results' = results \cup {Message(t)}
      <4>1. Message(t).index = i /\ Message(t).round = round
        BY <2>2 DEF Message
      <4>2. QED
        BY <3>2, <4>1
    <3>3. QED
      BY <3>1, <3>2
  <2>3. CASE \E v \in tasks : v # t /\ v.index = i /\ v.round = round /\ v.phase # "finishing"
    BY <2>3
  <2>4. CASE \E m \in results : m.index = i /\ m.round = round
    BY <2>4
  <2>5. QED
    BY <2>1, <2>2, <2>3, <2>4
<1>7. QED
  BY <1>3, <1>4, <1>5, <1>6 DEF RoundInv

(* finish takes away a goroutine that owes nothing more.                   *)
LEMMA FinishKeepsRound ==
  ASSUME TypeOK, RoundInv, NEW t \in tasks, Finish(t)
  PROVE  RoundInv'
<1>1. tasks' = tasks \ {t} /\ t.phase = "finishing" /\ UNCHANGED <<callerVars, ctxDone, results>>
  BY DEF Finish
<1>2. RoundsOfTasks' /\ LoopProgress'
  BY <1>1 DEF RoundInv, RoundsOfTasks, LoopProgress, callerVars, Waiting
<1>3. RecordsOfThisRound' /\ PendingCountsNil' /\ NobodyForgotten'
  BY <1>1 DEF RoundInv, RecordsOfThisRound, PendingCountsNil, NobodyForgotten, Outstanding,
              callerVars
<1>4. QED
  BY <1>2, <1>3 DEF RoundInv

(* A new round starts with no records, and no goroutine or result belongs  *)
(* to it yet.                                                              *)
LEMMA BeginKeepsRound ==
  ASSUME TypeOK, RoundInv, BeginRound
  PROVE  RoundInv'
<1>1. /\ pc' = "starting" /\ round' = round + 1 /\ next' = 1 /\ pending' = 0
      /\ records' = [i \in Indices |-> Nil]
      /\ UNCHANGED <<ctxDone, tasks, results>>
      /\ round \in Nat
  BY DEF BeginRound, TypeOK
<1>2. /\ \A t \in tasks : t.round <= round /\ t.round \in Nat
      /\ \A m \in results : m.round <= round /\ m.round \in Nat
  BY DEF RoundInv, RoundsOfTasks, TypeOK, Task, Result
<1>3. Outstanding' = {}
  BY <1>1, IndicesFacts DEF Outstanding, Indices
<1>4. RoundsOfTasks'
  BY <1>1, <1>2 DEF RoundInv, RoundsOfTasks
<1>5. LoopProgress'
  BY <1>1, <1>2 DEF LoopProgress, Waiting
<1>6. RecordsOfThisRound' /\ PendingCountsNil' /\ NobodyForgotten'
  BY <1>1, <1>3, FS_EmptySet DEF RecordsOfThisRound, PendingCountsNil, NobodyForgotten
<1>7. QED
  BY <1>4, <1>5, <1>6 DEF RoundInv

(* Refusing a busy collector gives it its record at once, so nobody waits  *)
(* for it.                                                                 *)
LEMMA RefuseKeepsRound ==
  ASSUME TypeOK, RoundInv, Refuse
  PROVE  RoundInv'
<1>1. /\ pc = "starting" /\ next \in Indices /\ next' = next + 1
      /\ records' = [records EXCEPT ![next] = Record("busy", round)]
      /\ UNCHANGED <<pc, round, pending, tasks, results, ctxDone>>
  BY DEF Refuse
<1>2. /\ next \in Nat
      /\ records'[next] = Record("busy", round) /\ records'[next] # Nil
      /\ \A i \in Indices : i # next => records'[i] = records[i]
  BY <1>1, IndicesFacts DEF TypeOK, Record, Nil
<1>3. Outstanding' = Outstanding
  <2>1. \A i \in Indices : i < next' /\ records'[i] = Nil <=> i < next /\ records[i] = Nil
    BY <1>1, <1>2, IndicesFacts
  <2>2. QED
    BY <2>1 DEF Outstanding
<1>4. RoundsOfTasks'
  BY <1>1 DEF RoundInv, RoundsOfTasks
<1>5. LoopProgress'
  <2>1. /\ \A t \in tasks : t.index \in Indices /\ (t.round = round => t.index < next)
        /\ \A m \in results : m.index \in Indices /\ (m.round = round => m.index < next)
        /\ \A i \in Indices : i >= next => records[i] = Nil
    BY <1>1 DEF RoundInv, LoopProgress, TypeOK, Task, Result
  <2> DEFINE Below(i) == i # next /\ i < next + 1
  <2>a. \A i \in Indices : i < next => Below(i)
    BY <1>2, IndicesFacts
  <2>2. \A t \in tasks : t.round = round => Below(t.index)
    BY <2>1, <2>a
  <2>3. \A m \in results : m.round = round => Below(m.index)
    BY <2>1, <2>a
  <2>4. \A i \in Indices : i >= next + 1 => i # next /\ i >= next
    BY <1>2, IndicesFacts
  <2>5. /\ \A t \in tasks : t.round = round /\ t.phase # "finishing" => records[t.index] = Nil
        /\ \A m \in results : m.round = round => records[m.index] = Nil
    BY <1>1 DEF RoundInv, LoopProgress
  <2>6. QED
    BY <1>1, <1>2, <2>1, <2>2, <2>3, <2>4, <2>5 DEF LoopProgress, Waiting
<1>6. RecordsOfThisRound' /\ PendingCountsNil' /\ NobodyForgotten'
  BY <1>1, <1>2, <1>3 DEF RoundInv, RecordsOfThisRound, PendingCountsNil, NobodyForgotten, Record
<1>7. QED
  BY <1>4, <1>5, <1>6 DEF RoundInv

(* Starting a collector adds one to pending, one index without a record,   *)
(* and the goroutine that will fill it.                                    *)
LEMMA StartKeepsRound ==
  ASSUME TypeOK, RoundInv, Start
  PROVE  RoundInv'
<1> DEFINE n == NewTask(next)
<1>1. /\ pc = "starting" /\ next \in Indices /\ next' = next + 1
      /\ pending' = pending + 1 /\ tasks' = tasks \cup {n}
      /\ UNCHANGED <<pc, round, records, results, ctxDone>>
  BY DEF Start
<1>2. n.index = next /\ n.round = round /\ n.phase = "sampling" /\ next \in Nat
  BY <1>1, IndicesFacts DEF NewTask
<1> HIDE DEF n
<1>3. /\ \A t \in tasks : t.index \in Indices /\ (t.round = round => t.index < next)
      /\ \A m \in results : m.index \in Indices /\ (m.round = round => m.index < next)
      /\ \A i \in Indices : i >= next => records[i] = Nil
  BY <1>1 DEF RoundInv, LoopProgress, TypeOK, Task, Result
<1> DEFINE Below(i) == i # next /\ i < next + 1
<1>4. \A i \in Indices : i < next => Below(i)
  BY <1>2, IndicesFacts
<1>5. /\ \A t \in tasks : t.round = round => Below(t.index)
      /\ \A m \in results : m.round = round => Below(m.index)
      /\ records[next] = Nil
  <2>1. records[next] = Nil
    BY <1>1, <1>2, <1>3
  <2>2. QED
    BY <1>3, <1>4, <2>1
<1>6. RoundsOfTasks'
  <2>1. \A t \in tasks' : t.round <= round
    BY <1>1, <1>2 DEF RoundInv, RoundsOfTasks, TypeOK
  <2>2. \A t, u \in tasks' : t.index = u.index /\ t.round = u.round => t = u
    BY <1>1, <1>2, <1>5 DEF RoundInv, RoundsOfTasks
  <2>3. \A t \in tasks', m \in results :
          t.index = m.index /\ t.round = m.round => t.phase = "finishing"
    BY <1>1, <1>2, <1>5 DEF RoundInv, RoundsOfTasks
  <2>4. QED
    BY <1>1, <2>1, <2>2, <2>3 DEF RoundInv, RoundsOfTasks
<1>7. LoopProgress'
  <2>1. \A i \in Indices : i >= next + 1 => i >= next
    BY <1>2, IndicesFacts
  <2>2. /\ \A t \in tasks : t.round = round /\ t.phase # "finishing" => records[t.index] = Nil
        /\ \A m \in results : m.round = round => records[m.index] = Nil
    BY <1>1 DEF RoundInv, LoopProgress
  <2>3. next < next + 1
    BY <1>2
  <2>4. QED
    BY <1>1, <1>2, <1>3, <1>5, <2>1, <2>2, <2>3 DEF LoopProgress, Waiting
<1>8. Outstanding' = Outstanding \cup {next} /\ next \notin Outstanding
  <2>1. \A i \in Indices : i < next + 1 <=> i < next \/ i = next
    BY <1>2, IndicesFacts
  <2>2. ~(next < next)
    BY <1>2
  <2>3. QED
    BY <1>1, <1>5, <2>1, <2>2 DEF Outstanding
<1>9. PendingCountsNil'
  <2>1. pending = Cardinality(Outstanding)
    BY <1>1 DEF RoundInv, PendingCountsNil
  <2>2. Cardinality(Outstanding') = Cardinality(Outstanding) + 1
    BY <1>8, OutstandingFinite, FS_AddElement
  <2>3. QED
    BY <1>1, <2>1, <2>2 DEF PendingCountsNil
<1>10. RecordsOfThisRound' /\ NobodyForgotten'
  BY <1>1, <1>2, <1>8 DEF RoundInv, RecordsOfThisRound, NobodyForgotten
<1>11. QED
  BY <1>6, <1>7, <1>9, <1>10 DEF RoundInv

(* When the for loop ends every index was refused or started.              *)
LEMMA LoopDoneKeepsRound ==
  ASSUME TypeOK, RoundInv, LoopDone
  PROVE  RoundInv'
<1>1. /\ pc = "starting" /\ next = NumCollectors + 1 /\ pc' = "collecting"
      /\ UNCHANGED <<next, round, pending, records, tasks, results, ctxDone>>
  BY IndicesFacts DEF LoopDone, TypeOK
<1>2. RoundsOfTasks' /\ LoopProgress'
  BY <1>1 DEF RoundInv, RoundsOfTasks, LoopProgress
<1>3. RecordsOfThisRound' /\ PendingCountsNil' /\ NobodyForgotten'
  BY <1>1 DEF RoundInv, RecordsOfThisRound, PendingCountsNil, NobodyForgotten, Outstanding
<1>4. QED
  BY <1>2, <1>3 DEF RoundInv

(* Receiving a result takes one from pending and fills one nil record.     *)
LEMMA ReceiveKeepsRound ==
  ASSUME TypeOK, RoundInv, NEW m \in results, Receive(m)
  PROVE  RoundInv'
<1>1. /\ Waiting /\ m.round = round /\ results' = results \ {m}
      /\ records' = [records EXCEPT ![m.index] = Record("answer", m.round)]
      /\ pending' = pending - 1
      /\ UNCHANGED <<pc, round, next, tasks, ctxDone>>
  BY DEF Receive, Readable, Accept
<1>2. /\ m.index \in Indices
      /\ records'[m.index] = Record("answer", round) /\ records'[m.index] # Nil
      /\ \A i \in Indices : i # m.index => records'[i] = records[i]
      /\ records[m.index] = Nil
      /\ next = NumCollectors + 1
  BY <1>1 DEF TypeOK, Result, Record, Nil, RoundInv, LoopProgress, Waiting
<1>3. \A l \in results' : l.round = round => l.index # m.index
  BY <1>1 DEF TypeOK, Result
<1>4. \A t \in tasks : t.round = round /\ t.phase # "finishing" => t.index # m.index
  BY <1>1 DEF RoundInv, RoundsOfTasks
<1>5. RoundsOfTasks'
  BY <1>1 DEF RoundInv, RoundsOfTasks
<1>6. LoopProgress'
  <2>1. pc' = "collecting" /\ next' = NumCollectors + 1
    BY <1>1, <1>2 DEF Waiting
  <2>2. \A t \in tasks : t.round = round /\ t.phase # "finishing" => records'[t.index] = Nil
    BY <1>1, <1>2, <1>4 DEF RoundInv, LoopProgress, TypeOK, Task
  <2>3. \A l \in results' : l.round = round => records'[l.index] = Nil
    BY <1>1, <1>2, <1>3 DEF RoundInv, LoopProgress, TypeOK, Result
  <2>4. QED
    BY <1>1, <2>1, <2>2, <2>3 DEF LoopProgress
<1>7. Outstanding' = Outstanding \ {m.index} /\ m.index \in Outstanding
  <2>1. m.index < next
    BY <1>2, SamplerConstants DEF Indices
  <2>2. QED
    BY <1>1, <1>2, <2>1 DEF Outstanding
<1>8. PendingCountsNil'
  <2>1. pending = Cardinality(Outstanding)
    BY <1>1 DEF RoundInv, PendingCountsNil, Waiting
  <2>2. Cardinality(Outstanding') = Cardinality(Outstanding) - 1
    BY <1>7, OutstandingFinite, FS_RemoveElement
  <2>3. QED
    BY <1>1, <2>1, <2>2 DEF PendingCountsNil
<1>9. RecordsOfThisRound'
  BY <1>1, <1>2 DEF RoundInv, RecordsOfThisRound, Record
<1>10. NobodyForgotten'
  BY <1>1, <1>7 DEF RoundInv, NobodyForgotten
<1>11. QED
  BY <1>5, <1>6, <1>8, <1>9, <1>10 DEF RoundInv

(* The timer and the context fill every nil record at once.                *)
LEMMA FillKeepsRound ==
  ASSUME TypeOK, RoundInv, TimeOut \/ GiveUp
  PROVE  RoundInv'
<1>1. /\ Waiting /\ pending' = 0
      /\ UNCHANGED <<pc, round, next, tasks, results, ctxDone>>
  BY DEF TimeOut, GiveUp
<1>2. PICK k \in Kinds : records' = FillNil(k)
  BY DEF TimeOut, GiveUp, Kinds
<1>3. \A i \in Indices : /\ records'[i] # Nil
                         /\ records[i] # Nil => records'[i] = records[i]
                         /\ records[i] = Nil => records'[i].round = round
  BY <1>2 DEF FillNil, Record, Nil, Kinds
<1>4. Outstanding' = {}
  <2>1. \A i \in Indices : records'[i] # Nil
    BY <1>3
  <2>2. QED
    BY <2>1 DEF Outstanding
<1>5. RoundsOfTasks' /\ LoopProgress'
  <2>1. ~(pc' = "starting" \/ Waiting')
    BY <1>1 DEF Waiting
  <2>2. pc' = "collecting" /\ next' = NumCollectors + 1
    BY <1>1 DEF RoundInv, LoopProgress, Waiting
  <2>3. LoopProgress'
    BY <2>1, <2>2 DEF LoopProgress
  <2>4. QED
    BY <1>1, <2>3 DEF RoundInv, RoundsOfTasks
<1>6. RecordsOfThisRound'
  BY <1>1, <1>3 DEF RoundInv, RecordsOfThisRound
<1>7. PendingCountsNil' /\ NobodyForgotten'
  BY <1>1, <1>4, FS_EmptySet DEF PendingCountsNil, NobodyForgotten
<1>8. QED
  BY <1>5, <1>6, <1>7 DEF RoundInv

(* The second layer of the invariant, in every reachable state.            *)
THEOREM RoundsCorrect == Spec => []RoundInv
<1>1. Init => RoundInv
  BY DEF Init, RoundInv, RoundsOfTasks, LoopProgress, RecordsOfThisRound, PendingCountsNil,
         NobodyForgotten, Waiting
<1>2. TypeOK /\ RoundInv /\ [Next]_vars => RoundInv'
  <2> SUFFICES ASSUME TypeOK, RoundInv, [Next]_vars PROVE RoundInv'
    OBVIOUS
  <2>1. ASSUME UNCHANGED <<callerVars, tasks, results>>, ctxDone => ctxDone' PROVE RoundInv'
    BY <2>1 DEF RoundInv, RoundsOfTasks, LoopProgress, RecordsOfThisRound, PendingCountsNil,
                NobodyForgotten, Waiting, Outstanding, callerVars
  <2>2. CASE Tick \/ Cancel \/ UNCHANGED vars
    BY <2>1, <2>2 DEF Tick, Cancel, vars
  <2>3. CASE Return
    <3>1. pc' = "idle" /\ pc = "collecting" /\ UNCHANGED <<round, next, pending, records, tasks, results>>
      BY <2>3 DEF Return
    <3>2. QED
      BY <3>1 DEF RoundInv, RoundsOfTasks, LoopProgress, RecordsOfThisRound, PendingCountsNil,
                  NobodyForgotten, Waiting
  <2>4. ASSUME NEW t \in tasks, SampleReturns(t) PROVE RoundInv'
    <3> DEFINE u == [t EXCEPT !.phase = "sending"]
    <3>1. u.index = t.index /\ u.round = t.round /\ u.phase = "sending" /\ t.phase = "sampling"
      BY <2>4 DEF TypeOK, Task, SampleReturns
    <3>2. tasks' = (tasks \ {t}) \cup {u} /\ UNCHANGED <<callerVars, ctxDone, results>>
      BY <2>4 DEF SampleReturns, ReplaceTask
    <3> HIDE DEF u
    <3>3. QED
      BY <3>1, <3>2, TaskStepKeepsRound
  <2>5. ASSUME NEW t \in tasks, Send(t) \/ Abandon(t) PROVE RoundInv'
    <3> DEFINE u == [t EXCEPT !.phase = "finishing"]
    <3>1. u.index = t.index /\ u.round = t.round /\ u.phase = "finishing" /\ t.phase = "sending"
      BY <2>5 DEF TypeOK, Task, Send, Abandon
    <3>2. /\ tasks' = (tasks \ {t}) \cup {u} /\ UNCHANGED <<callerVars, ctxDone>>
          /\ results' = results \cup {Message(t)} \/ (results' = results /\ ctxDone)
      BY <2>5 DEF Send, Abandon, ReplaceTask
    <3> HIDE DEF u
    <3>3. QED
      BY <3>1, <3>2, TaskStepKeepsRound
  <2>6. QED
    BY <2>2, <2>3, <2>4, <2>5, BeginKeepsRound, RefuseKeepsRound, StartKeepsRound,
       LoopDoneKeepsRound, ReceiveKeepsRound, FillKeepsRound, FinishKeepsRound
       DEF Next, CallerStep, TaskExit, Exhausted
<1>3. QED
  BY <1>1, <1>2, TypeCorrect, PTL DEF Spec

-----------------------------------------------------------------------------
(* SampleAll waits for exactly the collectors that still owe a record, and *)
(* each of them has a goroutine or a result on its way.                    *)
THEOREM WaitIsFounded == Spec => [](PendingCountsNil /\ NobodyForgotten)
<1>1. RoundInv => PendingCountsNil /\ NobodyForgotten
  BY DEF RoundInv
<1>2. QED
  BY <1>1, RoundsCorrect, PTL

(* No result of an earlier round ends up in a later round's sample.        *)
THEOREM RecordsAreFresh == Spec => []RecordsOfThisRound
<1>1. RoundInv => RecordsOfThisRound
  BY DEF RoundInv
<1>2. QED
  BY <1>1, RoundsCorrect, PTL

(* The buffer of len(cs) is enough: a goroutine with a result never waits  *)
(* for a reader, even when its round has long returned.                    *)
THEOREM SendIsNonBlocking == Spec => []SendNeverBlocks
<1>1. TypeOK /\ RoundInv => SendNeverBlocks
  <2> SUFFICES ASSUME TypeOK, RoundInv, NEW t \in tasks, t.phase = "sending"
               PROVE  HasRoom(t.round)
    BY DEF SendNeverBlocks
  <2> DEFINE M == {m \in results : m.round = t.round}
             J == Indices \ {t.index}
             f == [m \in M |-> m.index]
  <2>1. t.index \in Indices /\ NumCollectors \in Nat
    BY SamplerConstants DEF TypeOK, Task
  <2>2. IsFiniteSet(J) /\ Cardinality(J) = NumCollectors - 1
    BY <2>1, IndicesFacts, FS_RemoveElement
  <2>3. \A m \in M : m.index \in J
    BY DEF TypeOK, Result, RoundInv, RoundsOfTasks
  <2>4. \A m, l \in M : m.index = l.index => m = l
    BY DEF TypeOK, Result
  <2>5. f \in Injection(M, J)
    BY <2>3, <2>4 DEF Injection, IsInjective
  <2>6. Cardinality(M) <= Cardinality(J) /\ IsFiniteSet(M)
    BY <2>2, <2>5, FS_Injection
  <2>7. Cardinality(M) \in Nat
    BY <2>6, FS_CardinalityType
  <2>8. QED
    BY <2>1, <2>2, <2>6, <2>7 DEF HasRoom, Capacity
<1>2. QED
  BY <1>1, TypeCorrect, RoundsCorrect, PTL

(* Sampler implements RoundService: a goroutine's work is a stutter, every *)
(* way a record is written fills an empty answer of the open round, and    *)
(* SampleAll returns only when no answer is missing.                       *)
THEOREM SamplerKeepsPromise == Spec => ImplementsRoundService
<1>1. Init => Promise!Init
  BY DEF Init, Promise!Init, Promise!NoAnswer, Nil
<1>2. ASSUME NEW i \in Indices, NEW k \in Kinds,
             TypeOK, RoundInv, pc # "idle", records[i] = Nil,
             records' = [records EXCEPT ![i] = Record(k, round)],
             UNCHANGED <<pc, round>>
      PROVE  Promise!Next
  <2>1. \A j \in Indices : records[j] # Nil => records[j] \in Promise!Answers(round)
    BY <1>2 DEF TypeOK, RoundInv, RecordsOfThisRound, Promise!Answers
  <2>2. Record(k, round) \in Promise!Answers(round)
    BY DEF Record, Promise!Answers
  <2>3. Promise!Fill
    BY <1>2, <2>1, <2>2 DEF Promise!Fill, Promise!NoAnswer, Nil, TypeOK
  <2>4. QED
    BY <2>3 DEF Promise!Next
<1>3. ASSUME TypeOK, RoundInv, TimeOut \/ GiveUp PROVE Promise!Next
  <2>1. pc # "idle" /\ UNCHANGED <<pc, round>>
    BY <1>3 DEF TimeOut, GiveUp, Waiting
  <2>2. PICK k \in Kinds : records' = FillNil(k)
    BY <1>3 DEF TimeOut, GiveUp, Kinds
  <2>3. \A j \in Indices : records[j] # Nil => records[j] \in Promise!Answers(round)
    BY <1>3 DEF TypeOK, RoundInv, RecordsOfThisRound, Promise!Answers
  <2>4. Record(k, round) \in Promise!Answers(round)
    BY DEF Record, Promise!Answers
  <2>5. records' \in [Indices -> {Nil} \cup Promise!Answers(round)]
    BY <2>2, <2>3, <2>4 DEF FillNil
  <2>6. \A j \in Indices : records[j] # Nil => records'[j] = records[j]
    BY <2>2 DEF FillNil
  <2>7. Promise!Fill
    BY <2>1, <2>5, <2>6 DEF Promise!Fill, Promise!NoAnswer, Nil
  <2>8. QED
    BY <2>7 DEF Promise!Next
<1>4. ASSUME TypeOK, RoundInv, Return PROVE Promise!Next
  <2>1. pc = "collecting" /\ pc' = "idle" /\ pending = 0 /\ UNCHANGED <<round, records>>
    BY <1>4 DEF Return
  <2>2. next = NumCollectors + 1 /\ Cardinality(Outstanding) = 0
    BY <1>4, <2>1 DEF RoundInv, LoopProgress, PendingCountsNil
  <2>3. Outstanding = {}
    BY <2>2, OutstandingFinite, FS_EmptySet
  <2>4. \A i \in Indices : i < next
    BY <2>2, SamplerConstants DEF Indices
  <2>5. \A i \in Indices : records[i] # Nil
    BY <2>3, <2>4 DEF Outstanding
  <2>6. QED
    BY <2>1, <2>5 DEF Promise!Next, Promise!Close, Promise!NoAnswer, Nil
<1>5. TypeOK /\ RoundInv /\ [Next]_vars => [Promise!Next]_(Promise!vars)
  <2> SUFFICES ASSUME TypeOK, RoundInv, [Next]_vars
               PROVE  Promise!Next \/ UNCHANGED <<pc # "idle", round, records>>
    BY DEF Promise!vars
  <2>1. CASE UNCHANGED <<pc, round, records>>
    BY <2>1
  <2>2. CASE BeginRound
    BY <2>2 DEF BeginRound, Promise!Next, Promise!Open, Promise!NoAnswer, Nil
  <2>3. CASE Refuse
    <3>1. next \in Indices /\ pc = "starting" /\ records[next] = Nil
      BY <2>3, IndicesFacts DEF Refuse, RoundInv, LoopProgress
    <3>2. records' = [records EXCEPT ![next] = Record("busy", round)] /\ UNCHANGED <<pc, round>>
      BY <2>3 DEF Refuse
    <3>3. QED
      BY <3>1, <3>2, <1>2 DEF Kinds
  <2>4. CASE Start \/ LoopDone
    <3>1. pc # "idle" /\ pc' # "idle" /\ UNCHANGED <<round, records>>
      BY <2>4 DEF Start, LoopDone
    <3>2. QED
      BY <3>1
  <2>5. ASSUME NEW m \in results, Receive(m) PROVE Promise!Next
    <3>1. m.index \in Indices /\ m.round = round /\ pc # "idle" /\ records[m.index] = Nil
      BY <2>5 DEF Receive, Readable, Waiting, TypeOK, Result, RoundInv, LoopProgress
    <3>2. /\ records' = [records EXCEPT ![m.index] = Record("answer", round)]
          /\ UNCHANGED <<pc, round>>
      BY <2>5, <3>1 DEF Receive, Accept
    <3>3. QED
      BY <3>1, <3>2, <1>2 DEF Kinds
  <2>6. CASE \E t \in tasks : SampleReturns(t) \/ Send(t) \/ Abandon(t) \/ Finish(t)
    BY <2>1, <2>6 DEF SampleReturns, Send, Abandon, Finish, callerVars
  <2>7. CASE Tick \/ Cancel \/ UNCHANGED vars
    BY <2>1, <2>7 DEF Tick, Cancel, vars, callerVars
  <2>8. QED
    BY <2>2, <2>3, <2>4, <2>5, <2>6, <2>7, <1>3, <1>4 DEF Next, CallerStep, TaskExit, Exhausted
<1>6. QED
  BY <1>1, <1>5, TypeCorrect, RoundsCorrect, PTL
     DEF Spec, ImplementsRoundService, Promise!SafeSpec
=============================================================================
