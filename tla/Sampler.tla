------------------------------ MODULE Sampler ------------------------------
(***************************************************************************)
(* collectors.Sampler: one caller (Monitor.Run or the TUI's local loop)    *)
(* runs SampleAll round after round; each round tries to start one         *)
(* goroutine per collector, then collects results until all are in, the    *)
(* timer fires or the context is done.  Goroutines outlive their round:    *)
(* a collector that hangs keeps its goroutine, and after StaleAfter a      *)
(* second one is started beside it.                                        *)
(*                                                                         *)
(* A record is abstracted to its kind and the round it was made in:        *)
(*   answer       what Sample returned, its record or its error            *)
(*   busy         "previous sample still running"                          *)
(*   timeout      "sample timed out after ..."                             *)
(*   cancelled    the context's error                                      *)
(***************************************************************************)
EXTENDS Integers, FiniteSets

CONSTANTS
  NumCollectors,   \* len(cs)
  Timeout,         \* Sampler.Timeout, in ticks
  StaleAfter,      \* Sampler.StaleAfter, in ticks
  MaxTime,         \* bound: the clock stops here
  MaxRounds        \* bound: rounds the caller starts

ASSUME SamplerConstants ==
  /\ NumCollectors \in Nat
  /\ Timeout \in Nat
  /\ StaleAfter \in Nat
  /\ MaxTime \in Nat
  /\ MaxRounds \in Nat

Indices == 1..NumCollectors

Kinds == {"answer", "busy", "timeout", "cancelled"}
Nil == [kind |-> "none", round |-> 0]
Record(k, r) == [kind |-> k, round |-> r]

VARIABLES
  now,        \* the monotonic clock
  ctxDone,    \* the context was cancelled
  pc,         \* the caller: "idle", "starting" (the for loop), "collecting"
  round,      \* number of SampleAll calls so far
  startTime,  \* SampleAll's now
  next,       \* index the for loop is at
  pending,    \* SampleAll's pending
  records,    \* SampleAll's records
  states,     \* Sampler.states, per collector key
  tasks,      \* goroutines running sampleCollector
  results     \* messages in the result channels, one channel per round

callerVars == <<pc, round, startTime, next, pending, records>>
vars == <<now, ctxDone, callerVars, states, tasks, results>>

-----------------------------------------------------------------------------
Init ==
  /\ now = 0
  /\ ctxDone = FALSE
  /\ pc = "idle"
  /\ round = 0
  /\ startTime = 0
  /\ next = 1
  /\ pending = 0
  /\ records = [i \in Indices |-> Nil]
  /\ states = [i \in Indices |-> [inFlight |-> FALSE, startedAt |-> 0, generation |-> 0]]
  /\ tasks = {}
  /\ results = {}

Tick ==
  /\ now < MaxTime
  /\ now' = now + 1
  /\ UNCHANGED <<ctxDone, callerVars, states, tasks, results>>

Cancel ==
  /\ ~ctxDone
  /\ ctxDone' = TRUE
  /\ UNCHANGED <<now, callerVars, states, tasks, results>>

-----------------------------------------------------------------------------
(* SampleAll, up to the for loop.                                          *)

BeginRound ==
  /\ pc = "idle"
  /\ round < MaxRounds
  /\ now + Timeout <= MaxTime
  /\ pc' = "starting"
  /\ round' = round + 1
  /\ startTime' = now
  /\ next' = 1
  /\ pending' = 0
  /\ records' = [i \in Indices |-> Nil]
  /\ UNCHANGED <<now, ctxDone, states, tasks, results>>

(* tryStart: a young attempt that is still in flight refuses a new one.    *)
Busy_Off(i) == states[i].inFlight /\ startTime - states[i].startedAt < StaleAfter

Busy(i) ==
  /\ states[i].inFlight
  /\ startTime - states[i].startedAt <= StaleAfter

Refuse ==
  /\ pc = "starting"
  /\ next \in Indices
  /\ Busy(next)
  /\ records' = [records EXCEPT ![next] = Record("busy", round)]
  /\ next' = next + 1
  /\ UNCHANGED <<now, ctxDone, pc, round, startTime, pending, states, tasks, results>>

Started(s) ==
  [inFlight |-> TRUE, startedAt |-> startTime, generation |-> s.generation + 1]

(* startedAt is kept in the goroutine's record only to state properties.   *)
NewTask(i) ==
  [index |-> i, round |-> round, generation |-> states[i].generation + 1,
   startedAt |-> startTime, phase |-> "sampling"]

Start ==
  /\ pc = "starting"
  /\ next \in Indices
  /\ ~Busy(next)
  /\ states' = [states EXCEPT ![next] = Started(@)]
  /\ tasks' = tasks \cup {NewTask(next)}
  /\ pending' = pending + 1
  /\ next' = next + 1
  /\ UNCHANGED <<now, ctxDone, pc, round, startTime, records, results>>

LoopDone ==
  /\ pc = "starting"
  /\ next \notin Indices
  /\ pc' = "collecting"
  /\ UNCHANGED <<now, ctxDone, round, startTime, next, pending, records, states, tasks, results>>

-----------------------------------------------------------------------------
(* SampleAll's select: the three cases may all be ready, any one runs.     *)

Waiting == pc = "collecting" /\ pending > 0

Accept(m) ==
  /\ records' = [records EXCEPT ![m.index] = Record("answer", m.round)]
  /\ pending' = pending - 1

Readable(m) == m.round = round

Receive(m) ==
  /\ Waiting
  /\ Readable(m)
  /\ results' = results \ {m}
  /\ Accept(m)
  /\ UNCHANGED <<now, ctxDone, pc, round, startTime, next, states, tasks>>

FillNil(k) == [i \in Indices |-> IF records[i] = Nil THEN Record(k, round) ELSE records[i]]

TimeOut_Never == FALSE

TimeOut ==
  /\ Waiting
  /\ now >= startTime + Timeout
  /\ records' = FillNil("timeout")
  /\ pending' = 0
  /\ UNCHANGED <<now, ctxDone, pc, round, startTime, next, states, tasks, results>>

GiveUp ==
  /\ Waiting
  /\ ctxDone
  /\ records' = FillNil("cancelled")
  /\ pending' = 0
  /\ UNCHANGED <<now, ctxDone, pc, round, startTime, next, states, tasks, results>>

Return_Early ==
  /\ pc = "collecting"
  /\ pc' = "idle"
  /\ UNCHANGED <<now, ctxDone, round, startTime, next, pending, records, states, tasks, results>>

Return ==
  /\ pc = "collecting"
  /\ pending = 0
  /\ pc' = "idle"
  /\ UNCHANGED <<now, ctxDone, round, startTime, next, pending, records, states, tasks, results>>

-----------------------------------------------------------------------------
(* sampleCollector, in a goroutine of its own.                             *)

ReplaceTask(t, u) == tasks' = (tasks \ {t}) \cup {u}

SampleReturns(t) ==
  /\ t.phase = "sampling"
  /\ ReplaceTask(t, [t EXCEPT !.phase = "sending"])
  /\ UNCHANGED <<now, ctxDone, callerVars, states, results>>

Message(t) == [index |-> t.index, round |-> t.round]

(* make(chan collectorResult, len(cs)): a channel holds this many results. *)
Capacity_Short == NumCollectors - 1

Capacity == NumCollectors

HasRoom(r) == Cardinality({m \in results : m.round = r}) < Capacity

Send(t) ==
  /\ t.phase = "sending"
  /\ HasRoom(t.round)
  /\ results' = results \cup {Message(t)}
  /\ ReplaceTask(t, [t EXCEPT !.phase = "finishing"])
  /\ UNCHANGED <<now, ctxDone, callerVars, states>>

Abandon(t) ==
  /\ t.phase = "sending"
  /\ ctxDone
  /\ ReplaceTask(t, [t EXCEPT !.phase = "finishing"])
  /\ UNCHANGED <<now, ctxDone, callerVars, states, results>>

(* finish: only the newest attempt releases the key.                       *)
Releases(t) == states[t.index].generation = t.generation

Finish(t) ==
  /\ t.phase = "finishing"
  /\ tasks' = tasks \ {t}
  /\ states' = IF Releases(t)
               THEN [states EXCEPT ![t.index].inFlight = FALSE]
               ELSE states
  /\ UNCHANGED <<now, ctxDone, callerVars, results>>

-----------------------------------------------------------------------------
(* The bounds are exhausted and nothing is left running.                   *)
Exhausted ==
  /\ pc = "idle"
  /\ round = MaxRounds \/ now + Timeout > MaxTime
  /\ tasks = {}
  /\ UNCHANGED vars

CallerStep ==
  \/ Refuse \/ Start \/ LoopDone
  \/ \E m \in results : Receive(m)
  \/ TimeOut \/ GiveUp \/ Return

(* A goroutine whose collector answered; Sample itself may never return.   *)
TaskExit == \E t \in tasks : Send(t) \/ Abandon(t) \/ Finish(t)

Next ==
  \/ Tick
  \/ Cancel
  \/ BeginRound
  \/ CallerStep
  \/ \E t \in tasks : SampleReturns(t)
  \/ TaskExit
  \/ Exhausted

Spec == Init /\ [][Next]_vars

(* The Go scheduler runs a runnable goroutine and time passes.  Nothing    *)
(* makes a collector's Sample return.                                      *)
TaskExitOf(i, g) ==
  \E t \in tasks : t.index = i /\ t.generation = g /\ (Send(t) \/ Abandon(t) \/ Finish(t))

FairSpec ==
  /\ Spec
  /\ WF_vars(Tick)
  /\ WF_vars(CallerStep)
  /\ \A i \in Indices, g \in 1..MaxRounds : WF_vars(TaskExitOf(i, g))

-----------------------------------------------------------------------------
Phases == {"sampling", "sending", "finishing"}
Task == [index : Indices, round : 1..MaxRounds, generation : Nat, startedAt : Nat,
         phase : Phases]
Result == [index : Indices, round : 1..MaxRounds]

TypeOK ==
  /\ now \in 0..MaxTime
  /\ ctxDone \in BOOLEAN
  /\ pc \in {"idle", "starting", "collecting"}
  /\ round \in 0..MaxRounds
  /\ pc # "idle" => round # 0
  /\ startTime \in Nat
  /\ next \in 1..(NumCollectors + 1)
  /\ pending \in Nat
  /\ records \in [Indices -> {Nil} \cup [kind : Kinds, round : 1..MaxRounds]]
  /\ states \in [Indices -> [inFlight : BOOLEAN, startedAt : Nat, generation : Nat]]
  /\ tasks \subseteq Task
  /\ results \subseteq Result

(* inFlight says exactly whether the newest attempt of the key is still    *)
(* running: a stale goroutine that finishes late does not clear the flag   *)
(* of its successor, and a key is never left "previous sample still        *)
(* running" after its newest attempt is gone.                              *)
InFlightTracksNewest ==
  \A i \in Indices :
    states[i].inFlight <=>
      \E t \in tasks : t.index = i /\ t.generation = states[i].generation

(* Two goroutines inside the same collector were started more than         *)
(* StaleAfter apart, so a hung collector gains at most one goroutine per   *)
(* StaleAfter however often it is sampled.                                 *)
OverlapOnlyAfterStale ==
  \A t, u \in tasks :
    t.index = u.index /\ t.generation < u.generation
      => u.startedAt - t.startedAt > StaleAfter

(* Every record is of the current round: a result of an earlier round      *)
(* that arrives late is not taken for one of this round.                   *)
RecordsOfThisRound ==
  \A i \in Indices : records[i] # Nil => records[i].round = round

Outstanding == {i \in Indices : i < next /\ records[i] = Nil}

(* The loop waits for exactly the collectors that still owe a record, so   *)
(* it neither leaves early with a nil record nor waits for nobody.         *)
PendingCountsNil ==
  pc \in {"starting", "collecting"} => pending = Cardinality(Outstanding)

(* Whoever the loop waits for will be heard: its goroutine is on its way   *)
(* or its result is in the channel, unless the context is done.            *)
NobodyForgotten ==
  pc \in {"starting", "collecting"} =>
    \A i \in Outstanding :
      \/ ctxDone
      \/ \E t \in tasks : t.index = i /\ t.round = round /\ t.phase # "finishing"
      \/ \E m \in results : m.index = i /\ m.round = round

(* A goroutine that has a result never waits for room in the channel,      *)
(* though nobody reads it after the round returned.                        *)
SendNeverBlocks == \A t \in tasks : t.phase = "sending" => HasRoom(t.round)

(* Every call of SampleAll returns, whatever the collectors do.            *)
RoundReturns == pc # "idle" ~> pc = "idle"

(* SampleAll gives each round one answer per collector and returns only    *)
(* when all are there.                                                     *)
Promise == INSTANCE RoundService WITH open <- pc # "idle", answers <- records

ImplementsRoundService == Promise!SafeSpec

-----------------------------------------------------------------------------
(* The inductive invariants behind these properties, in two layers.        *)

(* What a goroutine's generation and age say about the state of its key.   *)
AttemptsAged ==
  /\ startTime <= now
  /\ \A i \in Indices : states[i].startedAt <= startTime
  /\ \A t \in tasks :
       LET s == states[t.index]
       IN  /\ t.generation <= s.generation
           /\ t.generation = s.generation => t.startedAt = s.startedAt
           /\ t.generation < s.generation => s.startedAt - t.startedAt > StaleAfter

OneTaskPerGeneration ==
  \A t, u \in tasks : t.index = u.index /\ t.generation = u.generation => t = u

AttemptInv ==
  /\ AttemptsAged
  /\ OneTaskPerGeneration
  /\ InFlightTracksNewest
  /\ OverlapOnlyAfterStale

(* Goroutines and results belong to rounds that were opened, one of each   *)
(* per collector and round, and a goroutine with a result in the channel   *)
(* has nothing more to send.                                               *)
RoundsOfTasks ==
  /\ \A t \in tasks : t.round <= round
  /\ \A m \in results : m.round <= round
  /\ \A t, u \in tasks : t.index = u.index /\ t.round = u.round => t = u
  /\ \A t \in tasks, m \in results :
       t.index = m.index /\ t.round = m.round => t.phase = "finishing"

(* While the loops run, indices from next on are untouched and whoever has *)
(* still something to deliver to this round has no record yet.             *)
LoopProgress ==
  /\ pc = "collecting" => next = NumCollectors + 1
  /\ pc = "starting" => \A i \in Indices : i >= next => records[i] = Nil
  /\ pc = "starting" => \A t \in tasks : t.round = round => t.index < next
  /\ pc = "starting" => \A m \in results : m.round = round => m.index < next
  /\ pc = "starting" \/ Waiting =>
       /\ \A t \in tasks : t.round = round /\ t.phase # "finishing" => records[t.index] = Nil
       /\ \A m \in results : m.round = round => records[m.index] = Nil

RoundInv ==
  /\ RoundsOfTasks
  /\ LoopProgress
  /\ RecordsOfThisRound
  /\ PendingCountsNil
  /\ NobodyForgotten
=============================================================================
