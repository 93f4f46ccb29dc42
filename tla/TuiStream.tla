------------------------------ MODULE TuiStream ------------------------------
(***************************************************************************)
(* The terminal dashboard: stream, the goroutine that follows the daemon   *)
(* and collects locally when it cannot connect; the channel between it and *)
(* the program; and the program's model, whose Update takes one event at a *)
(* time.  Bubble Tea runs each waitEvent command in a goroutine of its own *)
(* and passes what they return to Update in any order.                     *)
(*                                                                         *)
(* A sample is its time and the series it has points of; a point's value   *)
(* is the time of its sample.  The daemon is what the dashboard sees of    *)
(* Hub: a connection that carries samples in order until it breaks.        *)
(***************************************************************************)
EXTENDS Naturals, Sequences, SequencesExt

CONSTANTS
  Series,       \* keys of points
  ChanCap,      \* capacity of events, 8 in the code
  HistorySize,  \* historySize, 90 in the code
  WireCap,      \* samples on their way from the daemon
  SlowHandshakes,  \* a daemon that is up may miss the 750 ms of the handshake
  MaxTime       \* bound: samples made, by the daemon or here

ASSUME TuiConstants ==
  /\ ChanCap \in Nat \ {0} /\ HistorySize \in Nat \ {0}
  /\ WireCap \in Nat \ {0} /\ MaxTime \in Nat
  /\ SlowHandshakes \in BOOLEAN

VARIABLES
  now,         \* time of the last sample made anywhere
  daemonUp,    \* the daemon accepts connections
  conn,        \* "none", "open", "broken"
  wire,        \* what the connection still has to deliver
  stream,      \* where the goroutine is
  event,       \* the event it is sending
  after,       \* and where it goes on
  events,      \* the channel
  readers,     \* waitEvent goroutines at the channel
  arrived,     \* events they have returned, not yet passed to Update
  running,     \* p.Run has not returned
  cancelled,   \* ctx is done
  paused, status, lastSample, values, history,   \* of the model
  made,        \* samples the goroutine read or collected (for the properties)
  skipped      \* times of those Update ignored, being paused

daemon == <<now, daemonUp, conn, wire>>
goroutine == <<stream, event, after, made>>
channel == <<events, readers, arrived>>
shown == <<status, lastSample, values, history, skipped>>
vars == <<daemon, goroutine, channel, running, cancelled, paused, shown>>

NoTime == 0
Notice(st) == [time |-> NoTime, keys |-> {}, status |-> st]
NoEvent == Notice("none")
Hello == [time |-> NoTime, keys |-> {}]

Init ==
  /\ now = 0 /\ daemonUp \in BOOLEAN /\ conn = "none" /\ wire = <<>>
  /\ stream = "starting" /\ event = NoEvent /\ after = "gone" /\ made = {}
  /\ events = <<>> /\ readers = 1 /\ arrived = <<>>
  /\ running = TRUE /\ cancelled = FALSE
  /\ paused = FALSE /\ status = "connecting" /\ lastSample = NoTime
  /\ values = [k \in Series |-> NoTime] /\ history = [k \in Series |-> <<>>]
  /\ skipped = {}

-----------------------------------------------------------------------------
(* The daemon and the network.                                             *)

DaemonSamples ==
  /\ daemonUp /\ now < MaxTime
  /\ conn = "open" /\ Len(wire) < WireCap
  /\ now' = now + 1
  /\ \E keys \in SUBSET Series : wire' = Append(wire, [time |-> now', keys |-> keys])
  /\ UNCHANGED <<daemonUp, conn, goroutine, channel, running, cancelled, paused, shown>>

(* The daemon stops, or evicts its client, or the network fails.           *)
Breaks ==
  /\ conn = "open"
  /\ conn' = "broken"
  /\ daemonUp' \in BOOLEAN
  /\ UNCHANGED <<now, wire, goroutine, channel, running, cancelled, paused, shown>>

DaemonComesOrGoes ==
  /\ conn # "open"
  /\ daemonUp' = ~daemonUp
  /\ UNCHANGED <<now, conn, wire, goroutine, channel, running, cancelled, paused, shown>>

-----------------------------------------------------------------------------
(* stream and localStream.                                                 *)

Sends(e, next) == stream' = "sending" /\ event' = e /\ after' = next

(* websocketURL: a bad address ends the goroutine, with an event that has  *)
(* an error and no status.                                                 *)
BadAddress ==
  /\ stream = "starting" /\ ~cancelled
  /\ Sends(Notice(""), "gone")
  /\ UNCHANGED <<daemon, made, channel, running, cancelled, paused, shown>>

GoodAddress ==
  /\ stream = "starting"
  /\ stream' = IF cancelled THEN "gone" ELSE "dialing"
  /\ UNCHANGED <<daemon, event, after, made, channel, running, cancelled, paused, shown>>

Connects ==
  /\ stream = "dialing"
  /\ daemonUp
  /\ conn' = "open" /\ wire' = <<Hello>>
  /\ Sends(Notice("connected"), "reading")
  /\ UNCHANGED <<now, daemonUp, made, channel, running, cancelled, paused, shown>>

(* Refused, no handshake within 750 ms, or ctx is done.                    *)
DialFails ==
  /\ stream = "dialing"
  /\ ~daemonUp \/ SlowHandshakes \/ cancelled
  /\ Sends(Notice("local"), "detecting")
  /\ UNCHANGED <<daemon, made, channel, running, cancelled, paused, shown>>

(* ReadMessage, also of what is not a sample.                              *)
Reads ==
  /\ stream = "reading" /\ ~cancelled
  /\ wire # <<>>
  /\ wire' = Tail(wire)
  /\ IF Head(wire) = Hello
     THEN UNCHANGED goroutine
     ELSE /\ Sends([time |-> Head(wire).time, keys |-> Head(wire).keys, status |-> "connected"],
                   "reading")
          /\ made' = made \cup {event'}
  /\ UNCHANGED <<now, daemonUp, conn, channel, running, cancelled, paused, shown>>

(* The connection is closed; what was still on its way is lost.            *)
ReadFails_Quietly ==
  /\ stream = "reading"
  /\ conn = "broken"
  /\ conn' = "none" /\ wire' = <<>>
  /\ stream' = "waiting"
  /\ UNCHANGED <<now, daemonUp, event, after, made, channel, running, cancelled, paused, shown>>

ReadFails ==
  /\ stream = "reading"
  /\ conn = "broken"
  /\ conn' = "none" /\ wire' = <<>>
  /\ Sends(Notice("reconnecting"), "waiting")
  /\ UNCHANGED <<now, daemonUp, made, channel, running, cancelled, paused, shown>>

(* for ctx.Err() == nil, and wait.                                         *)
Leaves ==
  /\ cancelled
  /\ stream \in {"reading", "waiting", "ticking"}
  /\ stream' = "gone"
  /\ UNCHANGED <<daemon, event, after, made, channel, running, cancelled, paused, shown>>

Waited ==
  /\ stream = "waiting"
  /\ stream' = IF cancelled THEN "gone" ELSE "dialing"
  /\ UNCHANGED <<daemon, event, after, made, channel, running, cancelled, paused, shown>>

(* collectors.Default.                                                     *)
Detects ==
  /\ stream = "detecting"
  /\ \/ stream' = "sampling" /\ UNCHANGED <<event, after>>
     \/ Sends(Notice("error"), "gone")
  /\ UNCHANGED <<daemon, made, channel, running, cancelled, paused, shown>>

(* SampleAll and the rates; localStream does not stop for ctx here.        *)
Collects ==
  /\ stream = "sampling" /\ now < MaxTime
  /\ now' = now + 1
  /\ \E keys \in SUBSET Series :
       Sends([time |-> now', keys |-> keys, status |-> "local"], "ticking")
  /\ made' = made \cup {event'}
  /\ UNCHANGED <<daemonUp, conn, wire, channel, running, cancelled, paused, shown>>

Ticks ==
  /\ stream = "ticking"
  /\ stream' = "sampling"
  /\ UNCHANGED <<daemon, event, after, made, channel, running, cancelled, paused, shown>>

(* send: whichever of the channel and ctx is ready.                        *)
HasRoom == Len(events) < ChanCap

Send ==
  /\ stream = "sending"
  /\ HasRoom
  /\ events' = Append(events, event)
  /\ stream' = after /\ event' = NoEvent
  /\ UNCHANGED <<daemon, after, made, readers, arrived, running, cancelled, paused, shown>>

GivesUp ==
  /\ stream = "sending" /\ cancelled
  /\ stream' = after /\ event' = NoEvent
  /\ UNCHANGED <<daemon, after, made, channel, running, cancelled, paused, shown>>

StreamStep ==
  \/ BadAddress \/ GoodAddress \/ Connects \/ DialFails \/ Reads \/ ReadFails \/ Leaves
  \/ Waited \/ Detects \/ Collects \/ Ticks \/ Send \/ GivesUp

-----------------------------------------------------------------------------
(* waitEvent: a goroutine takes one event.                                 *)
TakeEvent ==
  /\ readers > 0 /\ events # <<>>
  /\ readers' = readers - 1
  /\ events' = Tail(events)
  /\ arrived' = Append(arrived, Head(events))
  /\ UNCHANGED <<daemon, goroutine, running, cancelled, paused, shown>>

(* Update, for an event.                                                   *)
Trimmed(h) == IF Len(h) > HistorySize THEN SubSeq(h, Len(h) - HistorySize + 1, Len(h)) ELSE h

Ingest(e) ==
  IF e.time = NoTime \/ paused
  THEN /\ skipped' = IF e.time = NoTime THEN skipped ELSE skipped \cup {e.time}
       /\ UNCHANGED <<lastSample, values, history>>
  ELSE /\ lastSample' = e.time
       /\ values' = [k \in Series |-> IF k \in e.keys THEN e.time ELSE values[k]]
       /\ history' = [k \in Series |-> IF k \in e.keys THEN Trimmed(Append(history[k], e.time))
                                                       ELSE history[k]]
       /\ UNCHANGED skipped

(* Which commands Update returns: one waitEvent for each event handled.    *)
NextReaders_Running == IF paused THEN readers ELSE readers + 1
NextReaders == readers + 1

Update ==
  /\ running
  /\ \E i \in DOMAIN arrived :
       /\ status' = arrived[i].status
       /\ Ingest(arrived[i])
       /\ arrived' = RemoveAt(arrived, i)
  /\ readers' = NextReaders
  /\ UNCHANGED <<daemon, goroutine, events, running, cancelled, paused>>

(* Update, for the space bar.                                              *)
PressSpace_Waits ==
  /\ running
  /\ paused' = ~paused
  /\ readers' = IF readers < 2 THEN readers + 1 ELSE readers
  /\ UNCHANGED <<daemon, goroutine, events, arrived, running, cancelled, shown>>

PressSpace ==
  /\ running
  /\ paused' = ~paused
  /\ UNCHANGED <<daemon, goroutine, channel, running, cancelled, shown>>

(* q: the program ends and Run cancels the stream.                         *)
Quit ==
  /\ running
  /\ running' = FALSE /\ cancelled' = TRUE
  /\ UNCHANGED <<daemon, goroutine, channel, paused, shown>>

(* A signal cancels the context of both.                                   *)
Signal ==
  /\ ~cancelled
  /\ cancelled' = TRUE
  /\ UNCHANGED <<daemon, goroutine, channel, running, paused, shown>>

ProgramEnds ==
  /\ running /\ cancelled
  /\ running' = FALSE
  /\ UNCHANGED <<daemon, goroutine, channel, cancelled, paused, shown>>

Next ==
  \/ DaemonSamples \/ Breaks \/ DaemonComesOrGoes
  \/ StreamStep
  \/ TakeEvent \/ Update \/ PressSpace \/ Quit \/ Signal \/ ProgramEnds

Spec == Init /\ [][Next]_vars

(* The goroutines are scheduled, and Bubble Tea's loop handles messages.   *)
(* Nothing is fair about the daemon, the network or the user.              *)
FairSpec ==
  /\ Spec
  /\ WF_vars(StreamStep)
  /\ WF_vars(TakeEvent) /\ WF_vars(Update) /\ WF_vars(ProgramEnds)

-----------------------------------------------------------------------------
Messages == {Hello} \cup [time: 1..MaxTime, keys: SUBSET Series]
Samples == [time: 1..MaxTime, keys: SUBSET Series, status: {"connected", "local"}]
Statuses == {"none", "", "connecting", "connected", "reconnecting", "local", "error"}
Events == Samples \cup [time: {NoTime}, keys: {{}}, status: Statuses]

(* One event at a time is between the channel and Update.                  *)
TypeOK ==
  /\ now \in 0..MaxTime /\ daemonUp \in BOOLEAN
  /\ conn \in {"none", "open", "broken"}
  /\ wire \in Seq(Messages)
  /\ stream \in {"starting", "dialing", "reading", "waiting", "detecting", "sampling", "ticking",
                 "sending", "gone"}
  /\ event \in Events
  /\ after \in {"reading", "waiting", "detecting", "ticking", "gone"}
  /\ events \in Seq(Events) /\ Len(events) <= ChanCap
  /\ readers \in 0..1
  /\ arrived \in Seq(Events) /\ readers + Len(arrived) = 1
  /\ running \in BOOLEAN /\ cancelled \in BOOLEAN /\ paused \in BOOLEAN
  /\ status \in Statuses
  /\ lastSample \in 0..MaxTime
  /\ values \in [Series -> 0..MaxTime]
  /\ history \in [Series -> Seq(1..MaxTime)]
  /\ \A k \in Series : Len(history[k]) <= HistorySize
  /\ made \subseteq Samples /\ skipped \subseteq 1..MaxTime

(* Events on their way to Update, the oldest first.                        *)
Pipe == arrived \o events \o (IF stream = "sending" THEN <<event>> ELSE <<>>)

(* Samples that have reached Update, and those it did not ignore.          *)
Handled == {e \in made : \A i \in 1..Len(Pipe) : Pipe[i] # e}
Ingested(k) == {e.time : e \in {e \in Handled : e.time \notin skipped /\ k \in e.keys}}

(* h has the last HistorySize of these times, in order and once.           *)
LastOf(h, times) ==
  /\ \A i, j \in 1..Len(h) : i < j => h[i] < h[j]
  /\ \A i \in 1..Len(h) : h[i] \in times
  /\ \A t \in times :
       \/ \E i \in 1..Len(h) : h[i] = t
       \/ Len(h) = HistorySize /\ \A i \in 1..Len(h) : t < h[i]

Newest(v, times) == v \in times \cup {NoTime} /\ \A t \in times : t <= v

(* Update and stream: until the dashboard is left, every graph shows the   *)
(* last samples that were read or collected while it was not paused, all   *)
(* of them, once and in order, and every value is the newest of its        *)
(* series: reconnecting, falling back and pausing lose and reorder nothing.*)
GraphsShowWhatWasMade ==
  ~cancelled =>
    \A k \in Series : LastOf(history[k], Ingested(k)) /\ Newest(values[k], Ingested(k))

(* The status that fits where the stream is, or is going.                  *)
StatusFits(place, st) ==
  /\ place = "starting" => st = "connecting"
  /\ place = "dialing" => st \in {"connecting", "reconnecting"}
  /\ place = "reading" => st = "connected"
  /\ place = "waiting" => st = "reconnecting"
  /\ place \in {"detecting", "sampling", "ticking"} => st = "local"
  /\ place = "gone" => st \in {"", "error"}

(* The header's badge: once no event is on its way, it says what the       *)
(* stream is doing.                                                        *)
BadgeSaysWhatHappens ==
  ~cancelled /\ stream # "sending" /\ events = <<>> /\ arrived = <<>> => StatusFits(stream, status)

(* What it rests on: the newest event, wherever it is, fits.               *)
NewestStatus ==
  IF stream = "sending" THEN event.status
  ELSE IF events # <<>> THEN events[Len(events)].status
  ELSE IF arrived # <<>> THEN arrived[Len(arrived)].status
  ELSE status

Place == IF stream = "sending" THEN after ELSE stream

NewestFits == ~cancelled => StatusFits(Place, NewestStatus)

(* Samples are made later and later, wherever they are made; those on the  *)
(* way are newer than those that were handled, each newer than the one     *)
(* before it.                                                              *)
WireInv ==
  /\ Place \notin {"reading", "gone"} => conn = "none" /\ wire = <<>>
  /\ \A e \in made : e.time \in 1..now
  /\ \A i \in 1..Len(wire) : wire[i] # Hello =>
       /\ wire[i].time \in 1..now
       /\ \A e \in made : e.time < wire[i].time
  /\ \A i, j \in 1..Len(wire) : i < j /\ wire[i] # Hello => wire[i].time < wire[j].time

PipeInv ==
  /\ \A i \in 1..Len(Pipe) : Pipe[i].time # NoTime =>
       /\ Pipe[i] \in made
       /\ \A e \in Handled : e.time < Pipe[i].time
       /\ \A j \in 1..(i - 1) : Pipe[j].time < Pipe[i].time
  /\ \A t \in skipped : \E e \in Handled : e.time = t

OrderInv == WireInv /\ (~cancelled => PipeInv)

(* Update returns waitEvent for every event, paused or not: the stream     *)
(* never waits for the program for good.                                   *)
StreamNeverStalls == stream = "sending" ~> stream # "sending"

(* README.md, line 7: the dashboard "uses a running daemon when one is     *)
(* available and otherwise collects locally".  With a daemon that stays up *)
(* and answers in time, it would be connected in the end.  localStream     *)
(* never dials again, so one that starts after the dashboard is not used.  *)
UsesRunningDaemon ==
  <>[](daemonUp /\ ~cancelled /\ conn # "broken") => <>(conn = "open" \/ stream = "gone")
=============================================================================
