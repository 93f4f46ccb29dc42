--------------------------- MODULE TuiStreamProofs ---------------------------
(***************************************************************************)
(* What the terminal dashboard keeps for channels and graphs of every      *)
(* size: its types, with one event at a time between the channel and       *)
(* Update; the badge; and that the graphs show the samples that were made. *)
(***************************************************************************)
EXTENDS TuiStream, SequenceTheorems, TLAPS

(* What is taken from a queue, and what is left.                           *)
LEMMA HeadAndTail ==
  ASSUME NEW S, NEW s \in Seq(S), s # <<>>
  PROVE  /\ Head(s) \in S /\ Tail(s) \in Seq(S)
         /\ Len(Tail(s)) = Len(s) - 1 /\ Len(s) \in Nat \ {0}
         /\ Tail(s) = <<>> => Head(s) = s[Len(s)]
         /\ Tail(s) # <<>> => Tail(s)[Len(Tail(s))] = s[Len(s)]
<1>1. Head(s) \in S /\ Tail(s) \in Seq(S) /\ Len(Tail(s)) = Len(s) - 1 /\ Len(s) \in Nat \ {0}
  OBVIOUS
<1>2. Head(s) = s[1]
  OBVIOUS
<1>3. \A k \in 1..Len(s) - 1 : Tail(s)[k] = s[k + 1]
  OBVIOUS
<1>4. ASSUME Tail(s) = <<>> PROVE Head(s) = s[Len(s)]
  <2>1. Len(s) = 1
    BY <1>1, <1>4
  <2>. QED
    BY <2>1, <1>2
<1>5. ASSUME Tail(s) # <<>> PROVE Tail(s)[Len(Tail(s))] = s[Len(s)]
  <2>1. Len(s) - 1 \in 1..Len(s) - 1
    BY <1>1, <1>5, EmptySeq
  <2>. QED
    BY <2>1, <1>1, <1>3
<1>. QED
  BY <1>1, <1>4, <1>5

(* What is put at the end of a queue.                                      *)
LEMMA AtTheEnd ==
  ASSUME NEW S, NEW s \in Seq(S), NEW e \in S
  PROVE  /\ Append(s, e) \in Seq(S)
         /\ Len(Append(s, e)) = Len(s) + 1 /\ Len(s) \in Nat
         /\ Append(s, e) # <<>>
         /\ Append(s, e)[Len(Append(s, e))] = e
OBVIOUS

(* A graph keeps its last points.                                          *)
LEMMA TrimmedFits ==
  ASSUME NEW S, NEW h \in Seq(S), Len(h) <= HistorySize + 1
  PROVE  Trimmed(h) \in Seq(S) /\ Len(Trimmed(h)) <= HistorySize
BY TuiConstants DEF Trimmed

(* Update handles the one event that has arrived.                          *)
LEMMA OnlyOneArrives ==
  ASSUME NEW S, NEW s \in Seq(S), Len(s) <= 1, NEW i \in DOMAIN s
  PROVE  i = 1 /\ Len(s) = 1 /\ s[i] \in S /\ RemoveAt(s, i) = <<>>
<1>1. Len(s) = 1 /\ i = 1
  <2>1. Len(s) \in Nat /\ DOMAIN s = 1..Len(s)
    BY LenProperties
  <2>. QED
    BY <2>1
<1>2. s[i] \in S
  OBVIOUS
<1>3. SubSeq(s, 1, 0) = <<>> /\ SubSeq(s, 2, 1) = <<>>
  BY <1>1
<1>4. RemoveAt(s, 1) = SubSeq(s, 1, 0) \o SubSeq(s, 2, 1)
  BY <1>1 DEF RemoveAt
<1>5. RemoveAt(s, 1) = <<>>
  <2>1. <<>> \in Seq(S) /\ <<>> \o <<>> = <<>>
    OBVIOUS
  <2>. QED
    BY <1>3, <1>4, <2>1
<1>. QED
  BY <1>1, <1>2, <1>5

-----------------------------------------------------------------------------
(* Samples and notices are events.                                         *)
LEMMA WhatIsSent ==
  /\ \A st \in Statuses : Notice(st) \in Events
  /\ \A t \in 1..MaxTime, keys \in SUBSET Series, st \in {"connected", "local"} :
       [time |-> t, keys |-> keys, status |-> st] \in Events \cap Samples
BY DEF Notice, Events, Samples, NoTime

LEMMA StartsTyped == Init => TypeOK
<1> SUFFICES ASSUME Init PROVE TypeOK
  OBVIOUS
<1>1. event \in Events
  BY WhatIsSent DEF Init, NoEvent, Statuses
<1>2. <<>> \in Seq(Messages) /\ <<>> \in Seq(Events) /\ <<>> \in Seq(1..MaxTime)
  OBVIOUS
<1>3. history \in [Series -> Seq(1..MaxTime)] /\ \A k \in Series : Len(history[k]) <= HistorySize
  BY <1>2, TuiConstants DEF Init
<1>4. /\ events \in Seq(Events) /\ Len(events) <= ChanCap
      /\ readers \in 0..1 /\ arrived \in Seq(Events) /\ readers + Len(arrived) = 1
  <2>1. Len(<<>>) = 0
    OBVIOUS
  <2>. QED
    BY <1>2, <2>1, TuiConstants DEF Init
<1>5. values \in [Series -> 0..MaxTime] /\ lastSample \in 0..MaxTime /\ now \in 0..MaxTime
  BY TuiConstants DEF Init, NoTime
<1>6. wire \in Seq(Messages) /\ status \in Statuses
  BY <1>2 DEF Init, Statuses
<1>. QED
  BY <1>1, <1>3, <1>4, <1>5, <1>6 DEF Init, TypeOK

(* The daemon and the network.                                             *)
DaemonStep == DaemonSamples \/ Breaks \/ DaemonComesOrGoes

LEMMA DaemonStepTyped == TypeOK /\ DaemonStep => TypeOK'
<1> SUFFICES ASSUME TypeOK, DaemonStep PROVE TypeOK'
  OBVIOUS
<1> USE DEF TypeOK, goroutine, channel, shown
<1>1. CASE DaemonSamples
  <2>1. wire' \in Seq(Messages) /\ now' \in 0..MaxTime
    <3>1. PICK keys \in SUBSET Series : wire' = Append(wire, [time |-> now', keys |-> keys])
      BY <1>1 DEF DaemonSamples
    <3>2. now' \in 1..MaxTime
      BY <1>1, TuiConstants DEF DaemonSamples
    <3>3. [time |-> now', keys |-> keys] \in Messages
      BY <3>2 DEF Messages
    <3>. QED
      BY <3>1, <3>2, <3>3, AtTheEnd
  <2>. QED
    BY <1>1, <2>1 DEF DaemonSamples
<1>2. CASE Breaks
  BY <1>2 DEF Breaks
<1>3. CASE DaemonComesOrGoes
  BY <1>3 DEF DaemonComesOrGoes
<1>. QED
  BY <1>1, <1>2, <1>3 DEF DaemonStep

(* stream and localStream.                                                 *)
LEMMA StreamStepTyped == TypeOK /\ StreamStep => TypeOK'
<1> SUFFICES ASSUME TypeOK, StreamStep PROVE TypeOK'
  OBVIOUS
<1> USE DEF TypeOK, daemon, goroutine, channel, shown
<1>1. CASE GoodAddress \/ Leaves \/ Waited \/ Ticks
  BY <1>1 DEF GoodAddress, Leaves, Waited, Ticks
<1>2. CASE BadAddress
  BY <1>2, WhatIsSent DEF BadAddress, Sends, Statuses
<1>3. CASE Connects
  <2>1. <<Hello>> \in Seq(Messages)
    BY DEF Messages
  <2>. QED
    BY <1>3, <2>1, WhatIsSent DEF Connects, Sends, Statuses
<1>4. CASE DialFails
  BY <1>4, WhatIsSent DEF DialFails, Sends, Statuses
<1>5. CASE Reads
  <2>1. Head(wire) \in Messages /\ wire' \in Seq(Messages)
    BY <1>5, HeadAndTail DEF Reads
  <2>2. CASE Head(wire) = Hello
    BY <1>5, <2>1, <2>2 DEF Reads
  <2>3. CASE Head(wire) # Hello
    <3>1. Head(wire).time \in 1..MaxTime /\ Head(wire).keys \in SUBSET Series
      BY <2>1, <2>3 DEF Messages
    <3>2. event' \in Events \cap Samples /\ stream' = "sending" /\ after' = "reading"
      BY <1>5, <2>3, <3>1, WhatIsSent DEF Reads, Sends
    <3>3. made' \subseteq Samples
      BY <1>5, <2>3, <3>2 DEF Reads
    <3>. QED
      BY <1>5, <2>1, <3>2, <3>3 DEF Reads
  <2>. QED
    BY <2>2, <2>3
<1>6. CASE ReadFails
  <2>1. <<>> \in Seq(Messages)
    OBVIOUS
  <2>. QED
    BY <1>6, <2>1, WhatIsSent DEF ReadFails, Sends, Statuses
<1>7. CASE Detects
  BY <1>7, WhatIsSent DEF Detects, Sends, Statuses
<1>8. CASE Collects
  <2>1. now' \in 1..MaxTime
    BY <1>8, TuiConstants DEF Collects
  <2>2. event' \in Events \cap Samples /\ stream' = "sending" /\ after' = "ticking"
    BY <1>8, <2>1, WhatIsSent DEF Collects, Sends
  <2>3. made' \subseteq Samples
    BY <1>8, <2>2 DEF Collects
  <2>. QED
    BY <1>8, <2>1, <2>2, <2>3 DEF Collects
<1>9. CASE Send \/ GivesUp
  <2>1. NoEvent \in Events
    BY WhatIsSent DEF NoEvent, Statuses
  <2>2. CASE Send
    <3>1. events' \in Seq(Events) /\ Len(events') <= ChanCap
      BY <2>2, AtTheEnd, TuiConstants DEF Send, HasRoom
    <3>. QED
      BY <2>1, <2>2, <3>1 DEF Send
  <2>3. CASE GivesUp
    BY <2>1, <2>3 DEF GivesUp
  <2>. QED
    BY <1>9, <2>2, <2>3
<1>. QED
  BY <1>1, <1>2, <1>3, <1>4, <1>5, <1>6, <1>7, <1>8, <1>9 DEF StreamStep

(* The program.                                                            *)
LEMMA UpdateTyped == TypeOK /\ Update => TypeOK'
<1> SUFFICES ASSUME TypeOK, Update PROVE TypeOK'
  OBVIOUS
<1>1. arrived \in Seq(Events) /\ readers + Len(arrived) = 1 /\ Len(arrived) <= 1
  <2>1. /\ arrived \in Seq(Events) /\ readers + Len(arrived) = 1
        /\ readers \in 0..1
    BY DEF TypeOK
  <2>. QED
    BY <2>1, LenProperties
<1>2. PICK i \in DOMAIN arrived :
        status' = arrived[i].status /\ Ingest(arrived[i]) /\ arrived' = RemoveAt(arrived, i)
  BY DEF Update
<1>3. arrived[i] \in Events /\ arrived' = <<>> /\ Len(arrived) = 1 /\ readers' = 1
  BY <1>1, <1>2, OnlyOneArrives DEF Update, NextReaders
<1>4. arrived' \in Seq(Events) /\ readers' \in 0..1 /\ readers' + Len(arrived') = 1
  BY <1>3
<1>5. status' \in Statuses
  BY <1>2, <1>3 DEF Events, Samples, Statuses
<1>6. /\ lastSample' \in 0..MaxTime /\ values' \in [Series -> 0..MaxTime]
      /\ history' \in [Series -> Seq(1..MaxTime)]
      /\ \A k \in Series : Len(history'[k]) <= HistorySize
  <2>1. CASE arrived[i].time = NoTime \/ paused
    BY <1>2, <2>1 DEF Ingest, TypeOK
  <2>2. CASE arrived[i].time # NoTime /\ ~paused
    <3> DEFINE e == arrived[i]
    <3>1. e.time \in 1..MaxTime
      BY <1>3, <2>2 DEF Events, Samples
    <3>2. ASSUME NEW k \in Series
          PROVE  /\ Trimmed(Append(history[k], e.time)) \in Seq(1..MaxTime)
                 /\ Len(Trimmed(Append(history[k], e.time))) <= HistorySize
      <4>1. Append(history[k], e.time) \in Seq(1..MaxTime)
            /\ Len(Append(history[k], e.time)) <= HistorySize + 1
        BY <3>1, AtTheEnd, TuiConstants DEF TypeOK
      <4>. QED
        BY <4>1, TrimmedFits
    <3>3. lastSample' = e.time
          /\ values' = [k \in Series |-> IF k \in e.keys THEN e.time ELSE values[k]]
          /\ history' = [k \in Series |-> IF k \in e.keys THEN Trimmed(Append(history[k], e.time))
                                                           ELSE history[k]]
      BY <1>2, <2>2 DEF Ingest
    <3> HIDE DEF e
    <3>4. lastSample' \in 0..MaxTime /\ values' \in [Series -> 0..MaxTime]
      BY <3>1, <3>3 DEF TypeOK
    <3>. QED
      BY <3>2, <3>3, <3>4 DEF TypeOK
  <2>. QED
    BY <2>1, <2>2
<1>7. skipped' \subseteq 1..MaxTime
  <2>1. arrived[i].time = NoTime \/ arrived[i].time \in 1..MaxTime
    BY <1>3 DEF Events, Samples
  <2>. QED
    BY <1>2, <2>1 DEF Ingest, TypeOK
<1>. QED
  BY <1>4, <1>5, <1>6, <1>7 DEF Update, TypeOK, daemon, goroutine

ProgramStep == TakeEvent \/ PressSpace \/ Quit \/ Signal \/ ProgramEnds

LEMMA ProgramStepTyped == TypeOK /\ (ProgramStep \/ UNCHANGED vars) => TypeOK'
<1> SUFFICES ASSUME TypeOK, ProgramStep \/ UNCHANGED vars PROVE TypeOK'
  OBVIOUS
<1> USE DEF TypeOK, daemon, goroutine, channel, shown
<1>1. CASE TakeEvent
  <2>1. readers = 1 /\ Len(arrived) = 0
    <3>1. readers \in 0..1 /\ readers > 0 /\ readers + Len(arrived) = 1 /\ Len(arrived) \in Nat
      BY <1>1, LenProperties DEF TakeEvent
    <3>. QED
      BY <3>1
  <2>2. arrived' \in Seq(Events) /\ Len(arrived') = 1 /\ readers' = 0
    BY <1>1, <2>1, HeadAndTail, AtTheEnd DEF TakeEvent
  <2>3. events' \in Seq(Events) /\ Len(events') <= ChanCap
    BY <1>1, HeadAndTail, TuiConstants DEF TakeEvent
  <2>. QED
    BY <1>1, <2>2, <2>3 DEF TakeEvent
<1>2. CASE PressSpace
  BY <1>2 DEF PressSpace
<1>3. CASE Quit
  BY <1>3 DEF Quit
<1>4. CASE Signal
  BY <1>4 DEF Signal
<1>5. CASE ProgramEnds
  BY <1>5 DEF ProgramEnds
<1>6. CASE UNCHANGED vars
  BY <1>6 DEF vars
<1>. QED
  BY <1>1, <1>2, <1>3, <1>4, <1>5, <1>6 DEF ProgramStep

(* TypeOK: the channel and the graphs keep within their sizes, and there   *)
(* is always one event or one waitEvent between the channel and Update, so *)
(* that Update takes events in the order they were sent.                   *)
THEOREM TypeCorrect == Spec => []TypeOK
<1>1. TypeOK /\ [Next]_vars => TypeOK'
  BY DaemonStepTyped, StreamStepTyped, UpdateTyped, ProgramStepTyped
  DEF Next, DaemonStep, ProgramStep
<1>. QED
  BY <1>1, StartsTyped, PTL DEF Spec

-----------------------------------------------------------------------------
(* What each event says where it is sent, and what stays right after it.   *)
LEMMA WhatFits ==
  /\ StatusFits("starting", "connecting")
  /\ StatusFits("gone", "") /\ StatusFits("gone", "error")
  /\ StatusFits("reading", "connected") /\ StatusFits("waiting", "reconnecting")
  /\ StatusFits("detecting", "local") /\ StatusFits("ticking", "local")
  /\ \A st : /\ StatusFits("starting", st) => StatusFits("dialing", st)
             /\ StatusFits("waiting", st) => StatusFits("dialing", st)
             /\ StatusFits("detecting", st) => StatusFits("sampling", st)
             /\ StatusFits("ticking", st) => StatusFits("sampling", st)
BY DEF StatusFits

(* stream announces where it goes before it goes there.                    *)
LEMMA StreamStepFits ==
  ASSUME TypeOK, NewestFits, StreamStep PROVE NewestFits'
<1> SUFFICES ASSUME ~cancelled' PROVE StatusFits(Place, NewestStatus)'
  BY DEF NewestFits
<1>1. UNCHANGED <<cancelled, arrived, status>>
  <2>1. CASE BadAddress \/ GoodAddress
    BY <2>1 DEF BadAddress, GoodAddress, channel, shown
  <2>2. CASE Connects \/ DialFails
    BY <2>2 DEF Connects, DialFails, channel, shown
  <2>3. CASE Reads \/ ReadFails
    BY <2>3 DEF Reads, ReadFails, channel, shown
  <2>4. CASE Leaves \/ Waited \/ Detects
    BY <2>4 DEF Leaves, Waited, Detects, channel, shown
  <2>5. CASE Collects \/ Ticks
    BY <2>5 DEF Collects, Ticks, channel, shown
  <2>6. CASE Send \/ GivesUp
    BY <2>6 DEF Send, GivesUp, channel, shown
  <2>. QED
    BY <2>1, <2>2, <2>3, <2>4, <2>5, <2>6 DEF StreamStep
<1>2. ~cancelled /\ StatusFits(Place, NewestStatus)
  <2>1. ~cancelled
    BY <1>1
  <2>. QED
    BY <2>1 DEF NewestFits
<1>3. ASSUME NEW e, NEW next, Sends(e, next), StatusFits(next, e.status)
      PROVE  StatusFits(Place, NewestStatus)'
  BY <1>3 DEF Sends, Place, NewestStatus
<1>4. ASSUME stream # "sending", stream' # "sending", UNCHANGED <<events, arrived, status>>,
             StatusFits(stream, NewestStatus) => StatusFits(stream', NewestStatus)
      PROVE  StatusFits(Place, NewestStatus)'
  <2>1. Place = stream /\ Place' = stream' /\ NewestStatus' = NewestStatus
    BY <1>4 DEF Place, NewestStatus
  <2>. QED
    BY <1>2, <1>4, <2>1
<1>5. CASE BadAddress
  BY <1>3, <1>5, WhatFits DEF BadAddress, Notice
<1>6. CASE GoodAddress
  <2>1. stream = "starting" /\ stream' = "dialing" /\ UNCHANGED <<events, arrived, status>>
    BY <1>2, <1>6 DEF GoodAddress, channel, shown
  <2>. QED
    BY <1>4, <2>1, WhatFits
<1>7. CASE Connects
  BY <1>3, <1>7, WhatFits DEF Connects, Notice
<1>8. CASE DialFails
  BY <1>3, <1>8, WhatFits DEF DialFails, Notice
<1>9. CASE Reads
  <2>1. CASE Head(wire) = Hello
    BY <1>4, <1>9, <2>1 DEF Reads, goroutine, channel, shown
  <2>2. CASE Head(wire) # Hello
    BY <1>3, <1>9, <2>2, WhatFits DEF Reads
  <2>. QED
    BY <2>1, <2>2
<1>10. CASE ReadFails
  BY <1>3, <1>10, WhatFits DEF ReadFails, Notice
<1>11. CASE Leaves \/ GivesUp
  BY <1>2, <1>11 DEF Leaves, GivesUp
<1>12. CASE Waited
  <2>1. stream = "waiting" /\ stream' = "dialing" /\ UNCHANGED <<events, arrived, status>>
    BY <1>2, <1>12 DEF Waited, channel, shown
  <2>. QED
    BY <1>4, <2>1, WhatFits
<1>13. CASE Detects
  <2>1. CASE stream' = "sampling"
    BY <1>4, <1>13, <2>1, WhatFits DEF Detects, Sends, channel, shown
  <2>2. CASE Sends(Notice("error"), "gone")
    BY <1>3, <2>2, WhatFits DEF Notice
  <2>. QED
    BY <1>13, <2>1, <2>2 DEF Detects
<1>14. CASE Collects
  BY <1>3, <1>14, WhatFits DEF Collects
<1>15. CASE Ticks
  BY <1>4, <1>15, WhatFits DEF Ticks, channel, shown
<1>16. CASE Send
  <2>1. stream' = after /\ after # "sending" /\ after' = after
    BY <1>16 DEF Send, TypeOK
  <2>2. event \in Events /\ events \in Seq(Events) /\ events' = Append(events, event)
    BY <1>16 DEF Send, TypeOK
  <2>3. events' # <<>> /\ events'[Len(events')] = event
    BY <2>2, AtTheEnd
  <2>4. Place = after /\ NewestStatus = event.status
    BY <1>16 DEF Send, Place, NewestStatus
  <2>5. Place' = after /\ NewestStatus' = event.status
    BY <2>1, <2>3 DEF Place, NewestStatus
  <2>. QED
    BY <1>2, <2>4, <2>5
<1>. QED
  BY <1>5, <1>6, <1>7, <1>8, <1>9, <1>10, <1>11, <1>12, <1>13, <1>14, <1>15, <1>16 DEF StreamStep

(* The program's steps move the newest event on and change no status.      *)
LEMMA ProgramStepFits ==
  ASSUME TypeOK, NewestFits, DaemonStep \/ Update \/ ProgramStep \/ UNCHANGED vars
  PROVE  NewestFits'
<1>1. UNCHANGED <<stream, event, after>>
  BY DEF DaemonStep, DaemonSamples, Breaks, DaemonComesOrGoes, Update, ProgramStep, TakeEvent,
         PressSpace, Quit, Signal, ProgramEnds, goroutine, vars
<1>2. cancelled => cancelled'
  BY DEF DaemonStep, DaemonSamples, Breaks, DaemonComesOrGoes, Update, ProgramStep, TakeEvent,
         PressSpace, Quit, Signal, ProgramEnds, vars
<1>3. NewestStatus' = NewestStatus
  <2>1. CASE TakeEvent
    <3>1. arrived = <<>> /\ readers = 1
      <4>1. readers \in 0..1 /\ readers > 0 /\ readers + Len(arrived) = 1 /\ Len(arrived) \in Nat
        BY <2>1, LenProperties DEF TakeEvent, TypeOK
      <4>2. Len(arrived) = 0 /\ readers = 1 /\ arrived \in Seq(Events)
        BY <4>1 DEF TypeOK
      <4>. QED
        BY <4>2, EmptySeq
    <3>2. events \in Seq(Events) /\ events # <<>> /\ events' = Tail(events)
      BY <2>1 DEF TakeEvent, TypeOK
    <3>3. Head(events) \in Events /\ arrived \in Seq(Events) /\ arrived' = Append(arrived, Head(events))
      BY <2>1, <3>2, HeadAndTail DEF TakeEvent, TypeOK
    <3>4. arrived' # <<>> /\ arrived'[Len(arrived')] = Head(events)
      BY <3>3, AtTheEnd
    <3>5. /\ events' = <<>> => Head(events) = events[Len(events)]
          /\ events' # <<>> => events'[Len(events')] = events[Len(events)]
      BY <3>2, HeadAndTail
    <3>6. status' = status
      BY <2>1 DEF TakeEvent, shown
    <3>. QED
      BY <1>1, <3>2, <3>4, <3>5, <3>6 DEF NewestStatus
  <2>2. CASE Update
    <3>1. PICK i \in DOMAIN arrived : status' = arrived[i].status /\ arrived' = RemoveAt(arrived, i)
      BY <2>2 DEF Update
    <3>2. arrived \in Seq(Events) /\ Len(arrived) <= 1
      <4>1. readers \in 0..1 /\ readers + Len(arrived) = 1 /\ arrived \in Seq(Events)
        BY DEF TypeOK
      <4>. QED
        BY <4>1, LenProperties
    <3>3. i = 1 /\ Len(arrived) = 1 /\ arrived' = <<>>
      BY <3>1, <3>2, OnlyOneArrives
    <3>4. arrived # <<>>
      BY <3>1, <3>3
    <3>5. events' = events
      BY <2>2 DEF Update
    <3>. QED
      BY <1>1, <3>1, <3>3, <3>4, <3>5 DEF NewestStatus
  <2>3. CASE DaemonStep \/ PressSpace \/ Quit \/ Signal \/ ProgramEnds \/ UNCHANGED vars
    <3>1. UNCHANGED <<events, arrived, status>>
      BY <2>3 DEF DaemonStep, DaemonSamples, Breaks, DaemonComesOrGoes, PressSpace, Quit, Signal,
                  ProgramEnds, channel, shown, vars
    <3>. QED
      BY <1>1, <3>1 DEF NewestStatus
  <2>. QED
    BY <2>1, <2>2, <2>3 DEF ProgramStep
<1>4. Place' = Place
  BY <1>1 DEF Place
<1>. QED
  BY <1>2, <1>3, <1>4 DEF NewestFits

LEMMA StartsFitting == Init => NewestFits
BY WhatFits DEF Init, NewestFits, Place, NewestStatus

(* BadgeSaysWhatHappens: once no event is on its way, the badge says what  *)
(* the stream is doing, because the newest event always does.              *)
THEOREM BadgeIsRight == Spec => []BadgeSaysWhatHappens
<1>1. TypeOK /\ NewestFits /\ [Next]_vars => NewestFits'
  BY StreamStepFits, ProgramStepFits DEF Next, DaemonStep, ProgramStep
<1>2. NewestFits => BadgeSaysWhatHappens
  BY DEF NewestFits, BadgeSaysWhatHappens, Place, NewestStatus
<1>. QED
  BY <1>1, <1>2, StartsFitting, TypeCorrect, PTL DEF Spec

-----------------------------------------------------------------------------
(* The events on their way.  What the stream sends goes to the end of the  *)
(* pipe, what Update takes comes from its front, and the channel and       *)
(* waitEvent only pass events on.                                          *)
LEMMA PipeTyped == TypeOK => Pipe \in Seq(Events)
<1> SUFFICES ASSUME TypeOK PROVE Pipe \in Seq(Events)
  OBVIOUS
<1>1. arrived \in Seq(Events) /\ events \in Seq(Events) /\ event \in Events
  BY DEF TypeOK
<1>2. (IF stream = "sending" THEN <<event>> ELSE <<>>) \in Seq(Events)
  BY <1>1
<1>. QED
  BY <1>1, <1>2, ConcatProperties DEF Pipe

LEMMA PipeGrows ==
  ASSUME TypeOK, stream # "sending", NEW e \in Events, NEW next, Sends(e, next), UNCHANGED channel
  PROVE  Pipe' = Append(Pipe, e)
<1>1. arrived \in Seq(Events) /\ events \in Seq(Events)
  BY DEF TypeOK
<1>2. arrived \o events \in Seq(Events) /\ <<>> \in Seq(Events)
  BY <1>1, ConcatProperties
<1>3. Pipe = arrived \o events
  BY <1>2, ConcatEmptySeq DEF Pipe
<1>4. Pipe' = (arrived \o events) \o <<e>>
  BY DEF Pipe, Sends, channel
<1>. QED
  BY <1>2, <1>3, <1>4, AppendIsConcat

LEMMA SendMoves == TypeOK /\ Send => Pipe' = Pipe
<1> SUFFICES ASSUME TypeOK, Send PROVE Pipe' = Pipe
  OBVIOUS
<1>1. /\ arrived \in Seq(Events) /\ events \in Seq(Events) /\ event \in Events
      /\ after # "sending"
  BY DEF TypeOK
<1>2. arrived' = arrived /\ events' = Append(events, event) /\ stream' # "sending"
  BY <1>1 DEF Send
<1>3. /\ <<event>> \in Seq(Events) /\ events' = events \o <<event>>
      /\ arrived \o events' \in Seq(Events)
  BY <1>1, <1>2, AppendIsConcat, ConcatProperties
<1>4. Pipe' = arrived \o (events \o <<event>>)
  BY <1>2, <1>3, ConcatEmptySeq DEF Pipe
<1>5. Pipe = (arrived \o events) \o <<event>>
  BY DEF Pipe, Send
<1>. QED
  BY <1>1, <1>3, <1>4, <1>5, ConcatAssociative

LEMMA TakeMoves == TypeOK /\ TakeEvent => Pipe' = Pipe
<1> SUFFICES ASSUME TypeOK, TakeEvent PROVE Pipe' = Pipe
  OBVIOUS
<1>1. arrived = <<>>
  <2>1. readers \in 0..1 /\ readers > 0 /\ readers + Len(arrived) = 1 /\ Len(arrived) \in Nat
    BY LenProperties DEF TakeEvent, TypeOK
  <2>2. Len(arrived) = 0 /\ arrived \in Seq(Events)
    BY <2>1 DEF TypeOK
  <2>. QED
    BY <2>2, EmptySeq
<1>2. events \in Seq(Events) /\ events # <<>>
  BY DEF TakeEvent, TypeOK
<1>3. arrived' \o events' = events
  <2>1. arrived' = <<Head(events)>> /\ events' = Tail(events)
    BY <1>1 DEF TakeEvent
  <2>2. <<Head(events)>> \o Tail(events) = events
    BY <1>2
  <2>. QED
    BY <2>1, <2>2
<1>4. arrived \o events = events
  BY <1>1, <1>2, ConcatEmptySeq
<1>5. stream' = stream /\ event' = event
  BY DEF TakeEvent, goroutine
<1>. QED
  BY <1>3, <1>4, <1>5 DEF Pipe

LEMMA UpdateTakes ==
  ASSUME TypeOK, Update
  PROVE  \E e \in Events : /\ Pipe = <<e>> \o Pipe' /\ Pipe' \in Seq(Events)
                           /\ Ingest(e)
<1>1. arrived \in Seq(Events) /\ Len(arrived) <= 1
  <2>1. readers \in 0..1 /\ readers + Len(arrived) = 1 /\ arrived \in Seq(Events)
    BY DEF TypeOK
  <2>. QED
    BY <2>1, LenProperties
<1>2. PICK i \in DOMAIN arrived : Ingest(arrived[i]) /\ arrived' = RemoveAt(arrived, i)
  BY DEF Update
<1>3. i = 1 /\ Len(arrived) = 1 /\ arrived' = <<>> /\ arrived[i] \in Events
  BY <1>1, <1>2, OnlyOneArrives
<1>4. arrived = <<arrived[i]>>
  BY <1>1, <1>3
<1>5. events' = events /\ stream' = stream /\ event' = event /\ events \in Seq(Events)
  BY DEF Update, goroutine, TypeOK
<1> DEFINE last == IF stream = "sending" THEN <<event>> ELSE <<>>
<1>6. last \in Seq(Events) /\ last' = last
  BY <1>5 DEF TypeOK
<1>7. Pipe = (arrived \o events) \o last /\ Pipe' = (arrived' \o events') \o last'
  BY DEF Pipe
<1> HIDE DEF last
<1>8. Pipe' = events \o last /\ events \o last \in Seq(Events)
  BY <1>3, <1>5, <1>6, <1>7, ConcatEmptySeq, ConcatProperties
<1>9. (arrived \o events) \o last = arrived \o (events \o last)
  BY <1>1, <1>5, <1>6, ConcatAssociative
<1>. QED
  BY <1>2, <1>3, <1>4, <1>7, <1>8, <1>9

(* The other steps.                                                        *)
LEMMA PipeStays ==
  ASSUME UNCHANGED <<events, arrived>>, stream # "sending", stream' # "sending"
  PROVE  Pipe' = Pipe
BY DEF Pipe

-----------------------------------------------------------------------------
(* Times.  What the daemon or the stream makes is newer than all there is. *)
LEMMA StartsOrdered == Init => OrderInv
<1> SUFFICES ASSUME Init PROVE OrderInv
  OBVIOUS
<1>1. Pipe = <<>> /\ Len(Pipe) = 0
  <2>1. <<>> \o <<>> = <<>> /\ Len(<<>>) = 0
    OBVIOUS
  <2>. QED
    BY <2>1 DEF Init, Pipe
<1>2. Len(wire) = 0
  BY DEF Init
<1>. QED
  BY <1>1, <1>2 DEF Init, OrderInv, WireInv, PipeInv, Place

LEMMA WireStep == TypeOK /\ WireInv /\ [Next]_vars => WireInv'
<1> SUFFICES ASSUME TypeOK, WireInv, [Next]_vars PROVE WireInv'
  OBVIOUS
<1>a. /\ wire \in Seq(Messages) /\ Len(wire) \in Nat /\ now \in Nat
      /\ after # "sending"
  BY DEF TypeOK
<1> USE DEF WireInv
<1>1. CASE DaemonSamples
  <2>1. PICK keys \in SUBSET Series : wire' = Append(wire, [time |-> now', keys |-> keys])
    BY <1>1 DEF DaemonSamples
  <2> DEFINE m == [time |-> now', keys |-> keys]
  <2>2. now' = now + 1 /\ m.time = now' /\ made' = made /\ conn = "open" /\ Place' = Place
    BY <1>1 DEF DaemonSamples, goroutine, Place
  <2>3. m \in Messages
    BY <1>1, <2>2, <1>a, TuiConstants DEF DaemonSamples, Messages
  <2>4. /\ Len(wire') = Len(wire) + 1 /\ wire'[Len(wire) + 1] = m
        /\ \A i \in 1..Len(wire) : wire'[i] = wire[i]
    BY <2>1, <2>3, <1>a
  <2>5. Hello.time = 0
    BY DEF Hello, NoTime
  <2> HIDE DEF m
  <2>6. \A e \in made : e.time \in 1..now' /\ e.time < now'
    BY <1>a, <2>2
  <2>7. \A i \in 1..Len(wire') : wire'[i] # Hello =>
          /\ wire'[i].time \in 1..now'
          /\ \A e \in made : e.time < wire'[i].time
    BY <1>a, <2>2, <2>4, <2>6
  <2>8. \A i, j \in 1..Len(wire') : i < j /\ wire'[i] # Hello => wire'[i].time < wire'[j].time
    BY <1>a, <2>2, <2>4
  <2>. QED
    BY <2>2, <2>6, <2>7, <2>8
<1>2. CASE Breaks
  BY <1>2 DEF Breaks, goroutine, Place
<1>3. CASE DaemonComesOrGoes \/ Update \/ ProgramStep \/ UNCHANGED vars
  <2>1. UNCHANGED <<now, conn, wire, made, stream, after>>
    BY <1>3 DEF DaemonComesOrGoes, Update, ProgramStep, TakeEvent, PressSpace, Quit, Signal,
                ProgramEnds, daemon, goroutine, vars
  <2>. QED
    BY <2>1 DEF Place
<1>4. CASE BadAddress \/ GoodAddress \/ DialFails \/ Leaves \/ Waited \/ Detects \/ Ticks
           \/ Send \/ GivesUp
  <2>1. UNCHANGED <<now, conn, wire, made>>
    BY <1>4 DEF BadAddress, GoodAddress, DialFails, Leaves, Waited, Detects, Ticks, Send, GivesUp,
                daemon
  <2>2. Place' \notin {"reading", "gone"} => Place \notin {"reading", "gone"}
    <3>1. CASE BadAddress \/ GoodAddress \/ DialFails \/ Leaves \/ Waited
      BY <3>1 DEF BadAddress, GoodAddress, DialFails, Leaves, Waited, Sends, Place
    <3>2. CASE Detects \/ Ticks
      BY <3>2 DEF Detects, Ticks, Sends, Place
    <3>3. CASE Send \/ GivesUp
      BY <1>a, <3>3 DEF Send, GivesUp, Place
    <3>. QED
      BY <1>4, <3>1, <3>2, <3>3
  <2>. QED
    BY <2>1, <2>2
<1>5. CASE Connects
  <2>1. wire' = <<Hello>> /\ UNCHANGED <<now, made>> /\ Place' = "reading"
    BY <1>5 DEF Connects, Sends, Place
  <2>2. Len(<<Hello>>) = 1 /\ <<Hello>>[1] = Hello
    OBVIOUS
  <2>. QED
    BY <2>1, <2>2
<1>6. CASE ReadFails
  <2>1. wire' = <<>> /\ conn' = "none" /\ UNCHANGED <<now, made>>
    BY <1>6 DEF ReadFails
  <2>2. Len(<<>>) = 0
    OBVIOUS
  <2>. QED
    BY <2>1, <2>2
<1>7. CASE Reads
  <2>1. /\ wire # <<>> /\ wire' = Tail(wire) /\ UNCHANGED <<now, conn>>
        /\ stream = "reading"
    BY <1>7 DEF Reads
  <2>2. /\ Len(wire') = Len(wire) - 1 /\ Head(wire) = wire[1] /\ Len(wire) >= 1
        /\ \A i \in 1..Len(wire') : wire'[i] = wire[i + 1]
    BY <1>a, <2>1
  <2>3. Place' = "reading"
    BY <1>7, <2>1 DEF Reads, Sends, goroutine, Place
  <2>4. /\ \A i \in 1..Len(wire') : wire'[i] # Hello => wire'[i].time \in 1..now'
        /\ \A i, j \in 1..Len(wire') : i < j /\ wire'[i] # Hello => wire'[i].time < wire'[j].time
    BY <1>a, <2>1, <2>2
  <2>5. CASE Head(wire) = Hello
    <3>1. made' = made
      BY <1>7, <2>5 DEF Reads, goroutine
    <3>. QED
      BY <1>a, <2>1, <2>2, <2>3, <2>4, <3>1
  <2>6. CASE Head(wire) # Hello
    <3>1. made' = made \cup {event'} /\ event'.time = wire[1].time
      BY <1>7, <2>2, <2>6 DEF Reads, Sends
    <3>2. wire[1].time \in 1..now /\ \A e \in made : e.time < wire[1].time
      BY <1>a, <2>2, <2>6
    <3>3. \A i \in 1..Len(wire') : wire[1].time < wire'[i].time
      BY <1>a, <2>2, <2>6
    <3>4. \A i \in 1..Len(wire') : wire'[i] # Hello => \A e \in made : e.time < wire'[i].time
      BY <1>a, <2>2
    <3>. QED
      BY <2>1, <2>3, <2>4, <3>1, <3>2, <3>3, <3>4
  <2>. QED
    BY <2>5, <2>6
<1>8. CASE Collects
  <2>1. stream = "sampling" /\ now' = now + 1 /\ UNCHANGED <<conn, wire>>
    BY <1>8 DEF Collects
  <2>2. wire = <<>> /\ conn = "none"
    BY <2>1 DEF Place
  <2>3. made' = made \cup {event'} /\ event'.time = now'
    BY <1>8 DEF Collects, Sends
  <2>4. \A e \in made' : e.time \in 1..now'
    BY <1>a, <2>1, <2>3
  <2>5. Len(wire') = 0
    BY <2>1, <2>2
  <2>. QED
    BY <2>1, <2>2, <2>4, <2>5
<1>. QED
  BY <1>1, <1>2, <1>3, <1>4, <1>5, <1>6, <1>7, <1>8 DEF Next, StreamStep, ProgramStep

-----------------------------------------------------------------------------
(* The order on the way to Update.  An event that is sent, a notice or the *)
(* newest sample, goes behind the others.                                  *)
LEMMA SentInOrder ==
  ASSUME TypeOK, WireInv, PipeInv, NEW e \in Events, Pipe' = Append(Pipe, e), skipped' = skipped,
         \/ e.time = NoTime /\ made' = made
         \/ e.time # NoTime /\ made' = made \cup {e} /\ \A f \in made : f.time < e.time
  PROVE  PipeInv' /\ Handled' = Handled
<1>1. Pipe \in Seq(Events) /\ Len(Pipe) \in Nat
  BY PipeTyped
<1>2. /\ Len(Pipe') = Len(Pipe) + 1 /\ Pipe'[Len(Pipe) + 1] = e
      /\ \A i \in 1..Len(Pipe) : Pipe'[i] = Pipe[i]
  BY <1>1
<1>3. \A f \in made : f.time \in Nat \ {0}
  BY DEF WireInv, TypeOK
<1>4. Handled' = Handled
  <2>1. e \notin made
    BY <1>3 DEF NoTime
  <2>2. \A f \in made' : (\A i \in 1..Len(Pipe') : Pipe'[i] # f)
                          <=> f # e /\ (\A i \in 1..Len(Pipe) : Pipe[i] # f)
    BY <1>1, <1>2
  <2>3. \A f : f \in made' /\ f # e <=> f \in made
    BY <2>1
  <2>. QED
    BY <2>2, <2>3 DEF Handled
<1>5. Handled \subseteq made
  BY DEF Handled
<1>6. ASSUME NEW i \in 1..Len(Pipe'), Pipe'[i].time # NoTime
      PROVE  /\ Pipe'[i] \in made'
             /\ \A f \in Handled : f.time < Pipe'[i].time
             /\ \A j \in 1..(i - 1) : Pipe'[j].time < Pipe'[i].time
  <2>1. CASE i \in 1..Len(Pipe)
    <3>1. Pipe'[i] = Pipe[i] /\ \A j \in 1..(i - 1) : Pipe'[j] = Pipe[j]
      BY <1>1, <1>2, <2>1
    <3>. QED
      BY <1>6, <2>1, <3>1 DEF PipeInv
  <2>2. CASE i = Len(Pipe) + 1
    <3>1. Pipe'[i] = e /\ e.time # NoTime
      BY <1>2, <1>6, <2>2
    <3>2. e \in made' /\ \A f \in made : f.time < e.time
      BY <3>1
    <3>3. ASSUME NEW j \in 1..(i - 1) PROVE Pipe'[j].time < e.time
      <4>1. j \in 1..Len(Pipe) /\ Pipe'[j] = Pipe[j]
        BY <1>1, <1>2, <2>2
      <4>2. CASE Pipe[j].time = NoTime
        <5>1. e.time \in Nat \ {0}
          BY <3>1, TuiConstants DEF Events, Samples, NoTime
        <5>. QED
          BY <4>1, <4>2, <5>1 DEF NoTime
      <4>3. CASE Pipe[j].time # NoTime
        BY <3>2, <4>1, <4>3 DEF PipeInv
      <4>. QED
        BY <4>2, <4>3
    <3>. QED
      BY <1>5, <3>1, <3>2, <3>3
  <2>. QED
    BY <1>1, <1>2, <2>1, <2>2
<1>7. \A t \in skipped' : \E f \in Handled : f.time = t
  BY DEF PipeInv
<1>. QED
  BY <1>4, <1>6, <1>7 DEF PipeInv

(* An event that Update takes is older than all that are behind it.        *)
LEMMA TakenInOrder ==
  ASSUME TypeOK, WireInv, PipeInv, NEW e \in Events,
         Pipe = <<e>> \o Pipe', Pipe' \in Seq(Events), made' = made,
         skipped' = skipped \/ (skipped' = skipped \cup {e.time} /\ e.time # NoTime)
  PROVE  /\ PipeInv'
         /\ e.time = NoTime => Handled' = Handled
         /\ e.time # NoTime => /\ Handled' = Handled \cup {e} /\ e \in made
                               /\ \A f \in Handled : f.time < e.time
                               /\ e.time \notin skipped
<1>1. /\ Len(Pipe) = Len(Pipe') + 1 /\ Len(Pipe') \in Nat
      /\ Pipe[1] = e
      /\ \A i \in 1..Len(Pipe') : Pipe'[i] = Pipe[i + 1]
  BY ConcatProperties
<1>2. \A f \in made : f.time \in Nat \ {0}
  BY DEF WireInv, TypeOK
<1>3. \A i \in 1..Len(Pipe) : i = 1 \/ i - 1 \in 1..Len(Pipe')
  BY <1>1
<1>4. \A f \in made : (\A i \in 1..Len(Pipe) : Pipe[i] # f)
                       <=> f # e /\ (\A i \in 1..Len(Pipe') : Pipe'[i] # f)
  <2>. SUFFICES ASSUME NEW f \in made
                PROVE  (\A i \in 1..Len(Pipe) : Pipe[i] # f)
                         <=> f # e /\ (\A i \in 1..Len(Pipe') : Pipe'[i] # f)
    OBVIOUS
  <2>1. ASSUME \A i \in 1..Len(Pipe) : Pipe[i] # f
        PROVE  f # e /\ (\A i \in 1..Len(Pipe') : Pipe'[i] # f)
    BY <1>1, <2>1
  <2>2. ASSUME f # e, \A i \in 1..Len(Pipe') : Pipe'[i] # f, NEW i \in 1..Len(Pipe)
        PROVE  Pipe[i] # f
    BY <1>1, <1>3, <2>2
  <2>. QED
    BY <2>1, <2>2
<1>5. e.time = NoTime => Handled' = Handled
  <2>. SUFFICES ASSUME e.time = NoTime PROVE Handled' = Handled
    OBVIOUS
  <2>1. \A f \in made : f # e
    BY <1>2 DEF NoTime
  <2>. QED
    BY <1>4, <2>1 DEF Handled
<1>6. ASSUME e.time # NoTime
      PROVE  /\ Handled' = Handled \cup {e} /\ e \in made
             /\ \A f \in Handled : f.time < e.time
             /\ e.time \notin skipped
  <2>1. 1 \in 1..Len(Pipe)
    BY <1>1
  <2>2. e \in made /\ \A f \in Handled : f.time < e.time
    BY <1>1, <1>6, <2>1 DEF PipeInv
  <2>3. \A i \in 1..Len(Pipe') : Pipe'[i] # e
    <3>. SUFFICES ASSUME NEW i \in 1..Len(Pipe'), Pipe'[i] = e PROVE FALSE
      OBVIOUS
    <3>1. i + 1 \in 1..Len(Pipe) /\ Pipe[i + 1] = e /\ 1 \in 1..((i + 1) - 1)
      BY <1>1
    <3>2. Pipe[1].time < Pipe[i + 1].time
      BY <1>6, <3>1 DEF PipeInv
    <3>3. e.time < e.time /\ e.time \in Nat
      BY <1>1, <1>2, <2>2, <3>1, <3>2
    <3>. QED
      BY <3>3
  <2>4. Handled' = Handled \cup {e}
    BY <1>4, <2>2, <2>3 DEF Handled
  <2>5. e.time \notin skipped
    <3>. SUFFICES ASSUME e.time \in skipped PROVE FALSE
      OBVIOUS
    <3>1. PICK f \in Handled : f.time = e.time
      BY DEF PipeInv
    <3>. QED
      BY <1>2, <2>2, <3>1
  <2>. QED
    BY <2>2, <2>4, <2>5
<1>7. ASSUME NEW i \in 1..Len(Pipe'), Pipe'[i].time # NoTime
      PROVE  /\ Pipe'[i] \in made'
             /\ \A f \in Handled' : f.time < Pipe'[i].time
             /\ \A j \in 1..(i - 1) : Pipe'[j].time < Pipe'[i].time
  <2>1. i + 1 \in 1..Len(Pipe) /\ Pipe'[i] = Pipe[i + 1] /\ 1 \in 1..((i + 1) - 1)
    BY <1>1
  <2>2. Pipe[i + 1] \in made /\ \A f \in Handled : f.time < Pipe[i + 1].time
    BY <1>7, <2>1 DEF PipeInv
  <2>3. \A j \in 1..((i + 1) - 1) : Pipe[j].time < Pipe[i + 1].time
    BY <1>7, <2>1 DEF PipeInv
  <2>4. e.time < Pipe[i + 1].time
    BY <1>1, <2>1, <2>3
  <2>5. \A j \in 1..(i - 1) : Pipe'[j].time < Pipe'[i].time
    <3>. SUFFICES ASSUME NEW j \in 1..(i - 1) PROVE Pipe'[j].time < Pipe'[i].time
      OBVIOUS
    <3>1. j \in 1..Len(Pipe') /\ j + 1 \in 1..((i + 1) - 1)
      BY <1>1
    <3>. QED
      BY <1>1, <2>1, <2>3, <3>1
  <2>. QED
    BY <1>5, <1>6, <2>1, <2>2, <2>4, <2>5
<1>8. \A t \in skipped' : \E f \in Handled' : f.time = t
  BY <1>5, <1>6 DEF PipeInv
<1>. QED
  BY <1>5, <1>6, <1>7, <1>8 DEF PipeInv

-----------------------------------------------------------------------------
(* The graphs.  A graph that had the last points of its series has them    *)
(* still when a newer one is added and it is trimmed.                      *)
LEMMA TrimmedIsLast ==
  ASSUME NEW h \in Seq(Nat), Len(h) <= HistorySize, NEW times \in SUBSET Nat, LastOf(h, times),
         NEW t \in Nat, \A u \in times : u < t
  PROVE  LastOf(Trimmed(Append(h, t)), times \cup {t})
<1> DEFINE g == Append(h, t)
           n == Len(h)
<1>1. n \in Nat /\ HistorySize \in Nat /\ HistorySize >= 1 /\ n <= HistorySize
  BY TuiConstants
<1>2. /\ g \in Seq(Nat) /\ Len(g) = n + 1 /\ g[n + 1] = t
      /\ \A i \in 1..n : g[i] = h[i] /\ h[i] \in Nat
  OBVIOUS
<1>3. /\ \A i, j \in 1..n : i < j => h[i] < h[j]
      /\ \A i \in 1..n : h[i] \in times /\ h[i] < t
      /\ \A u \in times : \/ \E i \in 1..n : h[i] = u
                          \/ n = HistorySize /\ \A i \in 1..n : u < h[i]
  BY DEF LastOf
<1> HIDE DEF g, n
<1>4. /\ \A i, j \in 1..(n + 1) : i < j => g[i] < g[j]
      /\ \A i \in 1..(n + 1) : g[i] \in times \cup {t}
  BY <1>1, <1>2, <1>3
<1>5. CASE n + 1 <= HistorySize
  <2>1. Trimmed(g) = g
    BY <1>1, <1>2, <1>5 DEF Trimmed
  <2>2. \A u \in times \cup {t} : \E i \in 1..(n + 1) : g[i] = u
    <3>1. \E i \in 1..(n + 1) : g[i] = t
      BY <1>1, <1>2
    <3>2. ASSUME NEW u \in times PROVE \E i \in 1..(n + 1) : g[i] = u
      <4>1. PICK i \in 1..n : h[i] = u
        BY <1>1, <1>3, <1>5
      <4>2. i \in 1..(n + 1) /\ g[i] = u
        BY <1>1, <1>2, <4>1
      <4>. QED
        BY <4>2
    <3>. QED
      BY <3>1, <3>2
  <2>. QED
    BY <1>2, <1>4, <2>1, <2>2 DEF LastOf, g
<1>6. CASE n = HistorySize
  <2> DEFINE s == SubSeq(g, 2, n + 1)
  <2>1. Trimmed(g) = s
    <3>1. Len(g) > HistorySize /\ Len(g) - HistorySize + 1 = 2
      BY <1>1, <1>2, <1>6
    <3>. QED
      BY <1>2, <3>1 DEF Trimmed
  <2>2. Len(s) = n /\ \A i \in 1..n : s[i] = g[i + 1]
    BY <1>1, <1>2
  <2> HIDE DEF s
  <2>3. \A i \in 1..n : i + 1 \in 1..(n + 1)
    BY <1>1
  <2>4. ASSUME NEW i \in 1..n, NEW j \in 1..n, i < j PROVE s[i] < s[j]
    <3>1. i + 1 \in 1..(n + 1) /\ j + 1 \in 1..(n + 1) /\ i + 1 < j + 1
      BY <1>1, <2>4
    <3>. QED
      BY <1>4, <2>2, <3>1
  <2>5. \A i \in 1..n : s[i] \in times \cup {t}
    BY <1>4, <2>2, <2>3
  <2>6. ASSUME NEW u \in times \cup {t}
        PROVE  (\E i \in 1..n : s[i] = u) \/ (n = HistorySize /\ \A i \in 1..n : u < s[i])
    <3>1. CASE u = t
      <4>1. n \in 1..n /\ s[n] = t
        BY <1>1, <1>2, <1>6, <2>2
      <4>. QED
        BY <3>1, <4>1
    <3>2. CASE u \in times /\ \E i \in 1..n : h[i] = u
      <4>1. PICK i \in 1..n : h[i] = u
        BY <3>2
      <4>2. CASE i = 1
        <5>1. g[1] = u /\ 1 \in 1..(n + 1)
          BY <1>1, <1>2, <4>1, <4>2
        <5>2. \A j \in 1..n : g[1] < g[j + 1]
          BY <1>1, <1>4, <2>3, <5>1
        <5>. QED
          BY <1>6, <2>2, <5>1, <5>2
      <4>3. CASE i > 1
        <5>1. i - 1 \in 1..n /\ s[i - 1] = g[i]
          BY <1>1, <2>2, <4>3
        <5>. QED
          BY <1>2, <4>1, <5>1
      <4>. QED
        BY <1>1, <4>2, <4>3
    <3>3. CASE u \in times /\ \A i \in 1..n : u < h[i]
      <4>1. u < t /\ u \in Nat
        BY <3>3
      <4>2. \A i \in 1..(n + 1) : u < g[i]
        <5>1. \A i \in 1..(n + 1) : i \in 1..n \/ i = n + 1
          BY <1>1
        <5>. QED
          BY <1>2, <3>3, <4>1, <5>1
      <4>. QED
        BY <1>6, <2>2, <2>3, <4>2
    <3>. QED
      BY <1>3, <3>1, <3>2, <3>3
  <2>. QED
    BY <2>1, <2>2, <2>4, <2>5, <2>6 DEF LastOf, g
<1>. QED
  BY <1>1, <1>5, <1>6

ShowsAll == \A k \in Series : LastOf(history[k], Ingested(k)) /\ Newest(values[k], Ingested(k))

LEMMA NothingShown ==
  ASSUME ShowsAll, Handled' = Handled, UNCHANGED <<skipped, history, values>>
  PROVE  ShowsAll'
<1>1. \A k : Ingested(k)' = Ingested(k)
  BY DEF Ingested
<1>. QED
  BY <1>1 DEF ShowsAll, LastOf, Newest

(* Update shows the sample it takes, or skips it.                          *)
LEMMA UpdateShows ==
  ASSUME TypeOK, WireInv, PipeInv, ShowsAll, Update
  PROVE  PipeInv' /\ ShowsAll'
<1>1. PICK e \in Events : Pipe = <<e>> \o Pipe' /\ Pipe' \in Seq(Events) /\ Ingest(e)
  BY UpdateTakes
<1>2. made' = made
  BY DEF Update, goroutine
<1>3. CASE e.time = NoTime
  <2>1. UNCHANGED <<skipped, history, values>>
    BY <1>1, <1>3 DEF Ingest
  <2>. QED
    BY <1>1, <1>2, <1>3, <2>1, TakenInOrder, NothingShown
<1>4. CASE e.time # NoTime
  <2>1. skipped' = skipped \/ (skipped' = skipped \cup {e.time} /\ e.time # NoTime)
    BY <1>1, <1>4 DEF Ingest
  <2>2. /\ PipeInv' /\ Handled' = Handled \cup {e} /\ e \in made
        /\ \A f \in Handled : f.time < e.time
        /\ e.time \notin skipped
    BY <1>1, <1>2, <1>4, <2>1, TakenInOrder
  <2>3. \A f \in Handled \cup {e} : f.time \in Nat
    BY <2>2 DEF Handled, WireInv, TypeOK
  <2>4. CASE paused
    <3>1. skipped' = skipped \cup {e.time} /\ UNCHANGED <<history, values>>
      BY <1>1, <1>4, <2>4 DEF Ingest
    <3>2. \A f : f \in Handled' /\ f.time \notin skipped' <=> f \in Handled /\ f.time \notin skipped
      BY <2>2, <2>3, <3>1
    <3>3. \A k : Ingested(k)' = Ingested(k)
      BY <3>2 DEF Ingested
    <3>. QED
      BY <2>2, <3>1, <3>3 DEF ShowsAll, LastOf, Newest
  <2>5. CASE ~paused
    <3>1. /\ skipped' = skipped
          /\ values' = [k \in Series |-> IF k \in e.keys THEN e.time ELSE values[k]]
          /\ history' = [k \in Series |-> IF k \in e.keys THEN Trimmed(Append(history[k], e.time))
                                                           ELSE history[k]]
      BY <1>1, <1>4, <2>5 DEF Ingest
    <3>2. ASSUME NEW k \in Series
          PROVE  LastOf(history'[k], Ingested(k)') /\ Newest(values'[k], Ingested(k)')
      <4>1. LastOf(history[k], Ingested(k)) /\ Newest(values[k], Ingested(k))
        BY DEF ShowsAll
      <4>2. CASE k \in e.keys
        <5>1. Ingested(k)' = Ingested(k) \cup {e.time}
          BY <2>2, <3>1, <4>2 DEF Ingested
        <5>2. Ingested(k) \in SUBSET Nat /\ \A u \in Ingested(k) : u < e.time
          BY <2>2, <2>3 DEF Ingested
        <5>3. history[k] \in Seq(Nat) /\ Len(history[k]) <= HistorySize
          <6>1. history[k] \in Seq(1..MaxTime) /\ Len(history[k]) <= HistorySize
            BY DEF TypeOK
          <6>. QED
            BY <6>1, TuiConstants
        <5>4. LastOf(Trimmed(Append(history[k], e.time)), Ingested(k) \cup {e.time})
          BY <2>3, <4>1, <5>2, <5>3, TrimmedIsLast
        <5>5. Newest(e.time, Ingested(k) \cup {e.time})
          BY <2>3, <5>2 DEF Newest
        <5>6. history'[k] = Trimmed(Append(history[k], e.time)) /\ values'[k] = e.time
          BY <3>1, <4>2
        <5>. QED
          BY <5>1, <5>4, <5>5, <5>6
      <4>3. CASE k \notin e.keys
        <5>1. Ingested(k)' = Ingested(k)
          BY <2>2, <3>1, <4>3 DEF Ingested
        <5>2. history'[k] = history[k] /\ values'[k] = values[k]
          BY <3>1, <4>3
        <5>. QED
          BY <4>1, <5>1, <5>2
      <4>. QED
        BY <4>2, <4>3
    <3>. QED
      BY <2>2, <3>2 DEF ShowsAll, LastOf, Newest
  <2>. QED
    BY <2>4, <2>5
<1>. QED
  BY <1>3, <1>4

(* Everything else shows nothing, and keeps the order.                     *)
LEMMA OthersShowNothing ==
  ASSUME TypeOK, WireInv, PipeInv, ShowsAll, ~cancelled',
         DaemonStep \/ StreamStep \/ ProgramStep \/ UNCHANGED vars
  PROVE  PipeInv' /\ ShowsAll'
<1>1. UNCHANGED <<skipped, history, values>>
  BY DEF DaemonStep, DaemonSamples, Breaks, DaemonComesOrGoes, StreamStep, BadAddress, GoodAddress,
         Connects, DialFails, Reads, ReadFails, Leaves, Waited, Detects, Collects, Ticks, Send,
         GivesUp, ProgramStep, TakeEvent, PressSpace, Quit, Signal, ProgramEnds, shown, vars
<1>a. ASSUME Pipe' = Pipe, made' = made PROVE PipeInv' /\ ShowsAll'
  <2>1. Handled' = Handled
    BY <1>a DEF Handled
  <2>2. PipeInv'
    BY <1>1, <1>a, <2>1 DEF PipeInv
  <2>. QED
    BY <1>1, <2>1, <2>2, NothingShown
<1>b. ASSUME NEW st \in Statuses, NEW next, Sends(Notice(st), next), stream # "sending",
             UNCHANGED channel, made' = made
      PROVE  PipeInv' /\ ShowsAll'
  <2>1. Notice(st) \in Events /\ Notice(st).time = NoTime
    BY WhatIsSent DEF Notice
  <2>2. Pipe' = Append(Pipe, Notice(st))
    BY <1>b, <2>1, PipeGrows
  <2>3. PipeInv' /\ Handled' = Handled
    BY <1>1, <1>b, <2>1, <2>2, SentInOrder
  <2>. QED
    BY <1>1, <2>3, NothingShown
<1>c. ASSUME NEW e \in Events, NEW next, Sends(e, next), stream # "sending", UNCHANGED channel,
             made' = made \cup {e}, e.time # NoTime, \A f \in made : f.time < e.time
      PROVE  PipeInv' /\ ShowsAll'
  <2>1. Pipe' = Append(Pipe, e)
    BY <1>c, PipeGrows
  <2>2. PipeInv' /\ Handled' = Handled
    BY <1>1, <1>c, <2>1, SentInOrder
  <2>. QED
    BY <1>1, <2>2, NothingShown
<1>2. CASE DaemonStep \/ PressSpace \/ Quit \/ Signal \/ ProgramEnds \/ UNCHANGED vars
  <2>1. UNCHANGED <<arrived, events, stream, event, made>>
    BY <1>2 DEF DaemonStep, DaemonSamples, Breaks, DaemonComesOrGoes, PressSpace, Quit, Signal,
                ProgramEnds, goroutine, channel, vars
  <2>2. Pipe' = Pipe
    BY <2>1 DEF Pipe
  <2>. QED
    BY <1>a, <2>1, <2>2
<1>3. CASE TakeEvent
  BY <1>3, <1>a, TakeMoves DEF TakeEvent, goroutine
<1>4. CASE Send
  BY <1>4, <1>a, SendMoves DEF Send
<1>5. CASE GivesUp \/ Leaves
  BY <1>5 DEF GivesUp, Leaves
<1>6. CASE GoodAddress \/ Waited \/ Ticks
  <2>1. UNCHANGED <<events, arrived, made>> /\ stream # "sending" /\ stream' # "sending"
    BY <1>6 DEF GoodAddress, Waited, Ticks, channel
  <2>. QED
    BY <1>a, <2>1, PipeStays
<1>7. CASE BadAddress \/ Connects \/ DialFails \/ ReadFails
  <2>1. "" \in Statuses /\ "connected" \in Statuses /\ "local" \in Statuses
        /\ "reconnecting" \in Statuses
    BY DEF Statuses
  <2>2. stream # "sending" /\ UNCHANGED channel /\ made' = made
    BY <1>7 DEF BadAddress, Connects, DialFails, ReadFails
  <2>3. CASE BadAddress
    BY <1>b, <2>1, <2>2, <2>3 DEF BadAddress
  <2>4. CASE Connects
    BY <1>b, <2>1, <2>2, <2>4 DEF Connects
  <2>5. CASE DialFails
    BY <1>b, <2>1, <2>2, <2>5 DEF DialFails
  <2>6. CASE ReadFails
    BY <1>b, <2>1, <2>2, <2>6 DEF ReadFails
  <2>. QED
    BY <1>7, <2>3, <2>4, <2>5, <2>6
<1>8. CASE Detects
  <2>1. stream # "sending" /\ UNCHANGED channel /\ made' = made /\ "error" \in Statuses
    BY <1>8 DEF Detects, Statuses
  <2>2. CASE stream' = "sampling"
    BY <1>a, <2>1, <2>2, PipeStays DEF channel
  <2>3. CASE Sends(Notice("error"), "gone")
    BY <1>b, <2>1, <2>3
  <2>. QED
    BY <1>8, <2>2, <2>3 DEF Detects
<1>9. CASE Reads
  <2>1. stream = "reading" /\ UNCHANGED channel /\ wire # <<>>
    BY <1>9 DEF Reads
  <2>2. Head(wire) \in Messages /\ Head(wire) = wire[1] /\ 1 \in 1..Len(wire)
    <3>1. wire \in Seq(Messages)
      BY DEF TypeOK
    <3>. QED
      BY <2>1, <3>1
  <2>3. CASE Head(wire) = Hello
    <3>1. UNCHANGED <<stream, event, made, events, arrived>>
      BY <1>9, <2>3 DEF Reads, goroutine, channel
    <3>. QED
      BY <1>a, <2>1, <3>1, PipeStays
  <2>4. CASE Head(wire) # Hello
    <3> DEFINE e == [time |-> Head(wire).time, keys |-> Head(wire).keys, status |-> "connected"]
    <3>1. Sends(e, "reading") /\ made' = made \cup {e}
      BY <1>9, <2>4 DEF Reads, Sends
    <3>2. Head(wire).time \in 1..MaxTime /\ Head(wire).keys \in SUBSET Series
      BY <2>2, <2>4 DEF Messages
    <3>3. e \in Events /\ e.time # NoTime
      <4>1. e \in Events
        BY <3>2, WhatIsSent
      <4>2. e.time = Head(wire).time
        OBVIOUS
      <4>. QED
        BY <3>2, <4>1, <4>2, TuiConstants DEF NoTime
    <3>4. \A f \in made : f.time < e.time
      BY <2>2, <2>4 DEF WireInv
    <3> HIDE DEF e
    <3>. QED
      BY <1>c, <2>1, <3>1, <3>3, <3>4
  <2>. QED
    BY <2>3, <2>4
<1>10. CASE Collects
  <2>1. stream = "sampling" /\ UNCHANGED channel /\ now' = now + 1 /\ now < MaxTime
    BY <1>10 DEF Collects
  <2>2. PICK keys \in SUBSET Series :
          Sends([time |-> now', keys |-> keys, status |-> "local"], "ticking")
    BY <1>10 DEF Collects
  <2> DEFINE e == [time |-> now', keys |-> keys, status |-> "local"]
  <2>3. made' = made \cup {e}
    BY <1>10, <2>2 DEF Collects, Sends
  <2>4. now \in Nat /\ now' \in 1..MaxTime
    BY <2>1, TuiConstants DEF TypeOK
  <2>5. e \in Events /\ e.time # NoTime
    <3>1. e \in Events
      BY <2>4, WhatIsSent
    <3>2. e.time = now'
      OBVIOUS
    <3>. QED
      BY <2>4, <3>1, <3>2, TuiConstants DEF NoTime
  <2>6. \A f \in made : f.time < e.time
    BY <2>1, <2>4 DEF WireInv
  <2>7. Sends(e, "ticking")
    BY <2>2
  <2> HIDE DEF e
  <2>. QED
    BY <1>c, <2>1, <2>3, <2>5, <2>6, <2>7
<1>. QED
  BY <1>2, <1>3, <1>4, <1>5, <1>6, <1>7, <1>8, <1>9, <1>10 DEF StreamStep, ProgramStep

(* GraphsShowWhatWasMade: until the dashboard is left every graph has the  *)
(* last samples that were made while it was not paused, however often the  *)
(* connection broke and whoever made them.                                 *)
GraphInv == OrderInv /\ GraphsShowWhatWasMade

THEOREM GraphsAreRight == Spec => []GraphsShowWhatWasMade
<1>1. Init => GraphInv
  <2> SUFFICES ASSUME Init PROVE GraphInv
    OBVIOUS
  <2>1. \A k \in Series : Ingested(k) = {} /\ history[k] = <<>> /\ values[k] = NoTime
    BY DEF Init, Ingested, Handled
  <2>2. \A k \in Series : LastOf(history[k], Ingested(k)) /\ Newest(values[k], Ingested(k))
    BY <2>1 DEF LastOf, Newest
  <2>. QED
    BY <2>2, StartsOrdered DEF GraphInv, GraphsShowWhatWasMade
<1>2. TypeOK /\ GraphInv /\ [Next]_vars => GraphInv'
  <2> SUFFICES ASSUME TypeOK, GraphInv, [Next]_vars PROVE GraphInv'
    OBVIOUS
  <2>1. WireInv /\ WireInv'
    BY WireStep DEF GraphInv, OrderInv
  <2>2. cancelled => cancelled'
    BY DEF Next, StreamStep, DaemonSamples, Breaks, DaemonComesOrGoes, BadAddress, GoodAddress,
           Connects, DialFails, Reads, ReadFails, Leaves, Waited, Detects, Collects, Ticks, Send,
           GivesUp, Update, TakeEvent, PressSpace, Quit, Signal, ProgramEnds, vars
  <2>3. ASSUME ~cancelled' PROVE PipeInv' /\ ShowsAll'
    <3>1. PipeInv /\ ShowsAll
      BY <2>2, <2>3 DEF GraphInv, OrderInv, GraphsShowWhatWasMade, ShowsAll
    <3>. QED
      BY <2>1, <2>3, <3>1, UpdateShows, OthersShowNothing DEF Next, DaemonStep, ProgramStep
  <2>. QED
    BY <2>1, <2>3 DEF GraphInv, OrderInv, GraphsShowWhatWasMade, ShowsAll
<1>3. GraphInv => GraphsShowWhatWasMade
  BY DEF GraphInv
<1>. QED
  BY <1>1, <1>2, <1>3, TypeCorrect, PTL DEF Spec
=============================================================================
