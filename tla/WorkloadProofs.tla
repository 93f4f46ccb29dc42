--------------------------- MODULE WorkloadProofs ---------------------------
(***************************************************************************)
(* What holds of Workload for pipes of every size and however much the     *)
(* command prints: its types, the window in which it records, the files it *)
(* leaves open (none), that process_exit is the end, and that the log and  *)
(* the events are what the command printed.                                *)
(***************************************************************************)
EXTENDS Workload, SequenceTheorems, TLAPS

(* The setup's nine steps, spelled out.                                    *)
LEMMA SetupTable ==
  /\ NumSteps = 9
  /\ Acquired[1] = {} /\ Acquired[2] = {"events"} /\ Acquired[3] = {"samples"}
  /\ Acquired[4] = {"stdout"} /\ Acquired[5] = {"stderr"}
  /\ Acquired[6] = {} /\ Acquired[7] = {"stdoutR", "stdoutW"}
  /\ Acquired[8] = {"stderrR", "stderrW"} /\ Acquired[9] = {}
BY DEF NumSteps, Acquired

(* What is read from a pipe, and what is left in it.                       *)
LEMMA HeadAndTail ==
  ASSUME NEW S, NEW s \in Seq(S), s # <<>>
  PROVE  /\ Head(s) \in S /\ Tail(s) \in Seq(S)
         /\ Len(Tail(s)) = Len(s) - 1 /\ Len(s) \in Nat
OBVIOUS

(* What is written at the end of a file.                                   *)
LEMMA AtTheEnd ==
  ASSUME NEW S, NEW s \in Seq(S), NEW e \in S
  PROVE  /\ Append(s, e) \in Seq(S)
         /\ Len(Append(s, e)) = Len(s) + 1 /\ Len(s) \in Nat
         /\ Append(s, e) # <<>>
         /\ Append(s, e)[Len(Append(s, e))] = e
         /\ \A k \in 1..Len(s) : Append(s, e)[k] = s[k]
OBVIOUS

-----------------------------------------------------------------------------
(* Type correctness.  That a noted line is an event is needed for events'  *)
(* type, so NotingInv is proved along with it.                             *)
Typed == TypeOK /\ NotingInv

LEMMA StartsTyped == Init => Typed
<1> SUFFICES ASSUME Init PROVE Typed
  OBVIOUS
<1>1. step \in 1..NumSteps /\ held \subseteq Files
  BY SetupTable DEF Init
<1>2. printed \in Seq(Lines) /\ log \in Seq(Lines \ {"long"}) /\ out \in Seq(Lines) /\ err \in Seq(Lines)
      /\ events \in Seq(EventLines \cup {"process_start", "process_exit"})
  BY DEF Init
<1>3. Len(out) <= PipeCap /\ Len(err) <= PipeCap /\ errPrinted \in 0..MaxLines /\ samples \in 0..MaxSamples
  BY WorkloadConstants DEF Init
<1>4. recording \in BOOLEAN
  BY WorkloadConstants DEF Init
<1>. QED
  BY <1>1, <1>2, <1>3, <1>4 DEF Init, Typed, TypeOK, NotingInv

(* Setup and end of the run.                                               *)
LEMMA MainStepTyped == Typed /\ MainStep => Typed'
<1> SUFFICES ASSUME Typed, MainStep PROVE Typed'
  OBVIOUS
<1> USE DEF Typed, TypeOK, NotingInv, setup, childVars, pipes, reading, sampling
<1>1. CASE Acquire
  <2>1. step' \in 1..NumSteps /\ step \in 1..NumSteps
    BY <1>1, SetupTable DEF Acquire
  <2>2. held' \subseteq Files
    BY <1>1, <2>1 DEF Acquire, Files
  <2>. QED
    BY <1>1, <2>1, <2>2 DEF Acquire
<1>2. CASE SetupFails
  BY <1>2 DEF SetupFails
<1>3. CASE StartCommand
  BY <1>3 DEF StartCommand
<1>4. CASE Announce
  <2>1. events' \in Seq(EventLines \cup {"process_start", "process_exit"})
    BY <1>4, AtTheEnd DEF Announce
  <2>. QED
    BY <1>4, <2>1 DEF Announce
<1>5. CASE Waited
  BY <1>5 DEF Waited
<1>6. CASE Return
  <2>1. events' \in Seq(EventLines \cup {"process_start", "process_exit"})
    BY <1>6, AtTheEnd DEF Return
  <2>. QED
    BY <1>6, <2>1 DEF Return
<1>. QED
  BY <1>1, <1>2, <1>3, <1>4, <1>5, <1>6 DEF MainStep

(* The three loops.                                                        *)
LEMMA SampleStepTyped ==
  Typed /\ (SampleStep \/ WriteSample \/ TakeTick \/ StopSampling) => Typed'
<1> SUFFICES ASSUME Typed, SampleStep \/ WriteSample \/ TakeTick \/ StopSampling PROVE Typed'
  OBVIOUS
<1> USE DEF Typed, TypeOK, NotingInv, setup, childVars, pipes, reading
<1>1. CASE Check
  BY <1>1 DEF Check
<1>2. CASE BeginSample
  BY <1>2 DEF BeginSample
<1>3. CASE WriteSample
  BY <1>3, WorkloadConstants DEF WriteSample
<1>4. CASE TakeTick
  BY <1>4 DEF TakeTick
<1>5. CASE StopSampling
  BY <1>5 DEF StopSampling
<1>. QED
  BY <1>1, <1>2, <1>3, <1>4, <1>5 DEF SampleStep

LEMMA StdoutStepTyped == Typed /\ StdoutStep => Typed'
<1> SUFFICES ASSUME Typed, StdoutStep PROVE Typed'
  OBVIOUS
<1> USE DEF Typed, TypeOK, NotingInv, setup, childVars, pipes, sampling
<1>1. CASE ReadLine
  <2>1. Head(out) \in Lines \ {"long"} /\ out' \in Seq(Lines) /\ Len(out') <= PipeCap
    BY <1>1, HeadAndTail, WorkloadConstants DEF ReadLine, Fits
  <2>2. log' \in Seq(Lines \ {"long"}) /\ log' # <<>> /\ log'[Len(log')] = Head(out)
    <3> DEFINE S == Lines \ {"long"}
    <3>1. log \in Seq(S) /\ Head(out) \in S /\ log' = Append(log, Head(out))
      BY <1>1, <2>1 DEF ReadLine
    <3> HIDE DEF S
    <3>2. log' \in Seq(S) /\ log' # <<>> /\ log'[Len(log')] = Head(out)
      BY ONLY <3>1, AtTheEnd
    <3>. QED
      BY <3>2 DEF S
  <2>. QED
    BY <1>1, <2>1, <2>2 DEF ReadLine, HandleLine
<1>2. CASE WriteEvent
  <2>1. events' \in Seq(EventLines \cup {"process_start", "process_exit"})
    BY <1>2, AtTheEnd DEF WriteEvent
  <2>. QED
    BY <1>2, <2>1 DEF WriteEvent
<1>3. CASE StopReading
  BY <1>3 DEF StopReading, reading
<1>. QED
  BY <1>1, <1>2, <1>3 DEF StdoutStep

LEMMA StderrStepTyped == Typed /\ StderrStep => Typed'
<1> SUFFICES ASSUME Typed, StderrStep PROVE Typed'
  OBVIOUS
<1> USE DEF Typed, TypeOK, NotingInv, setup, childVars, pipes, sampling, reading
<1>1. CASE ReadErrLine
  <2>1. err' \in Seq(Lines) /\ Len(err') <= PipeCap
    BY <1>1, HeadAndTail, WorkloadConstants DEF ReadErrLine
  <2>. QED
    BY <1>1, <2>1 DEF ReadErrLine
<1>2. CASE StopReadingErr
  BY <1>2 DEF StopReadingErr
<1>. QED
  BY <1>1, <1>2 DEF StderrStep

(* The command, the user, and nothing at all.                              *)
Outside ==
  \/ \E line \in Lines : PrintLine(line)
  \/ \E line \in {"text", "long"} : PrintErrLine(line)
  \/ Fork \/ ChildEnds \/ OrphanEnds \/ Interrupt \/ Over

LEMMA OutsideTyped == Typed /\ (Outside \/ UNCHANGED vars) => Typed'
<1> SUFFICES ASSUME Typed, Outside \/ UNCHANGED vars PROVE Typed'
  OBVIOUS
<1> USE DEF Typed, TypeOK, NotingInv, setup, childVars, pipes, sampling, reading
<1>1. ASSUME NEW line \in Lines, PrintLine(line) PROVE Typed'
  <2>1. out' \in Seq(Lines) /\ Len(out') <= PipeCap /\ printed' \in Seq(Lines)
    BY <1>1, AtTheEnd, WorkloadConstants DEF PrintLine
  <2>. QED
    BY <1>1, <2>1 DEF PrintLine
<1>2. ASSUME NEW line \in {"text", "long"}, PrintErrLine(line) PROVE Typed'
  <2>1. line \in Lines
    BY DEF Lines
  <2>2. err' \in Seq(Lines) /\ Len(err') <= PipeCap /\ errPrinted' \in 0..MaxLines
    BY <1>2, <2>1, AtTheEnd, WorkloadConstants DEF PrintErrLine
  <2>. QED
    BY <1>2, <2>2 DEF PrintErrLine
<1>3. CASE Fork \/ ChildEnds \/ OrphanEnds \/ Interrupt
  <2>1. CASE Fork
    BY <2>1 DEF Fork
  <2>2. CASE ChildEnds
    BY <2>2 DEF ChildEnds
  <2>3. CASE OrphanEnds
    BY <2>3 DEF OrphanEnds
  <2>4. CASE Interrupt
    BY <2>4 DEF Interrupt
  <2>. QED
    BY <1>3, <2>1, <2>2, <2>3, <2>4
<1>4. CASE Over \/ UNCHANGED vars
  <2>1. UNCHANGED vars
    BY <1>4 DEF Over
  <2>. QED
    BY <2>1 DEF vars
<1>. QED
  BY <1>1, <1>2, <1>3, <1>4 DEF Outside

LEMMA AlwaysTyped == Spec => []Typed
<1>1. Typed /\ [Next]_vars => Typed'
  BY MainStepTyped, SampleStepTyped, StdoutStepTyped, StderrStepTyped, OutsideTyped
  DEF Next, Outside
<1>. QED
  BY <1>1, StartsTyped, PTL DEF Spec

(* TypeOK: every variable stays in its type, the pipes within their        *)
(* capacity, whatever the command prints and whichever step fails.         *)
THEOREM TypeCorrect == Spec => []TypeOK
<1>1. Typed => TypeOK
  BY DEF Typed
<1>. QED
  BY <1>1, AlwaysTyped, PTL

-----------------------------------------------------------------------------
(* The window: every step keeps the bound on stray samples.                *)
LEMMA StepKeepsWindow == Typed /\ WindowInv /\ [Next]_vars => WindowInv'
<1> SUFFICES ASSUME Typed, WindowInv, [Next]_vars PROVE WindowInv'
  OBVIOUS
<1>1. strays \in Nat /\ stops \in Nat /\ starts \in Nat /\ samples \in Nat
      /\ recording \in BOOLEAN
  BY DEF Typed, TypeOK
<1> USE <1>1 DEF WindowInv, setup, childVars, pipes
<1>2. CASE Check
  BY <1>2 DEF Check, CheckRecording, reading
<1>3. CASE BeginSample
  BY <1>3 DEF BeginSample, reading
<1>4. CASE WriteSample \/ TakeTick \/ StopSampling
  BY <1>4 DEF WriteSample, TakeTick, StopSampling, reading
<1>5. CASE ReadLine
  BY <1>5 DEF ReadLine, HandleLine, sampling
<1>6. CASE WriteEvent \/ StopReading
  BY <1>6 DEF WriteEvent, StopReading, sampling
<1>7. CASE Announce
  BY <1>7 DEF Announce
<1>8. CASE Return
  BY <1>8 DEF Return, sampling
<1>9. CASE Acquire \/ SetupFails \/ StartCommand \/ Waited \/ StderrStep
  BY <1>9 DEF Acquire, SetupFails, StartCommand, Waited, StderrStep, ReadErrLine, StopReadingErr,
              reading, sampling
<1>10. CASE Outside \/ UNCHANGED vars
  BY <1>10 DEF Outside, PrintLine, PrintErrLine, Fork, ChildEnds, OrphanEnds, Interrupt, Over,
               vars, reading, sampling
<1>. QED
  BY <1>2, <1>3, <1>4, <1>5, <1>6, <1>7, <1>8, <1>9, <1>10
  DEF Next, MainStep, SampleStep, StdoutStep, Outside

(* sampleLoop and handleEvent: samples are recorded only in the window the *)
(* command asked for, but for one per stop.                                *)
THEOREM WindowIsKept == Spec => []WindowRespected
<1>1. Init => WindowInv
  BY WorkloadConstants DEF Init, WindowInv
<1>2. Typed /\ WindowInv => WindowRespected
  BY DEF Typed, TypeOK, WindowInv, WindowRespected
<1>. QED
  BY <1>1, <1>2, StepKeepsWindow, AlwaysTyped, PTL DEF Spec

-----------------------------------------------------------------------------
(* The files: every step keeps open only what is closed later.             *)
LEMMA StepKeepsFiles == Typed /\ FilesInv /\ [Next]_vars => FilesInv'
<1> SUFFICES ASSUME Typed, FilesInv, [Next]_vars PROVE FilesInv'
  OBVIOUS
<1>1. step \in 1..9
  BY SetupTable DEF Typed, TypeOK
<1> USE DEF FilesInv, ReleasedByNewSession, setup
<1>2. CASE Acquire
  <2>1. step = 1 \/ step = 2 \/ step = 3 \/ step = 4 \/ step \in 5..8
    BY <1>1, <1>2, SetupTable DEF Acquire
  <2>. QED
    BY <1>2, <2>1, SetupTable DEF Acquire
<1>3. CASE SetupFails
  BY <1>1, <1>3 DEF SetupFails, InNewSession
<1>4. CASE StartCommand \/ Announce \/ Waited \/ Return
  BY <1>4 DEF StartCommand, Announce, Waited, Return
<1>5. CASE UNCHANGED <<main, step, held>>
  BY <1>5
<1>6. SampleStep \/ WriteSample \/ TakeTick \/ StopSampling \/ StdoutStep \/ StderrStep
        => UNCHANGED <<main, step, held>>
  BY DEF SampleStep, Check, BeginSample, WriteSample, TakeTick, StopSampling, StdoutStep, ReadLine,
         WriteEvent, StopReading, StderrStep, ReadErrLine, StopReadingErr
<1>7. Outside \/ UNCHANGED vars => UNCHANGED <<main, step, held>>
  BY DEF Outside, PrintLine, PrintErrLine, Fork, ChildEnds, OrphanEnds, Interrupt, Over, vars
<1>. QED
  BY <1>2, <1>3, <1>4, <1>5, <1>6, <1>7 DEF Next, MainStep, Outside

(* newSession and the deferred calls: whichever step of the setup fails,   *)
(* and however the run ends, Workload leaves nothing open.                 *)
THEOREM NothingStaysOpen == Spec => []ClosedOnReturn
<1>1. Init => FilesInv
  BY DEF Init, FilesInv
<1>2. FilesInv => ClosedOnReturn
  BY DEF FilesInv, ClosedOnReturn
<1>. QED
  BY <1>1, <1>2, StepKeepsFiles, AlwaysTyped, PTL DEF Spec

-----------------------------------------------------------------------------
(* The end: no step writes process_exit while a loop may still write.      *)
LEMMA StepKeepsExit == Typed /\ ExitInv /\ [Next]_vars => ExitInv'
<1> SUFFICES ASSUME Typed, ExitInv, [Next]_vars PROVE ExitInv'
  OBVIOUS
<1>1. events \in Seq(EventLines \cup {"process_start", "process_exit"})
  BY DEF Typed, TypeOK
<1>2. "process_exit" \notin EventLines
  BY DEF EventLines
<1> USE DEF ExitInv, setup, childVars, pipes
<1>3. CASE Acquire \/ SetupFails \/ StartCommand
  BY <1>3 DEF Acquire, SetupFails, StartCommand, reading, sampling
<1>4. CASE Announce
  <2>1. \A k \in 1..Len(events') : events'[k] # "process_exit"
    BY <1>1, <1>4, AtTheEnd DEF Announce
  <2>. QED
    BY <1>4, <2>1 DEF Announce
<1>5. CASE Waited
  BY <1>5 DEF Waited, reading, sampling
<1>6. CASE Return
  BY <1>6 DEF Return, Joined, sampling
<1>7. CASE WriteEvent
  <2>1. log[Len(log)] \in EventLines /\ main # "returned"
    BY <1>7 DEF WriteEvent, Typed, NotingInv
  <2>2. \A k \in 1..Len(events') : events'[k] # "process_exit"
    BY <1>1, <1>2, <1>7, <2>1, AtTheEnd DEF WriteEvent
  <2>. QED
    BY <1>7, <2>1, <2>2 DEF WriteEvent, sampling
<1>8. CASE ReadLine \/ StopReading
  BY <1>8 DEF ReadLine, HandleLine, StopReading, sampling
<1>9. CASE SampleStep \/ WriteSample \/ TakeTick \/ StopSampling \/ StderrStep
  BY <1>9 DEF SampleStep, Check, BeginSample, WriteSample, TakeTick, StopSampling, StderrStep,
              ReadErrLine, StopReadingErr, reading, sampling
<1>10. CASE Outside \/ UNCHANGED vars
  BY <1>10 DEF Outside, PrintLine, PrintErrLine, Fork, ChildEnds, OrphanEnds, Interrupt, Over,
               vars, reading, sampling
<1>. QED
  BY <1>3, <1>4, <1>5, <1>6, <1>7, <1>8, <1>9, <1>10 DEF Next, MainStep, StdoutStep, Outside

(* process_exit is written after the loops have ended, so no event and no  *)
(* sample comes after it.                                                  *)
THEOREM ExitIsTheEnd == Spec => ExitEventIsLast
<1>1. Init => ExitInv
  BY DEF Init, ExitInv
<1>2. Typed /\ ExitInv /\ [Next]_vars =>
        [\A k \in 1..Len(events) :
           events[k] = "process_exit" => UNCHANGED <<events, samples>>]_vars
  <2> SUFFICES ASSUME ExitInv, [Next]_vars, NEW k \in 1..Len(events), events[k] = "process_exit"
               PROVE  UNCHANGED <<events, samples>>
    OBVIOUS
  <2>1. main = "returned" /\ sampleLoop \in {"off", "gone"} /\ stdoutLoop \in {"off", "gone"}
    BY DEF ExitInv
  <2>. QED
    BY <2>1 DEF Next, MainStep, SampleStep, StdoutStep, StderrStep, Acquire, SetupFails,
                StartCommand, Announce, Waited, Return, Check, BeginSample, WriteSample, TakeTick,
                StopSampling, ReadLine, WriteEvent, StopReading, ReadErrLine, StopReadingErr,
                PrintLine, PrintErrLine, Fork, ChildEnds, OrphanEnds, Interrupt, Over, vars,
                reading, sampling
<1>. QED
  BY <1>1, <1>2, StepKeepsExit, AlwaysTyped, PTL DEF Spec, ExitEventIsLast

-----------------------------------------------------------------------------
(* The output.  What a line more does to the event lines of a file.        *)
LEMMA EventsOfAppend ==
  ASSUME NEW S, NEW s \in Seq(S), NEW e \in S
  PROVE  /\ e \in EventLines => EventsAt(Append(s, e)) = EventsAt(s) \cup {Len(s) + 1}
         /\ e \notin EventLines => EventsAt(Append(s, e)) = EventsAt(s)
         /\ \A k \in EventsAt(s) : Append(s, e)[k] = s[k] /\ k \in 1..Len(s)
<1>1. /\ Len(Append(s, e)) = Len(s) + 1 /\ Len(s) \in Nat
      /\ Append(s, e)[Len(s) + 1] = e
      /\ \A k \in 1..Len(s) : Append(s, e)[k] = s[k]
  BY AtTheEnd
<1>2. 1..(Len(s) + 1) = (1..Len(s)) \cup {Len(s) + 1} /\ Len(s) + 1 \notin 1..Len(s)
  BY <1>1
<1>. QED
  BY <1>1, <1>2 DEF EventsAt

(* A line goes from the pipe to the log, or into the pipe.                 *)
LEMMA LineIsRead ==
  ASSUME NEW S, NEW s \in Seq(S), NEW t \in Seq(S), t # <<>>
  PROVE  Append(s, Head(t)) \o Tail(t) = s \o t
<1>1. /\ Head(t) \in S /\ Tail(t) \in Seq(S) /\ t = <<Head(t)>> \o Tail(t)
  OBVIOUS
<1>2. Append(s, Head(t)) = s \o <<Head(t)>>
  BY <1>1, AppendIsConcat
<1>3. (s \o <<Head(t)>>) \o Tail(t) = s \o (<<Head(t)>> \o Tail(t))
  BY <1>1, ConcatAssociative
<1>. QED
  BY <1>1, <1>2, <1>3

LEMMA LineIsPrinted ==
  ASSUME NEW S, NEW s \in Seq(S), NEW t \in Seq(S), NEW e \in S
  PROVE  s \o Append(t, e) = Append(s \o t, e)
<1>1. <<e>> \in Seq(S) /\ s \o t \in Seq(S)
  OBVIOUS
<1>2. Append(t, e) = t \o <<e>> /\ Append(s \o t, e) = (s \o t) \o <<e>>
  BY <1>1, AppendIsConcat
<1>3. (s \o t) \o <<e>> = s \o (t \o <<e>>)
  BY <1>1, ConcatAssociative
<1>. QED
  BY <1>2, <1>3

(* The parts of EventsFollowOutput.                                        *)
OutputIsKept == log \o out = printed
EventsAreNoted == \E at \in [EventsAt(events) -> Noted] : NotedBy(at)
Markers ==
  \A k \in 1..Len(events) \ EventsAt(events) :
    \/ k = 1 /\ events[k] = "process_start"
    \/ k = Len(events) /\ events[k] = "process_exit" /\ main = "returned"

OutputTyped ==
  /\ log \in Seq(Lines \ {"long"}) /\ log \in Seq(Lines) /\ out \in Seq(Lines)
  /\ printed \in Seq(Lines)
  /\ events \in Seq(EventLines \cup {"process_start", "process_exit"})
  /\ stdoutLoop = "noting" => log # <<>> /\ log[Len(log)] \in EventLines

LEMMA TypedOutput == Typed => OutputTyped
<1> SUFFICES ASSUME Typed PROVE OutputTyped
  OBVIOUS
<1>1. log \in Seq(Lines \ {"long"}) => log \in Seq(Lines)
  OBVIOUS
<1>. QED
  BY <1>1 DEF Typed, TypeOK, NotingInv, OutputTyped

LEMMA StepKeepsOutput == OutputTyped /\ OutputIsKept /\ [Next]_vars => OutputIsKept'
<1> SUFFICES ASSUME OutputTyped, OutputIsKept, [Next]_vars PROVE OutputIsKept'
  OBVIOUS
<1>1. CASE ReadLine
  <2>1. Append(log, Head(out)) \o Tail(out) = log \o out
    BY <1>1, LineIsRead DEF ReadLine, OutputTyped
  <2>. QED
    BY <1>1, <2>1 DEF ReadLine, OutputIsKept, childVars
<1>2. ASSUME NEW line \in Lines, PrintLine(line) PROVE OutputIsKept'
  <2>1. log \o Append(out, line) = Append(log \o out, line)
    BY LineIsPrinted DEF OutputTyped
  <2>. QED
    BY <1>2, <2>1 DEF PrintLine, OutputIsKept, reading
<1>3. CASE UNCHANGED <<log, out, printed>>
  BY <1>3 DEF OutputIsKept
<1>4. MainStep \/ SampleStep \/ WriteSample \/ TakeTick \/ StopSampling \/ StderrStep
      \/ WriteEvent \/ StopReading \/ Fork \/ ChildEnds \/ OrphanEnds \/ Interrupt \/ Over
      \/ UNCHANGED vars \/ (\E line \in {"text", "long"} : PrintErrLine(line))
      => UNCHANGED <<log, out, printed>>
  BY DEF MainStep, Acquire, SetupFails, StartCommand, Announce, Waited, Return, SampleStep, Check,
         BeginSample, WriteSample, TakeTick, StopSampling, StderrStep, ReadErrLine, StopReadingErr,
         WriteEvent, StopReading, Fork, ChildEnds, OrphanEnds, Interrupt, Over, PrintErrLine, vars,
         childVars, pipes, reading
<1>. QED
  BY <1>1, <1>2, <1>3, <1>4 DEF Next, StdoutStep

(* Nothing is noted but what is in the log, and in its order.              *)
LEMMA StepKeepsNoted ==
  OutputTyped /\ ExitInv /\ EventsAreNoted /\ [Next]_vars => EventsAreNoted'
<1> SUFFICES ASSUME OutputTyped, ExitInv, EventsAreNoted, [Next]_vars PROVE EventsAreNoted'
  OBVIOUS
<1>a. PICK at \in [EventsAt(events) -> Noted] : NotedBy(at)
  BY DEF EventsAreNoted
<1>b. Len(log) \in Nat /\ Len(events) \in Nat
  BY DEF OutputTyped
<1>1. CASE ReadLine
  <2>1. Head(out) \in Lines
    BY <1>1, HeadAndTail DEF ReadLine, OutputTyped
  <2>2. /\ Head(out) \in EventLines => EventsAt(log') = EventsAt(log) \cup {Len(log) + 1}
        /\ Head(out) \notin EventLines => EventsAt(log') = EventsAt(log)
        /\ \A k \in EventsAt(log) : log'[k] = log[k] /\ k \in 1..Len(log)
        /\ Len(log') = Len(log) + 1
    BY <1>1, <2>1, EventsOfAppend, AtTheEnd DEF ReadLine, OutputTyped
  <2>3. Noted = EventsAt(log)
    BY <1>1 DEF ReadLine, Noted
  <2>4. Noted' = EventsAt(log') \ IF stdoutLoop' = "noting" THEN {Len(log')} ELSE {}
    BY DEF Noted, EventsAt
  <2>5. Noted' = Noted
    BY <1>1, <1>b, <2>2, <2>3, <2>4 DEF ReadLine, HandleLine
  <2>6. events' = events /\ EventsAt(events)' = EventsAt(events)
    BY <1>1 DEF ReadLine, EventsAt
  <2>7. \A k \in EventsAt(events) : log'[at[k]] = log[at[k]]
    BY <2>2, <2>3
  <2>8. NotedBy(at)'
    BY <1>a, <2>5, <2>6, <2>7 DEF NotedBy
  <2>. QED
    BY <2>5, <2>6, <2>8 DEF EventsAreNoted
<1>2. CASE WriteEvent
  <2> DEFINE n == Len(events) + 1
             now == [k \in EventsAt(events) \cup {n} |-> IF k = n THEN Len(log) ELSE at[k]]
  <2>1. log # <<>> /\ log[Len(log)] \in EventLines /\ log' = log
    BY <1>2 DEF WriteEvent, OutputTyped
  <2>2. Len(log) \in EventsAt(log)
    BY <1>b, <2>1 DEF EventsAt, OutputTyped
  <2>3. Noted = EventsAt(log) \ {Len(log)} /\ Noted' = EventsAt(log)
    BY <1>2, <2>1 DEF WriteEvent, Noted, EventsAt
  <2>4. /\ EventsAt(events') = EventsAt(events) \cup {n}
        /\ \A k \in EventsAt(events) : events'[k] = events[k] /\ k \in 1..Len(events)
        /\ events'[n] = log[Len(log)]
    <3> DEFINE S == EventLines \cup {"process_start", "process_exit"}
    <3>1. events \in Seq(S) /\ log[Len(log)] \in S /\ events' = Append(events, log[Len(log)])
      BY <1>2, <2>1 DEF WriteEvent, OutputTyped
    <3> HIDE DEF S
    <3>. QED
      BY <2>1, <3>1, EventsOfAppend, AtTheEnd
  <2>5. EventsAt(events)' = EventsAt(events')
    BY DEF EventsAt
  <2>6. now \in [EventsAt(events') -> Noted']
    BY <1>b, <2>2, <2>3, <2>4
  <2>7. \A k \in EventsAt(events') : events'[k] = log'[now[k]]
    BY <1>a, <1>b, <2>1, <2>4 DEF NotedBy
  <2>8. \A j, k \in EventsAt(events') : j < k => now[j] < now[k]
    <3>1. \A k \in EventsAt(events) : at[k] < Len(log) /\ now[k] = at[k] /\ k < n
      BY <1>b, <2>3, <2>4 DEF EventsAt
    <3>. QED
      BY <1>a, <1>b, <2>4, <3>1 DEF NotedBy
  <2>9. \A line \in Noted' : \E k \in EventsAt(events') : now[k] = line
    <3>1. now[n] = Len(log) /\ n \in EventsAt(events')
      BY <2>4
    <3>2. \A k \in EventsAt(events) : now[k] = at[k] /\ k \in EventsAt(events')
      BY <1>b, <2>4
    <3>. QED
      BY <1>a, <2>2, <2>3, <3>1, <3>2 DEF NotedBy
  <2> HIDE DEF now, n
  <2>10. PICK new \in [EventsAt(events') -> Noted'] : new = now
    BY <2>6
  <2>11. NotedBy(new)'
    BY <2>5, <2>7, <2>8, <2>9, <2>10 DEF NotedBy
  <2>. QED
    BY <2>5, <2>10, <2>11 DEF EventsAreNoted
<1>3. CASE Announce \/ Return
  <2>1. PICK e \in {"process_start", "process_exit"} : events' = Append(events, e)
    BY <1>3 DEF Announce, Return
  <2>2. EventsAt(events') = EventsAt(events)
        /\ \A k \in EventsAt(events) : events'[k] = events[k]
    <3>1. e \notin EventLines
      BY DEF EventLines
    <3>. QED
      BY <2>1, <3>1, EventsOfAppend DEF OutputTyped
  <2>3. Noted' = Noted /\ log' = log
    <3>1. log' = log /\ stdoutLoop # "noting" /\ stdoutLoop' # "noting"
      BY <1>3 DEF Announce, Return, ExitInv, Joined
    <3>. QED
      BY <3>1 DEF Noted, EventsAt
  <2>4. EventsAt(events)' = EventsAt(events)
    BY <2>2 DEF EventsAt
  <2>5. NotedBy(at)'
    BY <1>a, <2>2, <2>3, <2>4 DEF NotedBy
  <2>. QED
    BY <2>3, <2>4, <2>5 DEF EventsAreNoted
<1>4. CASE UNCHANGED <<log, events>> /\ (stdoutLoop = "noting" <=> stdoutLoop' = "noting")
  <2>1. Noted' = Noted
    BY <1>4 DEF Noted, EventsAt
  <2>2. EventsAt(events)' = EventsAt(events) /\ log' = log /\ events' = events
    BY <1>4 DEF EventsAt
  <2>3. NotedBy(at)'
    BY <1>a, <2>1, <2>2 DEF NotedBy
  <2>. QED
    BY <2>1, <2>2, <2>3 DEF EventsAreNoted
<1>5. Acquire \/ SetupFails \/ StartCommand \/ Waited \/ SampleStep \/ WriteSample \/ TakeTick
      \/ StopSampling \/ StderrStep \/ StopReading \/ Outside \/ UNCHANGED vars
      => UNCHANGED <<log, events>> /\ (stdoutLoop = "noting" <=> stdoutLoop' = "noting")
  BY DEF Acquire, SetupFails, StartCommand, Waited, SampleStep, Check, BeginSample, WriteSample,
         TakeTick, StopSampling, StderrStep, ReadErrLine, StopReadingErr, StopReading, Outside,
         PrintLine, PrintErrLine, Fork, ChildEnds, OrphanEnds, Interrupt, Over, vars, reading
<1>. QED
  BY <1>1, <1>2, <1>3, <1>4, <1>5 DEF Next, MainStep, StdoutStep, Outside

(* process_start is the first event and process_exit the last.             *)
LEMMA StepKeepsMarkers ==
  OutputTyped /\ PipeInv /\ ExitInv /\ Markers /\ [Next]_vars => Markers'
<1> SUFFICES ASSUME OutputTyped, PipeInv, ExitInv, Markers, [Next]_vars PROVE Markers'
  OBVIOUS
<1>1. CASE Announce
  <2>1. events' = <<"process_start">>
    BY <1>1 DEF Announce, PipeInv
  <2>. QED
    BY <2>1 DEF Markers, EventsAt
<1>2. CASE Return \/ WriteEvent
  <2>1. PICK e \in EventLines \cup {"process_exit"} :
          /\ events' = Append(events, e)
          /\ e = "process_exit" => main' = "returned"
    BY <1>2 DEF Return, WriteEvent, OutputTyped, EventLines
  <2>2. main # "returned"
    BY <1>2 DEF Return, WriteEvent, ExitInv
  <2>3. /\ Len(events') = Len(events) + 1 /\ Len(events) \in Nat
        /\ events'[Len(events) + 1] = e
        /\ \A k \in 1..Len(events) : events'[k] = events[k]
    BY <2>1, AtTheEnd DEF OutputTyped
  <2>. SUFFICES ASSUME NEW k \in 1..Len(events'), events'[k] \notin EventLines
                PROVE  \/ k = 1 /\ events'[k] = "process_start"
                       \/ k = Len(events') /\ events'[k] = "process_exit" /\ main' = "returned"
    BY DEF Markers, EventsAt
  <2>4. CASE k = Len(events) + 1
    BY <2>1, <2>3, <2>4
  <2>5. CASE k \in 1..Len(events)
    BY <2>2, <2>3, <2>5 DEF Markers, EventsAt
  <2>. QED
    BY <2>3, <2>4, <2>5
<1>3. CASE events' = events /\ (main = "returned" => main' = "returned")
  BY <1>3 DEF Markers, EventsAt
<1>4. Acquire \/ SetupFails \/ StartCommand \/ Waited \/ SampleStep \/ WriteSample \/ TakeTick
      \/ StopSampling \/ StderrStep \/ ReadLine \/ StopReading \/ Outside \/ UNCHANGED vars
      => events' = events /\ (main = "returned" => main' = "returned")
  BY DEF Acquire, SetupFails, StartCommand, Waited, SampleStep, Check, BeginSample, WriteSample,
         TakeTick, StopSampling, StderrStep, ReadErrLine, StopReadingErr, ReadLine, StopReading,
         Outside, PrintLine, PrintErrLine, Fork, ChildEnds, OrphanEnds, Interrupt, Over, vars,
         reading
<1>. QED
  BY <1>1, <1>2, <1>3, <1>4 DEF Next, MainStep, StdoutStep, Outside

(* stdoutLoop leaves a line in the pipe only when it cannot read it.       *)
Drained == PipeInv /\ (main = "returned" /\ out # <<>> => Head(out) = "long")

LEMMA StepKeepsDrained == OutputTyped /\ ExitInv /\ Drained /\ [Next]_vars => Drained'
<1> SUFFICES ASSUME OutputTyped, ExitInv, Drained, [Next]_vars PROVE Drained'
  OBVIOUS
<1> USE DEF Drained, PipeInv, setup, childVars, pipes
<1>1. CASE Acquire \/ SetupFails \/ Waited
  BY <1>1 DEF Acquire, SetupFails, Waited, reading
<1>2. CASE StartCommand \/ Announce
  BY <1>2 DEF StartCommand, Announce, ExitInv, reading
<1>3. CASE Return
  BY <1>3 DEF Return, Joined
<1>4. CASE ReadLine \/ WriteEvent
  BY <1>4 DEF ReadLine, WriteEvent, HandleLine, ExitInv
<1>5. CASE StopReading
  BY <1>5 DEF StopReading, ScanEnds, Fits, ExitInv
<1>6. ASSUME NEW line \in Lines, PrintLine(line) PROVE Drained'
  <2>1. out' # <<>> /\ (out # <<>> => Head(out') = Head(out))
    BY <1>6 DEF PrintLine, OutputTyped
  <2>. QED
    BY <1>6, <2>1 DEF PrintLine, reading
<1>7. CASE Fork \/ ChildEnds \/ OrphanEnds
  BY <1>7 DEF Fork, ChildEnds, OrphanEnds, reading
<1>8. CASE UNCHANGED <<main, writers, out, events, stdoutLoop>>
  BY <1>8
<1>9. SampleStep \/ WriteSample \/ TakeTick \/ StopSampling \/ StderrStep \/ Interrupt \/ Over
      \/ UNCHANGED vars \/ (\E line \in {"text", "long"} : PrintErrLine(line))
      => UNCHANGED <<main, writers, out, events, stdoutLoop>>
  BY DEF SampleStep, Check, BeginSample, WriteSample, TakeTick, StopSampling, StderrStep,
         ReadErrLine, StopReadingErr, Interrupt, Over, PrintErrLine, vars, reading
<1>. QED
  BY <1>1, <1>2, <1>3, <1>4, <1>5, <1>6, <1>7, <1>8, <1>9 DEF Next, MainStep, StdoutStep

(* stdoutLoop, handleEvent and wg.Wait: what the command printed is in the *)
(* log, every event of it is in the events file, in order, and nothing is  *)
(* left unread when Workload returns but behind a line beyond the buffer.  *)
OutputInv == OutputIsKept /\ EventsAreNoted /\ Markers /\ Drained

THEOREM OutputIsFollowed == Spec => []EventsFollowOutput
<1>1. Init => ExitInv
  BY DEF Init, ExitInv
<1>2. Init => OutputInv
  <2> SUFFICES ASSUME Init PROVE OutputInv
    OBVIOUS
  <2>1. log = <<>> /\ out = <<>> /\ printed = <<>> /\ events = <<>> /\ stdoutLoop = "off"
        /\ main = "setup" /\ writers = {}
    BY DEF Init
  <2>2. EventsAt(log) = {} /\ EventsAt(events) = {} /\ Noted = {}
    BY <2>1 DEF EventsAt, Noted
  <2>3. PICK at \in [EventsAt(events) -> Noted] : TRUE
    <3>1. [k \in EventsAt(events) |-> k] \in [EventsAt(events) -> Noted]
      BY <2>2
    <3>. QED
      BY <3>1
  <2>4. EventsAreNoted
    BY <2>2, <2>3 DEF EventsAreNoted, NotedBy
  <2>5. OutputIsKept
    BY <2>1 DEF OutputIsKept
  <2>. QED
    BY <2>1, <2>4, <2>5 DEF OutputInv, Markers, Drained, PipeInv
<1>3. Typed /\ ExitInv /\ OutputInv /\ [Next]_vars => OutputInv'
  BY TypedOutput, StepKeepsOutput, StepKeepsNoted, StepKeepsMarkers, StepKeepsDrained
  DEF OutputInv, Drained
<1>4. OutputInv => EventsFollowOutput
  BY DEF OutputInv, OutputIsKept, EventsAreNoted, Markers, Drained, EventsFollowOutput
<1>. QED
  BY <1>1, <1>2, <1>3, <1>4, StepKeepsExit, AlwaysTyped, PTL DEF Spec
=============================================================================
