------------------------------ MODULE Workload ------------------------------
(***************************************************************************)
(* run.Workload: start a command, sample the collectors beside it while    *)
(* recording is on, read what it prints, and let lines it prints turn      *)
(* recording on and off.  The processes are Workload itself, sampleLoop,   *)
(* stdoutLoop and stderrLoop, the command (the child) and whatever the     *)
(* child leaves running, which inherits its ends of the pipes.             *)
(*                                                                         *)
(* A line is what it means to stdoutLoop: a recording event, another event *)
(* or a bad one, plain text, or a line too long for the scanner.  Writes   *)
(* to the output directory succeed once its files are open.                *)
(***************************************************************************)
EXTENDS Naturals, Sequences, FiniteSets

CONSTANTS
  RecordingInitially,   \* Config.RecordingInitially
  PipeCap,              \* lines a pipe holds
  MaxLines,             \* bound: lines printed to stdout, and to stderr
  MaxSamples            \* bound: samples counted

ASSUME WorkloadConstants ==
  /\ RecordingInitially \in BOOLEAN
  /\ PipeCap \in Nat \ {0} /\ MaxLines \in Nat /\ MaxSamples \in Nat \ {0}

EventLines == {"start", "stop", "point", "bad"}
Lines == EventLines \cup {"text", "long"}

(* What Workload opens, in this order; the last step starts the command.   *)
Acquired ==
  <<{}, {"events"}, {"samples"}, {"stdout"}, {"stderr"}, {},
    {"stdoutR", "stdoutW"}, {"stderrR", "stderrW"}, {}>>
NumSteps == Len(Acquired)
Files == UNION {Acquired[k] : k \in 1..NumSteps}

VARIABLES
  main,         \* "setup", "announcing", "waiting" in cmd.Wait, "joining" in wg.Wait, "returned"
  step,         \* the step of the setup to come
  held,         \* files and pipe ends Workload has open
  interrupted,  \* ctx is done
  runCtx,       \* "live", then "done"
  child,        \* "none", "running", "exited"
  writers,      \* processes with the write ends of the pipes: "child", "orphan"
  printed,      \* lines written to stdout, ever
  out,          \* lines in the stdout pipe
  err,          \* lines in the stderr pipe
  errPrinted,   \* number of lines written to stderr
  stdoutLoop,   \* "off", "reading", "noting" an event, "gone"
  log,          \* stdout.log
  stderrLoop,   \* "off", "reading", "gone"
  recording,    \* session.recording
  events,       \* events.jsonl
  sampleLoop,   \* "off", "checking", "sampling", "collecting", "selecting", "gone"
  samples,      \* number of samples in samples.jsonl
  starts, stops, strays  \* recording events obeyed, samples begun when recording was off

setup == <<step, held>>
childVars == <<child, writers, printed, errPrinted>>
pipes == <<out, err>>
reading == <<stdoutLoop, log, recording, events, starts, stops>>
sampling == <<sampleLoop, samples, strays>>
vars == <<main, setup, interrupted, runCtx, childVars, pipes, reading, stderrLoop, sampling>>

Init ==
  /\ main = "setup" /\ step = 1 /\ held = {}
  /\ interrupted = FALSE /\ runCtx = "live"
  /\ child = "none" /\ writers = {} /\ printed = <<>> /\ errPrinted = 0
  /\ out = <<>> /\ err = <<>>
  /\ stdoutLoop = "off" /\ log = <<>> /\ stderrLoop = "off"
  /\ recording = RecordingInitially
  /\ events = <<>>
  /\ sampleLoop = "off" /\ samples = 0
  /\ starts = 0 /\ stops = 0 /\ strays = 0

-----------------------------------------------------------------------------
(* Workload's setup: options and directory, newSession, writeMeta, pipes,  *)
(* cmd.Start.                                                              *)

Acquire ==
  /\ main = "setup"
  /\ step < NumSteps
  /\ held' = held \cup Acquired[step]
  /\ step' = step + 1
  /\ UNCHANGED <<main, interrupted, runCtx, childVars, pipes, reading, stderrLoop, sampling>>

(* newSession closes by hand what it opened, later failures leave it to    *)
(* the deferred calls.                                                     *)
ReleasedByNewSession == {"events", "samples", "stdout"}
InNewSession == step \in 2..5

SetupFails ==
  /\ main = "setup"
  /\ held' = IF InNewSession THEN held \ ReleasedByNewSession ELSE {}
  /\ main' = "returned"
  /\ UNCHANGED <<step, interrupted, runCtx, childVars, pipes, reading, stderrLoop, sampling>>

(* A command whose context is already done is not started.  Workload keeps *)
(* the read ends only, or the loops would never see the end of the file.   *)
Kept == {"events", "samples", "stdout", "stderr", "stdoutR", "stderrR"}

StartCommand ==
  /\ main = "setup"
  /\ step = NumSteps
  /\ ~interrupted
  /\ child' = "running"
  /\ writers' = {"child"}
  /\ held' = held \cap Kept
  /\ main' = "announcing"
  /\ UNCHANGED <<step, interrupted, runCtx, printed, errPrinted, pipes, reading, stderrLoop,
                 sampling>>

(* process_start, and the three goroutines.                                *)
Announce ==
  /\ main = "announcing"
  /\ events' = Append(events, "process_start")
  /\ sampleLoop' = "checking" /\ stdoutLoop' = "reading" /\ stderrLoop' = "reading"
  /\ main' = "waiting"
  /\ UNCHANGED <<setup, interrupted, runCtx, childVars, pipes, log, recording, starts, stops,
                 samples, strays>>

(* cmd.Wait returns when the child has exited, whoever holds its pipes.    *)
Waited ==
  /\ main = "waiting"
  /\ child = "exited"
  /\ runCtx' = "done"
  /\ main' = "joining"
  /\ UNCHANGED <<setup, interrupted, childVars, pipes, reading, stderrLoop, sampling>>

(* wg.Wait, process_exit, and the deferred calls.                          *)
Joined == sampleLoop = "gone" /\ stdoutLoop = "gone" /\ stderrLoop = "gone"

Return ==
  /\ main = "joining"
  /\ Joined
  /\ events' = Append(events, "process_exit")
  /\ held' = {}
  /\ main' = "returned"
  /\ UNCHANGED <<step, interrupted, runCtx, childVars, pipes, stdoutLoop, log, recording, starts,
                 stops, stderrLoop, sampling>>

-----------------------------------------------------------------------------
(* sampleLoop.                                                             *)

CheckRecording_Never == TRUE

CheckRecording == recording

Check ==
  /\ sampleLoop = "checking"
  /\ sampleLoop' = IF CheckRecording THEN "sampling" ELSE "selecting"
  /\ UNCHANGED <<main, setup, interrupted, runCtx, childVars, pipes, reading, stderrLoop, samples,
                 strays>>

(* SampleAll stamps the sample when it begins.                             *)
BeginSample ==
  /\ sampleLoop = "sampling"
  /\ sampleLoop' = "collecting"
  /\ strays' = IF recording THEN strays ELSE strays + 1
  /\ UNCHANGED <<main, setup, interrupted, runCtx, childVars, pipes, reading, stderrLoop, samples>>

(* The collectors, one after the other and without a time limit.  From     *)
(* MaxSamples on samples are no longer counted.                            *)
WriteSample ==
  /\ sampleLoop = "collecting"
  /\ samples' = IF samples < MaxSamples THEN samples + 1 ELSE samples
  /\ sampleLoop' = "selecting"
  /\ UNCHANGED <<main, setup, interrupted, runCtx, childVars, pipes, reading, stderrLoop, strays>>

TakeTick ==
  /\ sampleLoop = "selecting"
  /\ sampleLoop' = "checking"
  /\ UNCHANGED <<main, setup, interrupted, runCtx, childVars, pipes, reading, stderrLoop, samples,
                 strays>>

StopSampling_Never == FALSE

StopSampling ==
  /\ sampleLoop = "selecting"
  /\ runCtx = "done"
  /\ sampleLoop' = "gone"
  /\ UNCHANGED <<main, setup, interrupted, runCtx, childVars, pipes, reading, stderrLoop, samples,
                 strays>>

-----------------------------------------------------------------------------
(* stdoutLoop and handleEvent.                                             *)

HandleLine_StopsAtBad(line) ==
  /\ recording' = (line = "start" \/ (line # "stop" /\ recording))
  /\ starts' = IF line = "start" THEN starts + 1 ELSE starts
  /\ stops' = IF line = "stop" THEN stops + 1 ELSE stops
  /\ stdoutLoop' = CASE line = "bad" -> "gone" [] line = "text" -> "reading" [] OTHER -> "noting"

HandleLine(line) ==
  /\ recording' = (line = "start" \/ (line # "stop" /\ recording))
  /\ starts' = IF line = "start" THEN starts + 1 ELSE starts
  /\ stops' = IF line = "stop" THEN stops + 1 ELSE stops
  /\ stdoutLoop' = IF line \in EventLines THEN "noting" ELSE "reading"

(* The scanner's buffer: 16 MB for stdout, 64 kB for stderr.               *)
Fits(line) == line # "long"

ReadLine ==
  /\ stdoutLoop = "reading"
  /\ out # <<>> /\ Fits(Head(out))
  /\ out' = Tail(out)
  /\ log' = Append(log, Head(out))
  /\ HandleLine(Head(out))
  /\ UNCHANGED <<main, setup, interrupted, runCtx, childVars, err, events, stderrLoop, sampling>>

WriteEvent ==
  /\ stdoutLoop = "noting"
  /\ events' = Append(events, log[Len(log)])
  /\ stdoutLoop' = "reading"
  /\ UNCHANGED <<main, setup, interrupted, runCtx, childVars, pipes, log, recording, starts, stops,
                 stderrLoop, sampling>>

(* Scan ends at a line beyond the buffer, or when nobody can write more.   *)
ScanEnds(pipe, writeEnd) ==
  \/ pipe # <<>> /\ ~Fits(Head(pipe))
  \/ pipe = <<>> /\ writers = {} /\ writeEnd \notin held

StopReading ==
  /\ stdoutLoop = "reading"
  /\ ScanEnds(out, "stdoutW")
  /\ stdoutLoop' = "gone"
  /\ UNCHANGED <<main, setup, interrupted, runCtx, childVars, pipes, log, recording, events,
                 starts, stops, stderrLoop, sampling>>

(* stderrLoop.                                                             *)
ReadErrLine ==
  /\ stderrLoop = "reading"
  /\ err # <<>> /\ Fits(Head(err))
  /\ err' = Tail(err)
  /\ UNCHANGED <<main, setup, interrupted, runCtx, childVars, out, reading, stderrLoop, sampling>>

StopReadingErr ==
  /\ stderrLoop = "reading"
  /\ ScanEnds(err, "stderrW")
  /\ stderrLoop' = "gone"
  /\ UNCHANGED <<main, setup, interrupted, runCtx, childVars, pipes, reading, sampling>>

-----------------------------------------------------------------------------
(* The command, and the user.                                              *)

PrintLine(line) ==
  /\ writers # {} /\ main # "returned"
  /\ Len(out) < PipeCap /\ Len(printed) < MaxLines
  /\ out' = Append(out, line)
  /\ printed' = Append(printed, line)
  /\ UNCHANGED <<main, setup, interrupted, runCtx, child, writers, errPrinted, err, reading,
                 stderrLoop, sampling>>

PrintErrLine(line) ==
  /\ writers # {} /\ main # "returned"
  /\ Len(err) < PipeCap /\ errPrinted < MaxLines
  /\ err' = Append(err, line)
  /\ errPrinted' = errPrinted + 1
  /\ UNCHANGED <<main, setup, interrupted, runCtx, child, writers, printed, out, reading,
                 stderrLoop, sampling>>

Fork ==
  /\ child = "running"
  /\ writers = {"child"}
  /\ writers' = {"child", "orphan"}
  /\ UNCHANGED <<main, setup, interrupted, runCtx, child, printed, errPrinted, pipes, reading,
                 stderrLoop, sampling>>

ChildEnds ==
  /\ child = "running"
  /\ child' = "exited"
  /\ writers' = writers \ {"child"}
  /\ UNCHANGED <<main, setup, interrupted, runCtx, printed, errPrinted, pipes, reading, stderrLoop,
                 sampling>>

OrphanEnds ==
  /\ "orphan" \in writers
  /\ writers' = writers \ {"orphan"}
  /\ UNCHANGED <<main, setup, interrupted, runCtx, child, printed, errPrinted, pipes, reading,
                 stderrLoop, sampling>>

Interrupt ==
  /\ ~interrupted /\ main # "returned"
  /\ interrupted' = TRUE
  /\ UNCHANGED <<main, setup, runCtx, childVars, pipes, reading, stderrLoop, sampling>>

(* CommandContext kills the child alone: it leads a process group of its   *)
(* own, but the group is not signalled.                                    *)
Kill == interrupted /\ ChildEnds

-----------------------------------------------------------------------------
Over == main = "returned" /\ UNCHANGED vars

MainStep == Acquire \/ SetupFails \/ StartCommand \/ Announce \/ Waited \/ Return
SampleStep == Check \/ BeginSample
StdoutStep == ReadLine \/ WriteEvent \/ StopReading
StderrStep == ReadErrLine \/ StopReadingErr

Next ==
  \/ MainStep \/ SampleStep \/ WriteSample \/ TakeTick \/ StopSampling
  \/ StdoutStep \/ StderrStep
  \/ \E line \in Lines : PrintLine(line)
  \/ \E line \in {"text", "long"} : PrintErrLine(line)
  \/ Fork \/ ChildEnds \/ OrphanEnds \/ Interrupt \/ Over

Spec == Init /\ [][Next]_vars

(* Goroutines run, a done context is seen, a killed process ends.  The     *)
(* child, what it leaves behind and the collectors do as they please.      *)
FairSpec ==
  /\ Spec
  /\ WF_vars(MainStep) /\ WF_vars(SampleStep) /\ SF_vars(StopSampling)
  /\ WF_vars(StdoutStep) /\ WF_vars(StderrStep) /\ WF_vars(Kill)

-----------------------------------------------------------------------------
TypeOK ==
  /\ main \in {"setup", "announcing", "waiting", "joining", "returned"}
  /\ step \in 1..NumSteps
  /\ held \subseteq Files
  /\ interrupted \in BOOLEAN /\ runCtx \in {"live", "done"}
  /\ child \in {"none", "running", "exited"} /\ writers \subseteq {"child", "orphan"}
  /\ printed \in Seq(Lines) /\ log \in Seq(Lines \ {"long"}) /\ errPrinted \in 0..MaxLines
  /\ out \in Seq(Lines) /\ Len(out) <= PipeCap
  /\ err \in Seq(Lines) /\ Len(err) <= PipeCap
  /\ stdoutLoop \in {"off", "reading", "noting", "gone"}
  /\ stderrLoop \in {"off", "reading", "gone"}
  /\ recording \in BOOLEAN
  /\ events \in Seq(EventLines \cup {"process_start", "process_exit"})
  /\ sampleLoop \in {"off", "checking", "sampling", "collecting", "selecting", "gone"}
  /\ samples \in 0..MaxSamples
  /\ starts \in Nat /\ stops \in Nat /\ strays \in Nat

EventsAt(file) == {k \in 1..Len(file) : file[k] \in EventLines}

(* The log's event lines that are in the events file; the one stdoutLoop   *)
(* has in hand is not yet.                                                 *)
Noted == EventsAt(log) \ IF stdoutLoop = "noting" THEN {Len(log)} ELSE {}

(* The events file has the event lines there are so far: `at` is where in  *)
(* the log each of its events comes from, in order and without a gap.      *)
NotedBy(at) ==
  /\ \A k \in EventsAt(events) : events[k] = log[at[k]]
  /\ \A j, k \in EventsAt(events) : j < k => at[j] < at[k]
  /\ \A line \in Noted : \E k \in EventsAt(events) : at[k] = line

(* What the command printed is in the log or still in the pipe, and the    *)
(* events file has every event of the log, in order and once, between      *)
(* process_start and process_exit.  When Workload returns, all of it has   *)
(* been read, unless a line was too long for the scanner.                  *)
EventsFollowOutput ==
  /\ log \o out = printed
  /\ \E at \in [EventsAt(events) -> Noted] : NotedBy(at)
  /\ \A k \in 1..Len(events) \ EventsAt(events) :
       \/ k = 1 /\ events[k] = "process_start"
       \/ k = Len(events) /\ events[k] = "process_exit" /\ main = "returned"
  /\ main = "returned" /\ out # <<>> => Head(out) = "long"

(* Nothing is recorded outside the window the command asked for, but for   *)
(* the one sample that was about to begin when it said stop.  A run that   *)
(* starts paused records nothing before the first start.                   *)
WindowRespected ==
  /\ strays <= stops
  /\ samples > 0 => RecordingInitially \/ starts > 0

(* process_exit ends both files: no event and no sample comes after it.    *)
ExitEventIsLast ==
  [][\A k \in 1..Len(events) :
       events[k] = "process_exit" => UNCHANGED <<events, samples>>]_vars

(* Whichever step of the setup fails, nothing stays open.                  *)
ClosedOnReturn == main = "returned" => held = {}

(* Once the command has ended, or the user interrupted it, Workload stays  *)
(* for ever only if a collector hangs or someone else keeps the pipes.     *)
RunEnds ==
  <>[](main # "returned" /\ (interrupted \/ child = "exited"))
    => <>[](sampleLoop = "collecting") \/ <>[](writers # {})

-----------------------------------------------------------------------------
(* The inductive invariant behind these properties.                        *)

(* A sample about to begin when recording was switched off is paid for by  *)
(* the stop that did it.                                                   *)
WindowInv ==
  /\ strays + (IF sampleLoop = "sampling" /\ ~recording THEN 1 ELSE 0) <= stops
  /\ recording \/ sampleLoop \in {"sampling", "collecting"} \/ samples > 0
       => RecordingInitially \/ starts > 0

(* What is open before newSession has returned is what it closes.          *)
FilesInv ==
  /\ main = "setup" /\ step \in 1..5 => held \subseteq ReleasedByNewSession
  /\ main = "setup" /\ step = 1 => held = {}
  /\ main = "returned" => held = {}

(* The loops run from process_start to process_exit.                       *)
ExitInv ==
  /\ \A k \in 1..Len(events) : events[k] = "process_exit" => main = "returned"
  /\ main \in {"setup", "announcing"} =>
       sampleLoop = "off" /\ stdoutLoop = "off" /\ stderrLoop = "off"
  /\ main = "returned" => sampleLoop \in {"off", "gone"} /\ stdoutLoop \in {"off", "gone"}

(* The line being noted is the log's last one.                             *)
NotingInv == stdoutLoop = "noting" => log # <<>> /\ log[Len(log)] \in EventLines

(* Nothing is printed before the command starts, and stdoutLoop ends at a  *)
(* line it cannot read or when nobody is left to print one.                *)
PipeInv ==
  /\ main = "setup" => writers = {} /\ out = <<>> /\ events = <<>>
  /\ main = "announcing" => events = <<>>
  /\ stdoutLoop = "gone" /\ out = <<>> => writers = {}
  /\ stdoutLoop = "gone" /\ out # <<>> => Head(out) = "long"

WorkloadInv == WindowInv /\ FilesInv /\ ExitInv /\ NotingInv /\ PipeInv /\ EventsFollowOutput
=============================================================================
