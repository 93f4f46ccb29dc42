# A verification model of rigscope

rigscope is a daemon that samples a machine's sensors once per interval, keeps
the points in an on-disk time series store, and shows them to browsers over
HTTP and WebSocket. The same code also runs a workload under measurement
(`rigscope run`), draws a terminal dashboard and installs itself as a service.
This directory holds TLA+ models of its logic, the TLC configurations that
check them on small instances, and proofs for every value of the constants.

Source paths below are relative to the repository.

## 1. Inventory

| component | state it keeps | operations | talks to | hard behaviours | what makes it correct |
|---|---|---|---|---|---|
| Sampler (`internal/collectors/collectors.go`) | per collector key: `inFlight`, `startedAt`, `generation`; per round: `records`, `pending`, result channel | `SampleAll`, `tryStart`, `sampleCollector`, `finish` | one goroutine per collector; called by Monitor, the runner and the TUI | a collector that hangs, answers after the timer, is restarted as stale while its old goroutine runs | every round is answered once per collector, by that round; a goroutine never hangs on its result; restarts are bounded |
| Monitor (`internal/monitor/monitor.go`) | the failing collectors, the rate transformer | `Run`, `sample`, `logFailures` | Sampler, Store.Insert, Server.PublishSample | samples longer than the interval, inserts that fail, cancellation | one line per incident; live and stored data agree; it stops |
| Counter rates (`internal/series/rate.go`) | last value and time per counter | `Transform` | Monitor, runner, TUI | restarts of counters, gaps, equal timestamps | no rate is negative; nothing is counted twice or lost |
| Flattening and keys (`internal/series/series.go`) | none | `FlattenSample`, `Point.Key` | Monitor | labels, GPU records | one key per series |
| Store (`internal/store/store.go`) | tstorage, the metric list | `Open`, `Insert`, `Query`, `Metrics`, `Close` | Monitor, Server | partial failure, a crash, close while requests run | whatever is shown can be looked up; nothing is written after close |
| WebSocket hub (`internal/web/websocket.go`) | the clients and each one's bounded channel | `Broadcast`, `ServeHTTP`, `writeLoop`, `readLoop`, `close` | Monitor's goroutine, two goroutines per client | slow browsers, three closers, full channels | a client gets a gapless run of samples; Broadcast never waits for one |
| HTTP server (`internal/web/web.go`) | the hub, the store, the layout file | the API handlers, `listenAndServe` | Store, Hub, browsers | shutdown with requests in flight, overlapping writes of the layout | requests are drained before the store closes; the layout is one that somebody saved |
| Queries (`internal/web/web.go`, `static/app.js`) | none | filter, rates, thinning, merging, gaps | Store, browser | rounding, seams, breaks in a series | an answer is the series at the resolution it owes |
| Layout (`internal/web/graphs.go`) | none | default graphs, normalisation | HTTP API | layouts of earlier versions, sensors found later | normalising settles and keeps what the user chose; no sensor is lost or shown twice |
| Browser (`internal/web/static/app.js`) | points per graph and series, range, zoom | history loads, live points, merging | HTTP API, WebSocket | a late response overtaken by live points | no point is lost or drawn in another series |
| Daemon (`cmd/rigscope/main.go`) | context, services, store | `serveCommand`, `runServices` | Monitor, HTTP server | one service failing, signal at any point | it stops both services, closes the store after them, reports the error |
| Workload runner (`internal/run/run.go`) | recording flag, last markers | `Workload`, sample loop, stdout/stderr readers | Sampler, the child process | the child exits while a sample is taken; a pipe fills | the file holds samples only of the recorded window; it returns |
| Terminal dashboard (`internal/tui`) | the stream's position, the channel of events, the model: values, histories, badge, pause | dial, read, fall back, `Update` | the daemon; Sampler and Counter rates when it collects itself | the daemon is away, breaks off or restarts; a full channel; a pause | graphs lose and reorder nothing; the badge fits; the stream never stalls |
| Daemon client (`internal/daemon`) | none | one HTTP request per CLI command | the daemon | none | - |
| Corsair AXi (`collectors/corsair_axi*.go`, `usbfs_linux.go`) | the device, the connector whose turn it is, connector readings | `Sample`, exchanges with a USB dongle | the Sampler, a PSU | late, lost and damaged replies, reconnects, pages that settle | a reading is of its register and page; connectors take turns |
| RAPL (`collectors/rapl_linux.go`) | the previous reading of each zone | `Sample` | the Sampler, sysfs | wraps and restarts, unreadable files, overlapping attempts, nested zones | power accounts for energy once |
| Other collectors (`collectors/proc.go`, `sysfs.go`, ...) | previous counters in three of them | `Sample` | sysfs, drivers | none | - |
| Service installation and control (`cmd/rigscope/service*.go`, `serve_windows.go`) | files, accounts and the service manager's state | install, uninstall, start, stop, restart, status; `Execute` | systemd, launchd, Windows SCM | a step that fails or is killed half-way, repetition, reboots, restarts by the manager | what can be started is whole; success means installed, or gone; the daemon ends first |

Interactions. `serveCommand` starts `Monitor.Run` and
`listenAndServe` side by side. The monitor's goroutine calls
`Sampler.SampleAll` (which starts one goroutine per collector), turns the
sample into points and rates, inserts them and calls `Server.PublishSample`,
which walks the hub's clients under a read lock and offers each the sample
without blocking. Each WebSocket client has a handler goroutine that drains its
channel and a reader goroutine that notices the browser going away. Requests
read the store in goroutines of `http.Server`. Everything stops through one
cancelled context.

The hazards (what is hard to test, where it bites, which property would catch
it) are in `PROJECT.json`, each at its line.

## 2. Modules

| module | models | checked with | proved in |
|---|---|---|---|
| `RoundService` | abstract: what one sampling round promises | as `ImplementsRoundService` | `SamplerProofs` |
| `Sampler` | `Sampler.SampleAll` and its goroutines | `MCSampler` | `SamplerProofs` |
| `Monitor` | `Monitor.Run`, `CounterRateTransformer`, `Store.Insert`, `logFailures` | `MCMonitor` | `MonitorProofs` |
| `SampleFeed` | abstract: what viewers of the live feed see | as `ImplementsFeed` | `ServerProofs` |
| `Hub` | `Hub`, `wsClient` and their goroutines | `MCHub` | `ServerProofs` |
| `Serve` | `serveCommand`, `runServices`, `listenAndServe`, requests | `MCServe` | `ServerProofs` |
| `Workload` | `run.Workload`, its loops, the command and its pipes | `MCWorkload` | `WorkloadProofs` |
| `TuiStream` | `stream`, `localStream` and the terminal dashboard's `Update` | `MCTuiStream` | `TuiStreamProofs` |
| `Dashboard` | editing the layout, saving it, what it hides, the layout file | `MCPage` | `PageProofs` |
| `GraphHistory` | one graph in the browser: history queries and live points | `MCPage`, `MCGraphHistory` | `PageProofs` |
| `LayoutRules` | `normalizeLayout` on layout files of every age | `MCPage` | `PageProofs` |
| `DefaultGraphs` | which series the default graphs take, and their units | `MCPage` | `PageProofs` |
| `Queries` | a series from the store through the daemon to the chart | `MCPage` | `PageProofs` |
| `Selections` | what loops and filters take from a list, used by `LayoutRules`, `Queries` and `Dashboard` | `MCPage` | `PageProofs` |
| `ServiceInstall` | `rigscope service` on Linux | `MCServiceInstall` | `ServiceInstallProofs` |
| `WindowsService` | `rigscope service` on Windows and `Execute` under the SCM | `MCServiceInstall` | `ServiceInstallProofs` |
| `LaunchdService` | `rigscope service` on macOS | `MCServiceInstall` | `ServiceInstallProofs` |
| `Rapl` | the RAPL collector and the counters it reads | `MCCollectors` | `CollectorProofs` |
| `CorsairAxi` | the AXi collector, the dongle and the PSU behind it | `MCCollectors` | `CollectorProofs` |
| `AxiCodec` | the dongle's frames and `linear11` | `MCCollectors` | `CollectorProofs` |

`MCPage`, `MCServiceInstall` and `MCCollectors` check modules side by side that
do not interact: a variable that never changes (`subject`, `platform`) says
which one moves, the others keep their initial state.

### Sampler

State: `states` is `Sampler.states` by collector; `tasks` are the goroutines in
`sampleCollector` (`sampling`, `sending`, `finishing`); `results` are messages
in the result channels, each carrying its round because each `SampleAll` makes
its own channel; `records`, `pending`, `next`, `startTime` are locals of
`SampleAll`. `startedAt` in a goroutine's record exists for the properties only.

Actions: `BeginRound` (up to the loop), `Refuse` and `Start` (the two outcomes
of `tryStart` in the loop), `LoopDone`, `Receive`, `TimeOut`, `GiveUp` (the
three cases of the select; when several are ready any one runs), `Return`;
`SampleReturns`, `Send`, `Abandon`, `Finish` for a goroutine. What a collector
returns is not distinguished: error and metrics both are an answer. The
channel's capacity is modelled, so a blocking send would show.

### Monitor

Each collector is one counter series. `device` is the kernel's counter, which
may count (`Count`) and restart (`Restart`) between any two steps, including
between the sample's timestamp and the moment the value is read (`Answer`).
`Process` is `logFailures`, `FlattenSample` and `Transform` in the
code's order, `Insert` and `Publish` what follows. `DaemonRestart` may come at
any point, as a crash, and after `Run` returned: the process forgets everything,
the storage keeps what it was given but for what a crash may lose, which may be
part of the insert under way. Duplicate collector names do
not occur: each detector registers at most one collector per name. History
variables (`grown`, `first`, `counted`, `earlier`, `before`, `restarted`,
`squeezed`, `warned`, `recovered`, `unsaved`) record what the properties speak of and influence nothing.

### Hub

`Broadcast` holds the read lock (`broadcast = "offering"`) and visits the
clients in any order; `Enqueue` and `Overflow`/`Evicted` are the select and its
default case. `close()` is two steps (`done` is closed, then the connection)
and a second caller waits in `once.Do`. `Add`, `Greet`, `SeeDone`, `Dequeue`,
`Beat`, `Written`, `WriteFails`, `Remove` are the handler, `ReadFails` the
reader. A write to a browser that stalls never completes and has no deadline.

### Serve

The monitor is reduced to its control (sampling, inserting, waiting) and the
web server to the listener and the requests' use of the store. Signals and
listener failures may come at any point; `errc`, `received` and `result` are
`runServices`' locals.

### Workload

`main` and `step` are `Workload`'s position; its setup is a table of what each
step opens (`Acquired`), and `SetupFails` may strike at any of them. `held` are
open files and pipe ends. `sampleLoop`, `stdoutLoop`, `stderrLoop` are the
three goroutines. The command is an environment that prints lines, forks and
ends at will; a line is reduced to what `handleEvent` makes of it, plus `long`
for one beyond the scanner's buffer. `starts`, `stops` and `strays` are
history variables.

### GraphHistory

A point is its series and time. `store` is what the daemon has, `wire` the
WebSocket, `chart` the datasets, `data` and `loadedFrom` the page's `graphData`
and `graphRanges` entries of this graph. `Deliver` is
`applyLivePointsToCharts` with everything it calls; `WindowArrives` and
`OlderArrives` are the continuations of the two kinds of query, whose answers
come in any order or not at all; `Pan` starts the second kind. `Rebuild` is
`refreshAllGraphs`. `trusted` records that what was loaded last belongs to the
present chart: answers to queries of an earlier chart are not told apart by
the code, and may replace newer data. The daemon of this module is not restarted
with less to list: `GrowCatalog` gives the graph its second series, and nothing
takes one away.

### Dashboard

`layout` is the page's, `cards` and `drawer` the DOM, `saves` the PUTs under
way with the layout each carries. An edit changes `layout` at once and renders
the page when its save is answered, so further edits may come in between, on
cards that are out of date. `Truncate` and `Write` are `os.WriteFile`;
`SaveFails` is a lost request, a crash or a full disk. `Reload` is `init` of a
new page, perhaps after a restart of the daemon, when it knows fewer graphs; a page
that could not read its layout stays empty. `RefreshCatalog` is
`refreshCatalogFromServer`: the open page takes over what the daemon lists, less
than before after a restart, and is rendered only if a listed graph is new or has
another number of series. Cards and drawer entries of graphs that merely went
(`Forgotten`) stay until something else renders the page.
`calm` and `stale` record failures and overlaps for the properties.

### ServiceInstall

Files, the data directory's owner and the accounts are variables; a file can be
`Torn`, because `os.WriteFile` and `io.Copy` truncate before they write.
`systemd` is what the code needs of it: the unit in memory, whether it is
enabled, the daemon it runs. Every call of `serviceInstall` and
`serviceUninstall` that changes one of these is an action, named by `pc`;
`Fails` is an error of a step or a kill before it, `CopyFails` the clean-up in
`installBinary`. The last command that succeeded stays in `cmd` until the next
begins, so that the properties can speak of its promise through reboots and
crashes of the daemon. One administrator runs one command at a time, a command
is given the same paths as those before, and writes reach the disk in order:
the code neither locks nor syncs.

### TuiStream

`stream` is where the goroutine is; to send is a step of its own ("sending",
with `event` and `after`), because the channel holds eight. A `waitEvent`
command is a reader of the channel (`readers`), and what it returned waits in
`arrived` for Bubble Tea to pass it to `Update`. `wire` and `conn` are the
connection; the daemon may sample, break off, go and come at any time. `made` and
`skipped` are history variables. A point's value is the time of its sample.

### LayoutRules, DefaultGraphs, Queries

`LayoutRules` loads (`Load`) and saves (`Save`) a file of `Files`, each time
through `Normalize`, whose helpers have the code's names. `Visible` is what a
page shows of a layout. `DefaultGraphs` has a catalog that grows by one metric
at a time (`Discover`); a metric is the fields that `DefaultGraphs` looks at.
`Queries` has no state: `BatchSeries` is the daemon's answer, `MergePoints` and
`Missing` are what the page does with it. In `LimitPoints` the code multiplies
an index by a floating-point step and truncates; a product that is whole may
come out just below, and `short` is the set of indices where it does, so any
rounding the machine may choose is covered.

What a loop keeps of a list is `Selected(s, places)`: the elements at some places,
in their order, found by counting (`Ascending`). The library's `SelectSeq` and
`SortSeq` say the same by recursion, about which nothing can be proved
(section 4). A sorted list is its elements in ascending order for the same reason
(`MergePoints`, and `Median` of the distances that `gapThresholdForPoints` sorts).

### WindowsService, LaunchdService

Both share `ServiceInstall`'s conventions. On Windows the SCM keeps a record of
the service, a state the process reports and a pending start (after an error, a
crash or a boot); `Launch`, `ReportRunning`, `TakeStop`, `ServeEnds` and `Exit`
are `Execute` and the goroutine of `serveCommand` in it. An executable in use
cannot be replaced; `removeInstalledBinary` then leaves it to the next boot
(`doomed`). `surprises` records what Windows did behind a command's back. On
macOS launchd has the property list of the job it loaded and the daemon it runs.

### Rapl, CorsairAxi, AxiCodec

`Rapl`: energy is used in units by `Parts`, and every zone that contains the
part counts it, modulo `wrap`. An attempt takes the mutex, reads a zone's file
(`Read`) and later takes the time and stores both (`Stamp`), so energy used in
between is what the code would misplace. `spent` and `used` are the truth about
an interval, `reported` what the power stands for, `lost` the zones of which an
interval could not be told.

`CorsairAxi`: a Sample is the list of register operations it has yet to do
(`todo`), each a command, a status poll and for reads a read of the dongle's
memory. `inbox` and `outbox` are messages on the way; the dongle answers each
in order, at any time, or the message is lost. `TimesOut` gives up and closes
the device, and what was on its way may still arrive at the next one. A value
carries the register and page it was measured in and whether the page had
settled. `misled` is a history variable: it turns true when the dongle is opened while
a model's name, left over from an earlier opening, waits behind three other replies or
messages, where this opening may take it for its own (`Misleading`). `AxiCodec` has the frames as sequences of bytes.

## 3. Runs, bounds, and what they show

| run | instance | shows |
|---|---|---|
| `sampler` | 2 collectors, 3 rounds, 4 instants, timeout and stale window of 1 | overlaps only after the stale window; refinement of `RoundService`; a goroutine with a result never waits; every round returns |
| `monitor` | 2 counters up to 2, 4 samples, 3 instants, any restarts | rates, failure lines, history, catalog and live view, through crashes |
| `hub` | 2 clients, channels of 1, 2 samples | gapless feed; Broadcast returns, closed clients leave |
| `serve` | 2 requests | shutdown order, drained requests, termination |
| `workload` | pipes of 1 line, 3 lines, 2 samples, recording off at first | events, recorded window; the run ends, with two exceptions that RunEnds names |
| `page` | `Dashboard`: 2 builtin graphs, 1 copy, 3 edits, with 2 saves at a time or with one and a catalog that grows and shrinks; `GraphHistory`: ranges 1 and 3, 5 instants, 2 charts, 2 queries at a time; `LayoutRules`: up to 3 graphs in order, every one hidden or copied; `DefaultGraphs`: 11 metrics found in any order; `Queries`: 11 points with any break, all roundings of one index or of all, rates of up to 5 points with any values | page, layout and file agree and other graphs are left alone; points are in their series, complete, and kept in step with the chart; old layouts settle; default graphs show all; answers are whole |
| `graph_history_pan` | 4 instants, 1 chart | expected violation: see Findings |
| `service_install` | 2 builds, 2 configurations, every command with every option, on 3 platforms | a unit file or a daemon always has its binary, data and accounts; success means installed, or gone; the daemon ends before its files change |
| `windows_reinstall` | the same | expected violation: see Findings |
| `tui` | 1 series, 4 instants, channel of 2, graphs of 2 points | graphs and badge follow the stream, which never stalls |
| `tui_fallback` | 1 series, a daemon that answers in time | expected violation: see Findings |
| `collectors` | `Rapl`: a package, its cores and a mirror, 3 units, 2 attempts, counters that wrap at 2; `CorsairAxi`: 1 register without pages, 2 rails, 2 connectors, 2 polls, 4 messages on the way; `AxiCodec`: 2560 words with every bit flipped | energy counted once; readings belong to their register; connectors take turns; words survive |

Why the bounds are enough. In `sampler` three rounds allow an attempt to go
stale, its successor to start, and the old one to finish in between, with both
results in flight; two collectors are the least for one to be received while
another is refused. In `monitor` four samples are the least with a rate before
and one after a restart of the daemon, and enough for a counter to be seen,
missed and seen again (gap); values up to 2 let it grow before and after a
restart of its own. In `hub` a channel of one is full after one
sample, so every overflow interleaving occurs with two clients, and the second
sample is the first that could be lost in a gap. In `workload` a pipe of one
line is full after one, so every reader, writer and waiter blocks on every
other; three lines make start, stop and one more. A recording that is on from
the beginning is left to the theorems of `WorkloadProofs`, which hold for both.
In `page`, five instants leave samples after the page was opened on both sides
of a query's answer, and two charts one answer too late; three edits are copy,
restore, and one more (and hide, open the drawer and delete); two saves are the least that
overlap. Overlapping saves and changing catalogs are explored side by side (`EditNext`), each with
all the edits; `PageProofs` has them together; a layout of three
graphs has both old power graphs and another one in every order; the metrics
have one for each rule of `DefaultGraphs` and one that just fails it; eleven
points at a spacing of three are thinned to four and five. In `service_install`
the second build and configuration are an upgrade; any number of commands may
follow each other. In `tui` three samples overfill a graph of two points
and, with a notice, a channel of two. In `collectors` counters that wrap at 2
wrap within and between readings; a sample of the AXi collector with the
constants of the run takes the 15 messages a page needs to settle (`SettleAfter`)
and not one more, as `AxiConstants` demands; in the code it is 56 messages, 1 ms
apart, against 50 ms; three messages on the way are the least that put a reply
out of step by a whole operation, and four the least with which an opening can be
misled (section 5). The bounds `MaxTime`, `MaxRounds`, `MaxValue`,
`MaxSamples`, `MaxLines`, `MaxBuilds`, `MaxLoads`, `MaxCopies`, `MaxEdits`,
`MaxSaves`, `MaxEnergy` appear only in guards, and so does `Held`, which stands for
what a dongle can hold. `Cap` stands
for the code's 64, `Timeout` and `StaleAfter` for 2 s and 20 s.

Deadlock is checked in every run but those of `MCTuiStream` (once the user has
left and no daemon runs, nothing is left to happen): the explicit stuttering steps `Exhausted`,
`Idle`, `Over` and `Exited` name the states in which the modelled part may stop.

### Fairness

- Sampler: runnable goroutines run and time passes. Nothing makes a collector's
  `Sample` return.
- Hub: weak fairness of what the goroutines do by themselves. None for
  `Written` or `PeerLeaves`: a browser may stall for ever.
- Serve: weak fairness of the process's own steps; strong of the monitor's stop,
  because a select whose ctx.Done stays ready does not pass over it for ever
  though a tick may be ready as well (Go chooses among ready cases at random).
  None for requests, a client may be as slow as it likes.
- Workload: goroutines run and a done context is seen, as above; a killed
  process ends. None for the command, for processes it leaves behind, or for a
  collector.
- TuiStream: the stream's goroutine, the `waitEvent` goroutines and the
  program's loop run. None for the daemon, the network or the user.
- The page, service installation and the stateful collectors state safety only.

### Findings

Three runs show where the code does something else than its comments or the
README say. In all three the code is what is modelled; the property is the
sentence.

`graph_history_pan`: the comment in `applyLivePointsToCharts` says that live
points are appended to the loaded history so that rebuilding a chart from it,
after loading older data on pan, does not drop them. `appendLiveGraphData`
returns early while there is no loaded history. If the first history query is
still under way, or failed, live points are drawn and not kept; a pan then loads
older data, fills the chart from it alone and drops them. `PanKeepsPoints` is
the comment's promise, and the run's counterexample has four steps.

`tui_fallback`: the README says that the terminal dashboard "uses a running
daemon when one is available and otherwise collects locally", and its help
screen says it "consumes the daemon stream when available". `stream` calls
`localStream` after the first dial that fails and returns with it, and
`localStream` never dials again. A dashboard started before the daemon, or one
whose daemon takes more than the second's wait to restart, goes on collecting
by itself. `UsesRunningDaemon` asks for a connection in the end when the daemon
stays up and answers in time; the counterexample, under fairness, is one dial
that came too early.

`windows_reinstall`: the README says that install "copies the running binary
into place, registers the service to start at boot, and starts it". On Windows
`rigscope service uninstall`, run from the installed binary, cannot delete it,
and schedules that for the next boot. A later install before the boot puts a
new binary at the same path and takes nothing back; the boot then deletes it, and
the service has nothing to start. `InstallSurvivesBoot` asks that a binary that
was installed is there until another command.

## 4. Proofs

All theorems hold for every value of the constants; the bounds are arbitrary
naturals there. Assumptions: `SamplerConstants`, `MonitorConstants`,
`HubConstants`, `WorkloadConstants`, `TuiConstants`, `DashboardConstants`,
`HistoryConstants`, `QueryConstants` (counts, capacities, ranges and bounds are naturals;
the page asks for more than two points), `ServiceConstants`
(a build or a configuration is not one of the two marks for absent and torn
files), `RaplConstants` (a zone's range is the one it wraps at, or unreadable; there
are finitely many zones, and those of one driver that are named package or dram
measure different parts of the machine, which is how the hardware names them),
`LayoutConstants` (a layout file has lists of names, of any length; `null`, which stands
for a file without tiles, is none of them), `PresetConstants` (the units the collectors give the metrics of the default
graphs: among the listed names only those of power supplies are in watts,
`gpu_power_w` is in watts and no limit; the units are constants in
`internal/series/series.go:117,122`, `internal/collectors/sysfs.go:270,296`,
`corsair_axi_linux.go:161-227`, `xdna.go:75`, `proc.go:105` and `windows.go:123`),
`AxiConstants` (numbers of registers, rails and connectors are positive, and a Sample
has as many messages as a page needs to settle), finiteness where cardinalities are
used.

`SamplerProofs`. `TypeCorrect`, then two layers. `AttemptInv`: a running
attempt of an older generation was started more than `StaleAfter` before its
key's newest start, generations are unique, `inFlight` is set exactly while the
newest one runs. This is needed because `finish` looks only at the generation.
`RoundInv`: goroutines and results belong to opened rounds, at most one of each
per collector and round, indices from `next` on are untouched, `pending` is the
number of nil records already visited, and each of them has a goroutine or a
message underway. The steps of the loop and of the select move one index
between these sets, which is where cardinality lemmas are used.
`SendIsNonBlocking` counts messages of a round against collectors.
`SamplerKeepsPromise` maps each step to a step of `RoundService` or a stutter.

`MonitorProofs`. The rate properties need `GrowthCovered`: what the emitted
deltas of this process and those before it add up to, plus what the value in
hand and the value in the device can still add, is at most what the counter has
counted; a restart of the counter moves value out of the device without adding
to it, one of the daemon forgets the value it compared with. `GapsAreBridged`
needs `ValuesOrdered`: a counter that never restarted is remembered, read and
held in this order. `ViewersFindTheirSeries` needs `ListedFirst`.

`ServerProofs`, the hub. The step that needs an invariant is `Written`: the sample put on
the wire must be the one after those already there. `HubInv` traces it back:
a client that may still be written to (`Streaming`) has in its channel exactly
the samples after the one last taken out, up to the last one offered, with the
hello at one place among them (`Queued`), and what is in hand is the last one taken
(`Gapless`); `Places` says who is on the map and still to be offered the
sample. An overflow leaves a hole only in the channel of a client whose
connection is closed before the next sample can be offered (`Evicted` waits for
`once`), and such a client is not streaming any more. `HubKeepsPromise` then
maps `BeginBroadcast`, `Add` and `Written` to steps of `SampleFeed`.

`ServerProofs`, the daemon's life. `ServeInv` is the conjunction of `Lifecycle` (where the services
and the store are at each point of `serveCommand`), `Accounting` (every service
that returned has its error in `errc` or received), `Cause` (who can have
cancelled the context) and `Draining` (which requests can be active).

`WorkloadProofs`. The types hold together with `NotingInv` (a line being noted is an
event line, the last one logged), and the other three theorems each rest on one
small inductive invariant. `WindowInv`: the samples recorded or about to be while
recording was off number at most the stops, and a sample needs recording to have
been on from the beginning or a start line. `FilesInv`: until newSession has
returned, what is open is exactly what its own error path closes by hand; after
that, the deferred calls close everything. `ExitInv`: process_exit is among the
events only when Workload has returned, and then no loop runs.
`OutputIsFollowed` cannot be had by computing the events of a log, which would
be a recursive function over it. `EventsAreNoted` says instead that there is a
map (`at`) from the events that came from the command to the places of the log's
event lines, increasing and onto; a line read extends the map by one place.
`OutputIsKept` (the log followed by what is in the pipe is what was printed) and
`Drained` (a reader stops only at a line too long or when nothing can be printed any
more) make it an account of all the output.

`ServiceInstallProofs`. `IInv` says what each step of an installation and a
removal may rely on (`InstallProgress`, `UninstallProgress`, `VerbProgress`) and
how the machine's parts belong together (`Belongings`): data owned by the service means
that its accounts exist, and without a unit file nothing is enabled or runs.
The last is why `serviceUninstall` disables before it removes anything, and why
`serviceInstall` writes the unit last. The two other platforms have invariants
of the same shape. On Windows it also follows the daemon and the SCM between two
steps of a command: a binary is replaced, and a record or the data removed, only
where the process has been seen to end, unless `surprises` names what Windows
did meanwhile. `ServicesCorrect` joins the three for the specification that the
run checks, where one platform moves and the others keep their initial states.

`TuiStreamProofs`. The types include that a `waitEvent` or an event, and never
two, is between the channel and `Update`, which is what keeps events in order.
`BadgeIsRight` rests on `NewestFits`: the newest event, wherever it is, fits the
place the stream is in or will go on to after sending it. `GraphsAreRight` looks at
all events between the stream and `Update` as one queue (`Pipe`), which a send and a
read leave as it is: only making an event and applying one change it.
`OrderInv` says that samples in this queue are later than those handled and each later
than the one before it, that those on the wire are later still, and that what a pause
skipped was handled; so a sample that is applied is the newest of all.

`PageProofs`, a graph's history. `History!IInv` adds to the three properties what is
on its way. `OnTheWire`: the wire holds the newest samples, each with every
point the server stored for its time, and a sample that is neither delivered nor
on the wire is in `missed`; so when `Deliver` draws a sample, nothing before it is
missing without being accounted for. `OnTheirWay`: a query of the present build asks
for the present version of the graph, which is what keeps an answer's points in
their series after the graph gained one. `Matched`: the loaded history has the
chart's series. The step that needs most is `Deliver`, whose appending and
trimming must leave chart and history the same from `loadedFrom` on.

`PageProofs`, the layout. Orders are rows (`Rows`), sequences with no repetition. By
`SameRow`, two rows with the same elements, standing in the same order, are equal,
and the lemmas say of each operator (`Only`, `\o`, `InsertAt`, `Append`) which elements
it leaves and which of them stand before which; what a layout shows then is a
row by `ShownIsRow`. The invariant is `TypeOK`, in which no layout has a graph
twice or one that was never made, and `SavedInFile`: of a save that began alone
and went well, the page's layout is in the file, and `Loaded` differs from it only
in defaults that both hide (`Alike`). `PageShowsLayout` is inductive with these; the
step to look at is `Reorder`, which changes the cards and the layout but does not
render: `ArrangedIsShown` says that a layout whose order is what is shown, rearranged,
shows just that, and nothing more of it when graphs that are no longer listed are
among the cards. The other one is `RefreshCatalog`, which may leave the page as it is with
fewer graphs listed: a layout then shows what it showed, less the forgotten
(`FewerAreShown`, `RefreshCatalogKeeps`), and after a rendering nothing is forgotten
that is on the page (`NoneForgotten`). `EditsKeepOthers` compares two layouts graph by graph
(`SameWithout`): what an edit leaves is the same graphs, before the same graphs. It
holds for edits made beside forgotten graphs too.
`PageImplementsBoth` carries all of it to the specification the run checks.

`PageProofs`, what is there to start with. `DefaultGraphsAreWhole` needs of the catalog
only that its metrics are ones that may be found (`CatalogOK`); the rest is case
analysis over the graphs. Without the assumption on units it is false: a listed
metric in watts would be on its own graph and on the power graph.

`PageProofs`, layout files of older builds. `UpgradeOK` adds to `LayoutSurvivesUpgrade` that what
is loaded is `Normalize` of the file exactly, unless it has a copy of an old power
graph. That it stays so when it is saved and loaded is that `Normalize` changes nothing the
second time: `NormalizeIs` says what its five lists are, `IsMigrated` and `IsList`
what is true of lists that went through the migration and `normalizeIDList` once,
and `MigratedOnce` and `NormalizedOnce` that such lists stay as they are. `MigratedPlace` and
`MigratedOthers` follow the power graphs and the others through the renaming. What these
rest on is `SelectedTwice`: places taken of places taken are places taken.

`PageProofs`, queries. `HistoriesComeWhole` follows for the queries that the run makes from
two theorems about any query (`QueryOK` says that the run's are such). `ThinnedAnswersAreWhole`:
`LimitPoints` takes the points at the indices `Index(0)`, `Index(1)`, ..., quotients
of products that may each be rounded down by one. Two that follow each other are
between `Low` and `High` apart, whatever is rounded, and `High` is at most three times
`Low`. So no distance is more than three times the least, hence not more than
three times the median, and `gapThresholdForPoints`, which is three times the median,
finds no gap. The range and the points that the page asks for give `High` at most one
more than the spacing (`HighIsClose`, `PageAsksEnough`). `SeamsCutOneInterval`: a rate
is a pair of samples with none between them (`Grown`); such a pair is in one of the two
answers unless the seam lies strictly between its two samples, and both answers agree
on what they share (`MergedIs`).

`CollectorProofs`, RAPL. `RaplInv` says of each zone that the counter, the remembered
reading and the one in hand follow each other by the energy used in between,
modulo one turn (`ReadingsFollow`), that the mutex lets one attempt work at a time
(`OneAtWork`), and that a zone was read if and only if something is remembered
of it. `DeltaIsUsed` is the arithmetic: what `raplWatts` makes of two readings is
the energy used, unless the interval could not be told. It holds for any
zones, any ranges, any number of attempts and any power limit. `PowerIsCountedOnce` is
about several zones at once, and `PowerAddsUp` is not inductive: between two
readings the energy of a part has been used and not reported. `AccountsAddUp`
counts for each power zone what was reported, what an attempt has in hand and what
was used since it was read last; a unit that is used enters one account at most, since
no part is in two of these zones, and reading, stamping and failing only move it or
let it go. The sum over the zones is a fold of the community modules; `SumExists`
says that the function which it chooses exists, `SumGrows` how much it grows.

`CollectorProofs`, the codec. `WordsSurvive` is for all 65536 words: a table of sixteen
symbols (`SymbolsAre`, `SymbolsDiffer`), of which none becomes another one when a bit
is flipped (`FlippedIsNone`), frames of six symbols taken apart (`FrameDecodes`), and the
signed parts of linear11 put together again (`LinearIs`).

`CollectorProofs`, Corsair AXi. `AxiIInv` follows a Sample operation by operation. `Planned`:
what is left to do is the end of the `Plan` that the selection and the connector
determine (`PlanIs` says what is at each place of it, `OpInPlan` what its neighbours
are). `CatchingUp` is the part that makes replies without numbers work: the dongle
may hold any number of replies that an earlier opening left over, but none long enough
to be the model's waits where this opening could read it in place of its own, or
else the collector is `misled`; so such a reply is that to the message just sent,
and the queues are empty behind it. From there on
`InStep` holds: at most one message or reply is underway, it is that of the
operation, and once its command is handled the register and page are the
operation's. `Settling` counts the messages since the page was selected, three to
read and two to write a register: when the plan comes to the connector there have
been at least `3 * NumUnpaged + 5 * NumRails + 2`. `Turns` gives the exact age of
each connector's reading. `CatchingUp`, `InStep`, `Settling` and what they say of values hold
until the collector is misled; the types, the plan and the ages hold always, so that
connectors take turns even then. No theorem bounds `Held`.

Induction. The library's induction theorems take an operator as a parameter, which
the provers cannot instantiate. Where a claim is about finite sets or numbers of any
size (a sum over zones, the first of each name in a list), the proofs use
well-foundedness instead, which is first-order: if the claim failed, there
would be a smallest set for which it fails (`Minimal`, from `FS_StrictSubsetOrderingWellFounded`
and `WFMin`), or a least number (`Least`, `LeastOfSome`), and that one leads to a contradiction.

Every invariant that a run checks is proved. Only model-checked, and why:

- every liveness property (`EveryRoundReturns`, `DaemonStops`, `RunEnds` and the
  like), which needs ENABLED and fairness;
- the three properties that are expected to fail.

The types of Sampler, Monitor, Hub, Serve,
Workload, ServiceInstall, TuiStream, Rapl, CorsairAxi and the page are proved and not checked again by a
run, and so are the properties that hold closer to the code's own guards:
`InFlightTracksNewest`, `RecordsOfThisRound`, `RatesArePlausible`, `ExitTellsWhy`,
`ClosedOnReturn`, `ExitEventIsLast`. Every inductive invariant was an invariant of a
run before it was proved.

## 5. Not modelled, and what the properties leave out

Pure I/O and presentation stay out: reading and parsing of sensor files, driver
bindings, USB enumeration, drawing, argument parsing, JSON, the WebSocket
handshake and frame codec, labels and units, tstorage (external). The daemon
client is one request and one answer without state. `status` of the service only
reads.

What the properties except, because the code does not hold it:

- A dashboard layout with a copy of one of the two old power graphs hides the
  new power graph only at the second load (`LayoutSettles`).
- An answer to a query of an earlier chart may replace newer data
  (`GraphHistory`, `trusted`).
- Overlapping or failing saves can leave a layout file that is no layout
  (`ReloadShowsTheSame` promises nothing then).
- A client whose channel fills up before its hello waits for ever
  (`ClosedClientLeaves`); a workload waits for hung collectors and left-behind
  processes (`RunEnds`).
- On Windows the SCM may start the service while a command is at work, and the
  service is reported Running before the store is open (`DaemonEndsFirst`,
  `SuccessMeansDone`).
- The thinned answer may end at the last point but one, when the rounded index
  falls short (`ThinnedIsWhole`). On long ranges the page merges pieces of different
  density, and its gap threshold, a median of all of them, can then show gaps in
  the sparser ones; there is no property about merged pieces that were thinned.
- AXi readings are their own until an opening is misled (`ReadingsAreTheirOwn`, and the
  settling in `ConnectorsTakeTurns`): Samples that fail one exchange later each
  leave the replies of a whole opening behind, and the next opening takes the model's
  name among them for its own and reads every register's answer from then on for
  another register. Nothing is promised of values after that, not even when the device has been
  closed and opened again. Without the exception TLC finds a counterexample with
  `Held = 4`, the bound of the run, and none with 3. It takes a dongle that keeps unread
  replies through several openings, and what a real one keeps the repository does
  not say.
- On an open page the cards and drawer entries of graphs that a restarted daemon no
  longer lists stay until it is next rendered (`Forgotten`); `PageShowsLayout` and
  `EditKeepsOthers` are about the others.
- A restarted daemon lists a stored series only when it is sampled again
  (`ViewersFindTheirSeries`).
- An energy counter that turns more than once, restarts, or is read twice at
  one instant loses that interval (`EnergyIsAccounted`).

Left out although it is state: `Handler` sets `Server.Hub` while the first
sample may read it, a data race on one pointer whose outcomes are a broadcast or
none; two overlapping attempts of the CPU and network collectors share their
previous readings without a lock; the AXi device's path is found once, so a dongle
that gets another number is not found again; the page's coalescing of catalog and
energy refreshes, the lightbox and the energy summary; the help screen and the
layout of graphs in the terminal dashboard.

What would add most next: a model of the collectors that keep a previous reading
without a lock, and a property of thinned pieces of different density once merged.
