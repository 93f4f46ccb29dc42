------------------------------- MODULE Serve -------------------------------
(***************************************************************************)
(* The daemon's life, serveCommand: open the store, run the monitor and    *)
(* the web server side by side (runServices), stop both when the context   *)
(* is cancelled or one of them returns, close the store, exit.             *)
(*                                                                         *)
(* The monitor is Monitor's loop without its data; the web server is       *)
(* listenAndServe, the goroutine that runs http.Server.ListenAndServe, and *)
(* the requests, which read the store.  WebSocket connections are hijacked *)
(* from the server, so Shutdown does not see them: they are in Hub.        *)
(***************************************************************************)
EXTENDS Naturals, Sequences

CONSTANT Requests   \* HTTP requests that may come in, each once

Services == {"monitor", "web"}

VARIABLES
  stopping,    \* a signal cancelled serveCommand's context
  cancelled,   \* runServices' context is done
  main,        \* where serveCommand is
  db,          \* the store: "none", "open", "closed"
  mon,         \* where Monitor.Run is
  web,         \* where listenAndServe is
  listener,    \* http.Server.ListenAndServe: "off", "listening", "failed", "closed"
  conns,       \* requests: "none", "connected", "reading" the store, "over"
  errc,        \* runServices' errc
  received,    \* errors runServices has received
  result,      \* serveCommand's result, nil as "none"
  gaveUp       \* Shutdown hit its 5 s limit (for the properties)

process == <<stopping, main, db>>
runner == <<errc, received, result>>
server == <<web, listener, conns, gaveUp>>
serveVars == <<process, cancelled, mon, server, runner>>

ServeInit ==
  /\ stopping = FALSE /\ cancelled = FALSE
  /\ main = "starting" /\ db = "none"
  /\ mon = "off"
  /\ web = "off" /\ listener = "off" /\ gaveUp = FALSE
  /\ conns = [r \in Requests |-> "none"]
  /\ errc = <<>> /\ received = 0 /\ result = "none"

Alive == main # "exited"

-----------------------------------------------------------------------------
(* signalContext, or the service manager.                                  *)
Signal ==
  /\ Alive
  /\ ~stopping
  /\ stopping' = TRUE
  /\ cancelled' = TRUE
  /\ UNCHANGED <<main, db, mon, server, runner>>

-----------------------------------------------------------------------------
(* serveCommand.                                                           *)

(* No log file, no collectors, or store.Open failed.                       *)
StartFails ==
  /\ main = "starting"
  /\ db = "none"
  /\ result' = "startup"
  /\ main' = "exited"
  /\ UNCHANGED <<stopping, cancelled, db, mon, server, errc, received>>

OpenStore ==
  /\ main = "starting"
  /\ db = "none"
  /\ db' = "open"
  /\ UNCHANGED <<stopping, cancelled, main, mon, server, runner>>

(* parseLogLevel fails when the store is already open.                     *)
BadLevel ==
  /\ main = "starting"
  /\ db = "open"
  /\ result' = "startup"
  /\ main' = "closing"
  /\ UNCHANGED <<stopping, cancelled, db, mon, server, errc, received>>

RunServices ==
  /\ main = "starting"
  /\ db = "open"
  /\ main' = "collecting"
  /\ mon' = "sampling"
  /\ web' = "serving"
  /\ listener' = "listening"
  /\ UNCHANGED <<stopping, cancelled, db, conns, gaveUp, runner>>

Keep(err) == IF result = "none" /\ err # "canceled" THEN err ELSE result

Collect_Only ==              \* the peers are not cancelled
  /\ main = "collecting"
  /\ errc # <<>>
  /\ result' = Keep(Head(errc))
  /\ errc' = Tail(errc)
  /\ received' = received + 1
  /\ UNCHANGED <<stopping, cancelled, main, db, mon, server>>

Collect ==
  /\ main = "collecting"
  /\ errc # <<>>
  /\ result' = Keep(Head(errc))
  /\ errc' = Tail(errc)
  /\ received' = received + 1
  /\ cancelled' = TRUE
  /\ UNCHANGED <<stopping, main, db, mon, server>>

Wanted_First == 1

Wanted == 2   \* for range services

Collected ==
  /\ main = "collecting"
  /\ received = Wanted
  /\ main' = "closing"
  /\ UNCHANGED <<stopping, cancelled, db, mon, server, runner>>

CloseStore ==
  /\ main = "closing"
  /\ db = "open"
  /\ db' = "closed"
  /\ UNCHANGED <<stopping, cancelled, main, mon, server, runner>>

Exit ==
  /\ main = "closing"
  /\ db = "closed"
  /\ main' = "exited"
  /\ UNCHANGED <<stopping, cancelled, db, mon, server, runner>>

-----------------------------------------------------------------------------
(* Monitor.Run.                                                            *)

MonitorMoves(from, to) ==
  /\ Alive
  /\ mon = from
  /\ mon' = to
  /\ UNCHANGED <<process, cancelled, server, runner>>

Sampled == MonitorMoves("sampling", "inserting")
Inserted == MonitorMoves("inserting", "waiting")   \* and published
TakeTick == MonitorMoves("waiting", "sampling")

MonitorStops ==
  /\ Alive
  /\ mon = "waiting"
  /\ cancelled
  /\ mon' = "returned"
  /\ errc' = Append(errc, "canceled")
  /\ UNCHANGED <<process, cancelled, server, received, result>>

-----------------------------------------------------------------------------
(* listenAndServe and its goroutine.                                       *)

(* The address cannot be bound, or accepting connections fails.            *)
ListenFails ==
  /\ Alive
  /\ listener = "listening"
  /\ listener' = "failed"
  /\ UNCHANGED <<process, cancelled, mon, web, conns, gaveUp, runner>>

WebReturns(err) ==
  /\ web' = "returned"
  /\ errc' = Append(errc, err)
  /\ UNCHANGED <<process, cancelled, mon, conns, received, result>>

WebFails ==
  /\ Alive
  /\ web = "serving"
  /\ listener = "failed"
  /\ WebReturns("listen")
  /\ UNCHANGED <<listener, gaveUp>>

(* Shutdown closes the listener first, then waits for the requests.        *)
BeginShutdown ==
  /\ Alive
  /\ web = "serving"
  /\ cancelled
  /\ web' = "shutting"
  /\ listener' = IF listener = "listening" THEN "closed" ELSE listener
  /\ UNCHANGED <<process, cancelled, mon, conns, gaveUp, runner>>

Active == {r \in Requests : conns[r] \in {"connected", "reading"}}

Drained_Now ==               \* Close in place of Shutdown
  /\ Alive
  /\ web = "shutting"
  /\ WebReturns("canceled")
  /\ UNCHANGED <<listener, gaveUp>>

Drained ==
  /\ Alive
  /\ web = "shutting"
  /\ Active = {}
  /\ WebReturns("canceled")
  /\ UNCHANGED <<listener, gaveUp>>

ShutdownGivesUp ==
  /\ Alive
  /\ web = "shutting"
  /\ Active # {}
  /\ gaveUp' = TRUE
  /\ WebReturns("canceled")
  /\ UNCHANGED listener

-----------------------------------------------------------------------------
(* Requests.  A connection accepted before the listener closed may still   *)
(* bring its request afterwards.                                           *)

RequestMoves(r, from, to) ==
  /\ Alive
  /\ conns[r] = from
  /\ conns' = [conns EXCEPT ![r] = to]
  /\ UNCHANGED <<process, cancelled, mon, web, listener, gaveUp, runner>>

Connect(r) == listener = "listening" /\ RequestMoves(r, "none", "connected")
ReadStore(r) == RequestMoves(r, "connected", "reading")
Answered(r) == RequestMoves(r, "reading", "over")

-----------------------------------------------------------------------------
Exited == main = "exited" /\ UNCHANGED serveVars

MainStep ==
  \/ StartFails \/ OpenStore \/ BadLevel \/ RunServices
  \/ Collect \/ Collected \/ CloseStore \/ Exit

MonitorStep == Sampled \/ Inserted

WebStep == WebFails \/ BeginShutdown \/ Drained \/ ShutdownGivesUp

ServeNext ==
  \/ Signal
  \/ MainStep
  \/ MonitorStep \/ TakeTick \/ MonitorStops
  \/ ListenFails
  \/ WebStep
  \/ \E r \in Requests : Connect(r) \/ ReadStore(r) \/ Answered(r)
  \/ Exited

ServeSpec == ServeInit /\ [][ServeNext]_serveVars

(* Goroutines run; SampleAll and Broadcast return (Sampler!RoundReturns,   *)
(* Hub!BroadcastReturns); select does not pass over ctx.Done for ever;     *)
(* Shutdown's timer fires.  No fairness for requests: a client may be as   *)
(* slow as it likes.                                                       *)
ServeFairSpec ==
  /\ ServeSpec
  /\ WF_serveVars(MainStep)
  /\ WF_serveVars(MonitorStep)
  /\ SF_serveVars(MonitorStops)
  /\ WF_serveVars(WebStep)

-----------------------------------------------------------------------------
Errors == {"canceled", "listen"}

ServeTypeOK ==
  /\ stopping \in BOOLEAN /\ cancelled \in BOOLEAN /\ gaveUp \in BOOLEAN
  /\ main \in {"starting", "collecting", "closing", "exited"}
  /\ db \in {"none", "open", "closed"}
  /\ mon \in {"off", "sampling", "inserting", "waiting", "returned"}
  /\ web \in {"off", "serving", "shutting", "returned"}
  /\ listener \in {"off", "listening", "failed", "closed"}
  /\ conns \in [Requests -> {"none", "connected", "reading", "over"}]
  /\ errc \in Seq(Errors) /\ Len(errc) <= 2
  /\ received \in 0..2
  /\ result \in {"none", "startup", "listen"}

(* The monitor never inserts into a store that is closed, and the store is *)
(* closed, which is what writes its newest points to disk, before exit.    *)
StoreOutlivesMonitor ==
  /\ db = "closed" => mon \in {"off", "returned"}
  /\ main = "exited" => db # "open"

(* No request reads a closed store, unless Shutdown ran out of time or the *)
(* server went down by itself, in which case nobody drains the requests.   *)
RequestsDrainedBeforeClose ==
  db = "closed" /\ (\E r \in Requests : conns[r] = "reading")
    => gaveUp \/ listener = "failed"

(* The daemon ends without an error only if it was told to stop, and with  *)
(* one only if something failed, so the service manager's restart policy   *)
(* sees the truth.                                                         *)
ExitTellsWhy ==
  main = "exited" =>
    /\ result = "none" => stopping
    /\ result = "listen" => listener = "failed"
    /\ result = "startup" => mon = "off"

(* What makes the exit truthful, as an inductive invariant: where the      *)
(* services and the store are at each point of serveCommand, that every    *)
(* returned service's error is accounted for, and who can have cancelled.  *)
Returned == (IF mon = "returned" THEN 1 ELSE 0) + (IF web = "returned" THEN 1 ELSE 0)

Lifecycle ==
  /\ main = "starting" => db \in {"none", "open"} /\ result = "none"
  /\ main = "collecting" => db = "open" /\ mon # "off" /\ web # "off"
  /\ main = "closing" => db \in {"open", "closed"}
  /\ main = "exited" => db # "open"
  /\ main = "starting" \/ result = "startup" <=> mon = "off"
  /\ mon = "off" <=> web = "off"
  /\ main \in {"closing", "exited"} /\ mon # "off" => mon = "returned" /\ web = "returned"
  /\ main = "exited" /\ db = "none" => mon = "off"

Accounting ==
  /\ received + Len(errc) = Returned
  /\ received > 0 => cancelled
  /\ \A k \in DOMAIN errc : errc[k] = "listen" => listener = "failed"
  /\ result = "listen" => listener = "failed"

Cause ==
  /\ ~cancelled => /\ mon # "returned"
                   /\ web # "shutting"
                   /\ \A k \in DOMAIN errc : errc[k] = "listen"
  /\ stopping => cancelled
  /\ cancelled => stopping \/ result = "listen"

Draining ==
  /\ web \in {"shutting", "returned"} => listener \in {"failed", "closed"}
  /\ web = "off" => listener = "off" /\ Active = {}
  /\ web = "serving" => listener \in {"listening", "failed"}
  /\ web = "returned" /\ ~gaveUp /\ listener # "failed" => Active = {}

ServeInv == Lifecycle /\ Accounting /\ Cause /\ Draining

(* Told to stop, or its web server failing, the daemon exits, however slow *)
(* its clients are.                                                        *)
DaemonStops == stopping \/ web = "returned" ~> main = "exited"
=============================================================================
