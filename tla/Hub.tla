-------------------------------- MODULE Hub --------------------------------
(***************************************************************************)
(* web.Hub: the monitor's goroutine broadcasts one sample after another    *)
(* into the clients' bounded channels; each client has a handler goroutine *)
(* (ServeHTTP, then writeLoop) and a reader goroutine (readLoop).  All of  *)
(* them may close the client, and only the handler takes it off the map.   *)
(*                                                                         *)
(* Samples are numbered as they are broadcast.  A frame handed to an open  *)
(* connection reaches the peer; when the peer stalls, writing just never   *)
(* ends.  Events always marshal.  Each client stands for one connection.   *)
(***************************************************************************)
EXTENDS Integers, Sequences

CONSTANTS
  Clients,
  Cap,         \* capacity of a client's send channel, 64 in the code
  MaxSamples   \* bound: samples broadcast

ASSUME HubConstants == Cap \in Nat \ {0} /\ MaxSamples \in Nat

Hello == 0
Heartbeat == -1
None == -2

VARIABLES
  clients,     \* Hub.clients
  broadcast,   \* "idle", or "offering" while Broadcast holds the read lock
  sent,        \* number of Broadcast calls
  todo,        \* clients Broadcast has yet to come to
  evicting,    \* the client whose close() Broadcast is in, if any
  handler,     \* where ServeHTTP is
  hand,        \* what writeLoop is writing
  reader,      \* readLoop: "off", "reading", "gone"
  queue,       \* wsClient.send
  once,        \* wsClient.once: "open", "closing" (done is closed), "closed"
  peer,        \* is the browser still there?
  wire,        \* samples written to the connection
  joinedAt     \* sent when the client was added (for the properties)

broadcaster == <<broadcast, sent, todo, evicting>>
vars == <<clients, broadcaster, handler, hand, reader, queue, once, peer, wire, joinedAt>>

Init ==
  /\ clients = {}
  /\ broadcast = "idle" /\ sent = 0 /\ todo = {} /\ evicting = {}
  /\ handler = [c \in Clients |-> "adding"]
  /\ hand = [c \in Clients |-> None]
  /\ reader = [c \in Clients |-> "off"]
  /\ queue = [c \in Clients |-> <<>>]
  /\ once = [c \in Clients |-> "open"]
  /\ peer = [c \in Clients |-> TRUE]
  /\ wire = [c \in Clients |-> <<>>]
  /\ joinedAt = [c \in Clients |-> 0]

(* h.mu: Broadcast holds it for reading, add and remove for writing.       *)
ReadLocked == broadcast # "idle"

-----------------------------------------------------------------------------
(* close(): the first caller closes done, then the connection; the others  *)
(* wait in once.Do until it has.                                           *)

BeginClose(c) == once' = [once EXCEPT ![c] = IF @ = "open" THEN "closing" ELSE @]

CloseConn(c) ==
  /\ once[c] = "closing"
  /\ once' = [once EXCEPT ![c] = "closed"]
  /\ UNCHANGED <<clients, broadcaster, handler, hand, reader, queue, peer, wire, joinedAt>>

-----------------------------------------------------------------------------
(* Broadcast.                                                              *)

BeginBroadcast ==
  /\ broadcast = "idle"
  /\ sent < MaxSamples
  /\ broadcast' = "offering"
  /\ sent' = sent + 1
  /\ todo' = clients
  /\ UNCHANGED <<clients, evicting, handler, hand, reader, queue, once, peer, wire, joinedAt>>

HasRoom(c) == Len(queue[c]) < Cap

Enqueue(c) ==
  /\ c \in todo
  /\ evicting = {}
  /\ HasRoom(c)
  /\ queue' = [queue EXCEPT ![c] = Append(@, sent)]
  /\ todo' = todo \ {c}
  /\ UNCHANGED <<clients, broadcast, sent, evicting, handler, hand, reader, once, peer, wire,
                 joinedAt>>

Overflow_Waits(c) == FALSE   \* no default case

(* default: client.close()                                                 *)
Overflow(c) ==
  /\ c \in todo
  /\ evicting = {}
  /\ ~HasRoom(c)
  /\ BeginClose(c)
  /\ evicting' = {c}
  /\ UNCHANGED <<clients, broadcast, sent, todo, handler, hand, reader, queue, peer, wire,
                 joinedAt>>

Evicted(c) ==
  /\ c \in evicting
  /\ once[c] = "closed"
  /\ evicting' = {}
  /\ todo' = todo \ {c}
  /\ UNCHANGED <<clients, broadcast, sent, handler, hand, reader, queue, once, peer, wire,
                 joinedAt>>

EndBroadcast ==
  /\ ReadLocked
  /\ todo = {}
  /\ broadcast' = "idle"
  /\ UNCHANGED <<clients, sent, todo, evicting, handler, hand, reader, queue, once, peer, wire,
                 joinedAt>>

-----------------------------------------------------------------------------
(* ServeHTTP: add, queue the hello, start the reader, writeLoop, remove.   *)

Add(c) ==
  /\ handler[c] = "adding"
  /\ ~ReadLocked
  /\ clients' = clients \cup {c}
  /\ handler' = [handler EXCEPT ![c] = "greeting"]
  /\ joinedAt' = [joinedAt EXCEPT ![c] = sent]
  /\ UNCHANGED <<broadcaster, hand, reader, queue, once, peer, wire>>

(* A plain send: it waits for room, and nobody empties the channel yet.    *)
Greet(c) ==
  /\ handler[c] = "greeting"
  /\ HasRoom(c)
  /\ queue' = [queue EXCEPT ![c] = Append(@, Hello)]
  /\ reader' = [reader EXCEPT ![c] = "reading"]
  /\ handler' = [handler EXCEPT ![c] = "selecting"]
  /\ UNCHANGED <<clients, broadcaster, hand, once, peer, wire, joinedAt>>

(* writeLoop's select: any ready case may be taken.                        *)
SeeDone(c) ==
  /\ handler[c] = "selecting"
  /\ once[c] # "open"
  /\ handler' = [handler EXCEPT ![c] = "removing"]
  /\ UNCHANGED <<clients, broadcaster, hand, reader, queue, once, peer, wire, joinedAt>>

Dequeue(c) ==
  /\ handler[c] = "selecting"
  /\ queue[c] # <<>>
  /\ hand' = [hand EXCEPT ![c] = Head(queue[c])]
  /\ queue' = [queue EXCEPT ![c] = Tail(@)]
  /\ handler' = [handler EXCEPT ![c] = "writing"]
  /\ UNCHANGED <<clients, broadcaster, reader, once, peer, wire, joinedAt>>

Beat(c) ==
  /\ handler[c] = "selecting"
  /\ hand' = [hand EXCEPT ![c] = Heartbeat]
  /\ handler' = [handler EXCEPT ![c] = "writing"]
  /\ UNCHANGED <<clients, broadcaster, reader, queue, once, peer, wire, joinedAt>>

Writable_Always(c) == TRUE   \* close() leaves the connection open

Writable(c) == once[c] # "closed"

Written(c) ==
  /\ handler[c] = "writing"
  /\ Writable(c)
  /\ wire' = [wire EXCEPT ![c] = IF hand[c] > 0 THEN Append(@, hand[c]) ELSE @]
  /\ hand' = [hand EXCEPT ![c] = None]
  /\ handler' = [handler EXCEPT ![c] = "selecting"]
  /\ UNCHANGED <<clients, broadcaster, reader, queue, once, peer, joinedAt>>

WriteFails(c) ==
  /\ handler[c] = "writing"
  /\ ~Writable(c) \/ ~peer[c]
  /\ BeginClose(c)
  /\ hand' = [hand EXCEPT ![c] = None]
  /\ handler' = [handler EXCEPT ![c] = "removing"]
  /\ UNCHANGED <<clients, broadcaster, reader, queue, peer, wire, joinedAt>>

(* remove: close(), which waits for a close under way, then the write lock *)
Remove(c) ==
  /\ handler[c] = "removing"
  /\ once[c] = "closed"
  /\ ~ReadLocked
  /\ clients' = clients \ {c}
  /\ handler' = [handler EXCEPT ![c] = "gone"]
  /\ UNCHANGED <<broadcaster, hand, reader, queue, once, peer, wire, joinedAt>>

-----------------------------------------------------------------------------
(* readLoop and the browser.                                               *)

ReadFails_Quietly(c) ==      \* returns without close()
  /\ reader[c] = "reading"
  /\ ~Writable(c) \/ ~peer[c]
  /\ reader' = [reader EXCEPT ![c] = "gone"]
  /\ UNCHANGED <<clients, broadcaster, handler, hand, queue, once, peer, wire, joinedAt>>

ReadFails(c) ==
  /\ reader[c] = "reading"
  /\ ~Writable(c) \/ ~peer[c]
  /\ BeginClose(c)
  /\ reader' = [reader EXCEPT ![c] = "gone"]
  /\ UNCHANGED <<clients, broadcaster, handler, hand, queue, peer, wire, joinedAt>>

(* The browser closes the connection, or is gone for the network.          *)
PeerLeaves(c) ==
  /\ peer[c]
  /\ peer' = [peer EXCEPT ![c] = FALSE]
  /\ UNCHANGED <<clients, broadcaster, handler, hand, reader, queue, once, wire, joinedAt>>

-----------------------------------------------------------------------------
BroadcastStep ==
  \/ \E c \in Clients : Enqueue(c) \/ Overflow(c) \/ Evicted(c)
  \/ EndBroadcast

(* What the handler does by itself: all but waiting for a slow peer.       *)
HandlerStep(c) == Add(c) \/ Greet(c) \/ SeeDone(c) \/ Dequeue(c) \/ WriteFails(c) \/ Remove(c)

(* The bound on samples is reached and every connection is over, or has    *)
(* its handler waiting in front of a full channel for ever.                *)
Exhausted ==
  /\ sent = MaxSamples
  /\ \A c \in Clients :
       handler[c] = "gone" \/ (handler[c] = "greeting" /\ ~HasRoom(c))
  /\ UNCHANGED vars

Next ==
  \/ BeginBroadcast
  \/ BroadcastStep
  \/ \E c \in Clients :
       \/ HandlerStep(c)
       \/ Beat(c) \/ Written(c)
       \/ CloseConn(c) \/ ReadFails(c) \/ PeerLeaves(c)
  \/ Exhausted

Spec == Init /\ [][Next]_vars

(* Runnable goroutines run.  Nobody makes the browser read, so writing may *)
(* last for ever; a waiting writer gets the lock, because Go's RWMutex     *)
(* lets no new reader in front of it.                                      *)
FairSpec ==
  /\ Spec
  /\ WF_vars(BroadcastStep)
  /\ \A c \in Clients :
       WF_vars(HandlerStep(c)) /\ WF_vars(CloseConn(c)) /\ WF_vars(ReadFails(c))

-----------------------------------------------------------------------------
(* The browsers are shown what SampleFeed promises: a client that lost a   *)
(* sample to a full channel gets nothing after the hole.                   *)
Feed == INSTANCE SampleFeed WITH published <- sent, shown <- wire

ImplementsFeed == Feed!Spec

(* Broadcast never waits for a browser, so the monitor that calls it goes  *)
(* on sampling whatever the browsers do.                                   *)
BroadcastReturns == broadcast = "offering" ~> broadcast = "idle"

(* A client that was closed, by whichever of the three, leaves the map and *)
(* its goroutines end; unless its handler is still waiting to say hello.   *)
(* So does one whose browser went away, though nothing is broadcast.       *)
ClosedClientLeaves ==
  \A c \in Clients :
    (handler[c] # "greeting" /\ (once[c] # "open" \/ (~peer[c] /\ reader[c] = "reading")))
      ~> (c \notin clients /\ reader[c] = "gone")

-----------------------------------------------------------------------------
(* The inductive invariant behind ImplementsFeed.                          *)

TypeOK ==
  /\ clients \subseteq Clients /\ todo \subseteq Clients /\ evicting \subseteq Clients
  /\ broadcast \in {"idle", "offering"} /\ sent \in Nat
  /\ handler \in [Clients -> {"adding", "greeting", "selecting", "writing", "removing", "gone"}]
  /\ reader \in [Clients -> {"off", "reading", "gone"}]
  /\ once \in [Clients -> {"open", "closing", "closed"}] /\ peer \in [Clients -> BOOLEAN]
  /\ hand \in [Clients -> Int] /\ queue \in [Clients -> Seq(Int)]
  /\ wire \in [Clients -> Seq(Int)] /\ joinedAt \in [Clients -> Nat]

(* Who is on the map, and what a handler has when it does not write.       *)
Places ==
  /\ todo \subseteq clients /\ (~ReadLocked => todo = {})
  /\ \A c \in Clients :
       /\ c \in clients <=> handler[c] \notin {"adding", "gone"}
       /\ handler[c] = "adding" => queue[c] = <<>> /\ wire[c] = <<>>
       /\ handler[c] # "writing" => hand[c] = None

(* The last sample taken out of the channel, when none was lost.           *)
Taken(c) == joinedAt[c] + Len(wire[c]) + IF hand[c] > 0 THEN 1 ELSE 0

(* The samples after t in order, with the hello at place h of q, or none   *)
(* when h is beyond the end.                                               *)
Run(q, h, t) ==
  \A i \in 1..Len(q) : /\ i < h => q[i] = t + i
                       /\ i = h => q[i] = Hello
                       /\ i > h => q[i] = t + i - 1

(* The last sample offered to c.                                           *)
Offered(c) == IF c \in todo THEN sent - 1 ELSE sent

(* The channel holds the samples after Taken up to the last one offered.   *)
Queued(c, h) ==
  /\ Run(queue[c], h, Taken(c))
  /\ h <= Len(queue[c]) => Offered(c) = Taken(c) + Len(queue[c]) - 1
  /\ h > Len(queue[c]) => Offered(c) = Taken(c) + Len(queue[c])
  /\ handler[c] = "greeting" => h = Len(queue[c]) + 1

(* As long as it may be written to a client has lost nothing: it is closed *)
(* before it could be offered the sample after a lost one.                 *)
Streaming(c) == handler[c] \in {"greeting", "selecting", "writing"} /\ Writable(c)

Gapless(c) ==
  /\ hand[c] > 0 => hand[c] = Taken(c)
  /\ \E h \in 1..(Len(queue[c]) + 1) : Queued(c, h)

HubInv == TypeOK /\ Places /\ \A c \in Clients : Streaming(c) => Gapless(c)
=============================================================================
