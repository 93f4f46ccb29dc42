----------------------------- MODULE CorsairAxi -----------------------------
(***************************************************************************)
(* The Corsair AXi collector: one Sample after another (a mutex) talks to  *)
(* a PSU through a USB dongle, message by message, each answered by one    *)
(* reply.  A reply that comes after the collector stopped waiting is still *)
(* read next time, in place of the one asked for, unless opening the       *)
(* dongle again emptied its queues, which the code cannot know.            *)
(*                                                                         *)
(* A value is where it comes from: its register, the page selected then,   *)
(* and whether the page had settled.  The three registers of a rail are    *)
(* one; time is counted in messages, which are at least axiMessageGap      *)
(* (1 ms) apart.                                                           *)
(***************************************************************************)
EXTENDS Integers, Sequences

CONSTANTS
  NumUnpaged,    \* registers read first (7)
  NumRails,      \* pages of the rails' registers (3)
  NumConnectors, \* axi12VPages (12)
  MaxPolls,      \* how often waitIdle asks (50)
  SettleAfter,   \* messages a connector's page takes to settle (50 ms)
  Held           \* bound: messages and replies the dongle holds

(* For a module that extends this one to assume.                           *)
AxiConstants ==
  /\ NumUnpaged \in Nat \ {0} /\ NumRails \in Nat \ {0} /\ NumConnectors \in Nat \ {0}
  /\ MaxPolls \in Nat \ {0} /\ Held \in Nat \ {0}
  \* a sample is long enough for a page to settle (the comment in read): in the
  \* code, which reads three registers of each rail, 56 messages against 50 ms
  /\ SettleAfter \in 1..(3 * NumUnpaged + 5 * NumRails + 2)

VARIABLES
  open,        \* c.dev is not nil
  todo,        \* register operations the Sample has yet to do
  part,        \* of the first of them: "command", "status" or "memory"
  asked,       \* its message was sent, the reply is awaited
  polls,       \* status polls so far
  connector,
  selected,    \* connectorSelected
  power,       \* connectorPower, where connectorRead
  values,      \* the other metrics of this Sample
  report       \* what the last Sample returned: {} after an error

VARIABLES      \* the dongle and the PSU
  inbox, outbox,     \* messages not yet handled, replies not yet read
  rail, page, since, \* selected pages; messages since the connector's page
  memory             \* what the last register read gave

VARIABLES      \* for the properties
  age,         \* connector readings since each connector's own
  misled       \* the dongle was opened with what could be taken for the model's name

sampling == <<open, todo, part, asked, polls>>
connectors == <<connector, selected, power, age>>
dongle == <<inbox, outbox, rail, page, since, memory>>
vars == <<sampling, connectors, values, report, misled, dongle>>

Connectors == 0..(NumConnectors - 1)
Nothing == [reg |-> "none", page |-> -1, settled |-> FALSE]

(* Labels of the values, and the operations on registers.                  *)
Unpaged(k) == [reg |-> "unpaged", page |-> k, settled |-> TRUE]
Rail(k) == [reg |-> "rail", page |-> k, settled |-> TRUE]
Connector(k) == [reg |-> "connector", page |-> k, settled |-> TRUE]
Model == [reg |-> "model", page |-> 0, settled |-> TRUE]

Op(kind, what) == [kind |-> kind, what |-> what]

OpenOps == <<Op("setup", Nothing), Op("read", Model)>>

UnpagedOps == [k \in 1..NumUnpaged |-> Op("read", Unpaged(k))]

RailOps ==
  [i \in 1..(2 * NumRails) |->
     Op(IF i % 2 = 1 THEN "write" ELSE "read", Rail((i - 1) \div 2))]

ConnectorOps(sel) ==
  <<Op("write", Rail(0))>>
    \o (IF sel THEN <<Op("read", Connector(connector))>> ELSE <<>>)
    \o <<Op("select", Nothing)>>

ReadOps == UnpagedOps \o RailOps \o ConnectorOps(selected)

Init ==
  /\ open = FALSE /\ todo = <<>> /\ part = "command" /\ asked = FALSE /\ polls = 0
  /\ connector = 0 /\ selected = FALSE
  /\ power = [c \in Connectors |-> Nothing] /\ age = [c \in Connectors |-> 0]
  /\ values = {} /\ report = {}
  /\ inbox = <<>> /\ outbox = <<>>
  /\ rail = 0 /\ page = 0 /\ since = 0 /\ memory = Nothing
  /\ misled = FALSE

-----------------------------------------------------------------------------
(* Opening reads at least three replies, of one byte, before the model's   *)
(* name, of which it asks no more than that it is long.  A name left over  *)
(* behind three other replies may be taken for the one asked for; then the *)
(* collector stays out of step until it closes the device.                 *)
Misleading(in, out) ==
  \/ \E i \in DOMAIN out : i > 3 /\ out[i].len >= 7
  \/ \E i \in DOMAIN in : Len(out) + i > 3 /\ in[i].part = "memory" /\ in[i].what = Model

(* Sample begins; without a device it opens one first.                     *)
Begin ==
  /\ todo = <<>>
  /\ todo' = (IF open THEN <<>> ELSE OpenOps) \o ReadOps
  /\ part' = "command" /\ polls' = 0 /\ asked' = FALSE
  /\ values' = {} /\ report' = {}
  /\ \/ UNCHANGED <<inbox, outbox>>
     \/ ~open /\ inbox' = <<>> /\ outbox' = <<>>
  /\ misled' = (misled \/ (~open /\ Misleading(inbox', outbox')))
  /\ open' = TRUE
  /\ UNCHANGED <<connectors, rail, page, since, memory>>

(* closeDevice after any error.                                            *)
Close_Selected == selected' = selected /\ connector' = connector   \* forgets to select again
Close_FromFirst == selected' = FALSE /\ connector' = 0

Close == selected' = FALSE /\ connector' = connector

Fail ==
  /\ open' = FALSE /\ todo' = <<>> /\ asked' = FALSE /\ part' = "command" /\ polls' = 0
  /\ Close
  /\ values' = {} /\ report' = {}
  /\ UNCHANGED <<power, age, misled>>

(* The device node is gone or not writable, or the bridge not enabled.     *)
OpenFails ==
  /\ todo # <<>> /\ Head(todo).kind = "setup" /\ ~asked
  /\ Fail
  /\ UNCHANGED dongle

-----------------------------------------------------------------------------
(* exchange: the message of the operation's part, or its loss on the way.  *)
Message ==
  LET op == Head(todo)
  IN  [part |-> part,
       kind |-> op.kind,
       what |-> IF op.kind = "select" THEN Connector(connector) ELSE op.what]

Send ==
  /\ todo # <<>> /\ ~asked
  /\ asked' = TRUE
  /\ \/ Len(inbox) + Len(outbox) < Held /\ inbox' = Append(inbox, Message)
     \/ UNCHANGED inbox
  /\ UNCHANGED <<open, todo, part, polls, connectors, values, report, misled, outbox, rail, page,
                 since, memory>>

SendFails ==
  /\ todo # <<>> /\ ~asked
  /\ Fail
  /\ UNCHANGED dongle

TimesOut ==
  /\ asked /\ outbox = <<>>
  /\ Fail
  /\ UNCHANGED dongle

(* On to the next part, or to the next operation.                          *)
Go(p) == part' = p /\ asked' = FALSE /\ UNCHANGED <<open, todo, misled>>

Finish(vals, pow) ==
  /\ todo' = Tail(todo) /\ part' = "command" /\ asked' = FALSE /\ polls' = 0
  /\ report' = IF Len(todo) > 1 THEN report
               ELSE vals \cup {[label |-> Connector(c), value |-> pow[c]] :
                                 c \in {d \in Connectors : pow[d] # Nothing}}
  /\ UNCHANGED <<open, misled>>

Writes == {"write", "select"}

WriteDone ==
  /\ Finish(values, power)
  /\ selected' = (selected \/ Head(todo).kind = "select")
  /\ UNCHANGED <<values, connector, power, age>>

(* A value is read; a connector's goes to connectorPower, and the next     *)
(* connector is due.                                                       *)
ReadDone(v) ==
  LET label == Head(todo).what
  IN  IF label.reg = "connector"
      THEN /\ power' = [power EXCEPT ![connector] = v]
           /\ age' = [c \in Connectors |-> IF c = connector THEN 0
                                           ELSE IF power[c] = Nothing THEN 0 ELSE age[c] + 1]
           /\ connector' = (connector + 1) % NumConnectors
           /\ Finish(values, power')
           /\ UNCHANGED <<values, selected>>
      ELSE /\ values' = IF label = Model THEN values
                        ELSE values \cup {[label |-> label, value |-> v]}
           /\ Finish(values', power)
           /\ UNCHANGED connectors

LongEnough(reply) == reply.len >= IF Head(todo).what = Model THEN 7 ELSE 2

Take ==
  /\ asked /\ outbox # <<>>
  /\ outbox' = Tail(outbox)
  /\ UNCHANGED <<inbox, rail, page, since, memory>>

CommandDone ==
  /\ part = "command" /\ Take
  /\ IF Head(outbox).first # "ok" THEN Fail
     ELSE IF Head(todo).kind = "setup" THEN WriteDone
     ELSE Go("status") /\ polls' = 0 /\ UNCHANGED <<connectors, values, report>>

StatusDone ==
  /\ part = "status" /\ Take
  /\ LET first == Head(outbox).first
     IN  IF first = "busy" /\ polls + 1 < MaxPolls
         THEN Go("status") /\ polls' = polls + 1 /\ UNCHANGED <<connectors, values, report>>
         ELSE IF first # "ok" THEN Fail
         ELSE IF Head(todo).kind \in Writes THEN WriteDone
         ELSE Go("memory") /\ UNCHANGED <<polls, connectors, values, report>>

MemoryDone ==
  /\ part = "memory" /\ Take
  /\ IF LongEnough(Head(outbox)) THEN ReadDone(Head(outbox).value) ELSE Fail

(* The reply is not one of axiDecode's.                                    *)
Garbled == Take /\ Fail

-----------------------------------------------------------------------------
(* The dongle handles a message: it selects a page, reads a register, says *)
(* whether it is busy, or hands out what was read last.                    *)
Reply(n, first, v) == [len |-> n, first |-> first, value |-> v]

Measured(what) ==
  CASE what.reg = "rail" -> Rail(rail)
    [] what.reg = "connector" -> [Connector(page) EXCEPT !.settled = since >= SettleAfter]
    [] OTHER -> what

Replies(m) ==
  CASE m.part = "command" -> {Reply(1, first, Nothing) : first \in {"ok", "other"}}
    [] m.part = "status" -> {Reply(1, first, Nothing) : first \in {"ok", "busy", "other"}}
    [] m.part = "memory" ->
         IF m.what = Model THEN {Reply(7, "other", memory)}
         ELSE {Reply(2, first, memory) : first \in {"ok", "busy", "other"}}

Handle ==
  /\ inbox # <<>>
  /\ LET m == Head(inbox)
         command == m.part = "command"
         chosen == command /\ m.kind = "select"
     IN  /\ inbox' = Tail(inbox)
         /\ \E r \in Replies(m) : outbox' = Append(outbox, r)
         /\ rail' = IF command /\ m.kind = "write" THEN m.what.page ELSE rail
         /\ page' = IF chosen THEN m.what.page ELSE page
         /\ since' = IF chosen THEN 0 ELSE IF since < SettleAfter THEN since + 1 ELSE since
         /\ memory' = IF command /\ m.kind = "read" THEN Measured(m.what) ELSE memory
  /\ UNCHANGED <<sampling, connectors, values, report, misled>>

Next ==
  \/ Begin \/ OpenFails
  \/ Send \/ SendFails \/ TimesOut
  \/ CommandDone \/ StatusDone \/ MemoryDone \/ Garbled
  \/ Handle

Spec == Init /\ [][Next]_vars

-----------------------------------------------------------------------------
(* Every value a sample returns was measured in the register, and on the   *)
(* page, it is reported for: one that was read out of step with the dongle *)
(* is given up before, unless an earlier opening's answer misled a later.  *)
ReadingsAreTheirOwn ==
  ~misled => \A r \in report : r.value.reg = r.label.reg /\ r.value.page = r.label.page

(* Connectors take turns through failed samples and reconnects, so that no *)
(* reading grows older than one turn of the others; and each is read only  *)
(* when its page has had time to settle, as the comment in read says.      *)
ConnectorsTakeTurns ==
  \A c \in Connectors :
    /\ age[c] < NumConnectors
    /\ power[c] # Nothing => power[c].settled \/ misled
=============================================================================
