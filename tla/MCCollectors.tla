---------------------------- MODULE MCCollectors ----------------------------
(* One of three at work: the RAPL collector (Rapl's variables), the Corsair *)
(* AXi collector (the others), or one word on its way out of the dongle.    *)
EXTENDS Rapl, TLC, Sequences

CONSTANTS a1, a2, NumUnpaged, NumRails, NumConnectors, MaxPolls, SettleAfter, Held

MCAttempts == {a1, a2}
Symmetry == Permutations(MCAttempts)

(* A package with its cores, and a driver that mirrors the package.        *)
Dir(driver, domain, wrap, maxRange) ==
  [driver |-> driver, domain |-> domain, parts |-> Parts, readable |-> TRUE,
   wrap |-> wrap, maxRange |-> maxRange]

MCDirs == <<Dir("intel-rapl", "package", 2, 2), Dir("intel-rapl", "core", 2, 0),
            Dir("intel-rapl-mmio", "package", 8, 8)>>

VARIABLES
  subject,                                          \* never changes
  open, todo, part, asked, polls, connector, selected, power, values, report,
  inbox, outbox, rail, page, since, memory, age, misled,    \* of CorsairAxi
  word                                              \* of AxiCodec

axiVars == <<open, todo, part, asked, polls, connector, selected, power, values, report,
             inbox, outbox, rail, page, since, memory, age, misled>>
allVars == <<subject, vars, axiVars, word>>

Axi == INSTANCE CorsairAxi
Codec == INSTANCE AxiCodec

ASSUME Constants == Axi!AxiConstants

(* All low bytes, under high bytes at the edges of both fields.            *)
Words == {low + 256 * high : low \in 0..255, high \in {0, 3, 4, 7, 8, 127, 128, 251, 252, 255}}

MCInit ==
  /\ Init /\ Axi!Init
  /\ \/ subject \in {"rapl", "axi"} /\ word = 0
     \/ subject = "word" /\ word \in Words

MCNext ==
  /\ \/ subject = "rapl" /\ Next /\ UNCHANGED axiVars
     \/ subject = "axi" /\ Axi!Next /\ UNCHANGED vars
     \/ subject = "word" /\ UNCHANGED <<vars, axiVars>>
  /\ UNCHANGED <<subject, word>>

MCSpec == MCInit /\ [][MCNext]_allVars

-----------------------------------------------------------------------------
(* Every value an AXi sample returns was measured in the register, and on  *)
(* the page, it is reported for, unless an opening was misled.             *)
ReadingsAreTheirOwn == Axi!ReadingsAreTheirOwn

(* Connectors keep taking turns through failed samples and reconnects, and *)
(* each is read only when its page has had time to settle, unless misled.  *)
ConnectorsTakeTurns == Axi!ConnectorsTakeTurns

(* A word comes out of the dongle's reply as the number it stands for, and *)
(* out of a damaged reply as the same or not at all.                       *)
WordSurvives == subject = "word" => Codec!WordSurvives(word)
=============================================================================
