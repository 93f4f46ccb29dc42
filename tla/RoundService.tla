---------------------------- MODULE RoundService ----------------------------
(***************************************************************************)
(* What one round of sampling promises to Monitor.sample, whatever         *)
(* the collectors do: after a round is opened every collector gets an      *)
(* answer that belongs to this round, no answer is ever replaced by        *)
(* another, and the round is closed only when everyone has been answered.  *)
(* How answers are obtained (goroutines, timer, cancellation) is the       *)
(* business of Sampler, which implements this specification.               *)
(***************************************************************************)
EXTENDS Naturals

CONSTANTS
  Indices,       \* positions in the slice of collectors
  Kinds          \* what an answer can say

VARIABLES
  open,          \* a round is being collected
  round,         \* the number of rounds opened so far
  answers        \* what the current (or last) round holds for each collector

vars == <<open, round, answers>>

NoAnswer == [kind |-> "none", round |-> 0]
Answers(r) == [kind : Kinds, round : {r}]

Init ==
  /\ open = FALSE
  /\ round = 0
  /\ answers = [i \in Indices |-> NoAnswer]

Open ==
  /\ ~open
  /\ open' = TRUE
  /\ round' = round + 1
  /\ answers' = [i \in Indices |-> NoAnswer]

\* Some collectors that had no answer get one; the others keep theirs.
Fill ==
  /\ open
  /\ answers' \in [Indices -> {NoAnswer} \cup Answers(round)]
  /\ \A i \in Indices : answers[i] # NoAnswer => answers'[i] = answers[i]
  /\ UNCHANGED <<open, round>>

Close ==
  /\ open
  /\ \A i \in Indices : answers[i] # NoAnswer
  /\ open' = FALSE
  /\ UNCHANGED <<round, answers>>

Next == Open \/ Fill \/ Close

SafeSpec == Init /\ [][Next]_vars

\* No round stays open for ever.
Returns == []<>~open

Spec == SafeSpec /\ Returns
=============================================================================
