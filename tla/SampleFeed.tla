----------------------------- MODULE SampleFeed -----------------------------
(***************************************************************************)
(* What web.Hub promises the browsers: whoever joins is shown the samples  *)
(* published from then on, in order and without a gap, until it is cut     *)
(* off.  A browser merges what it is shown into the history it loaded, so  *)
(* a sample missing from the middle would be a hole nobody fills.          *)
(***************************************************************************)
EXTENDS Naturals, Sequences

CONSTANT Clients

VARIABLES
  published,   \* samples published so far: 1, 2, ..., published
  joinedAt,    \* samples published when the client joined
  shown        \* what the client was sent

vars == <<published, joinedAt, shown>>

Init ==
  /\ published = 0
  /\ joinedAt = [c \in Clients |-> 0]
  /\ shown = [c \in Clients |-> <<>>]

Publish ==
  /\ published' = published + 1
  /\ UNCHANGED <<joinedAt, shown>>

Join(c) ==
  /\ shown[c] = <<>>
  /\ joinedAt' = [joinedAt EXCEPT ![c] = published]
  /\ UNCHANGED <<published, shown>>

Show(c) ==
  LET sample == joinedAt[c] + Len(shown[c]) + 1
  IN  /\ sample <= published
      /\ shown' = [shown EXCEPT ![c] = Append(@, sample)]
      /\ UNCHANGED <<published, joinedAt>>

Next == Publish \/ \E c \in Clients : Join(c) \/ Show(c)

Spec == Init /\ [][Next]_vars
=============================================================================
