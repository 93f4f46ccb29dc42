----------------------------- MODULE Selections -----------------------------
(***************************************************************************)
(* Some elements of a sequence in their order, as loops over a slice or    *)
(* filter over an array take them: by counting places, since SelectSeq and *)
(* SortSeq are recursive, which proofs cannot reason about.                *)
(***************************************************************************)
EXTENDS Integers, FiniteSets, Sequences, Functions

(* The rank of a number among some, and the numbers of a finite set in     *)
(* ascending order.                                                        *)
Rank(P, i) == Cardinality({j \in P : j <= i})

Ascending(P) == [n \in 1..Cardinality(P) |-> CHOOSE i \in P : Rank(P, i) = n]

(* What is at some places of s.                                            *)
Selected(s, P) ==
  LET place == Ascending(P)
  IN  [n \in DOMAIN place |-> s[place[n]]]

(* Those of s that are in S.                                               *)
Only(s, S) == Selected(s, {i \in DOMAIN s : s[i] \in S})

Without(s, S) == Only(s, Range(s) \ S)
=============================================================================
