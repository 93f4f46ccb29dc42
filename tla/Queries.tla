------------------------------ MODULE Queries ------------------------------
(***************************************************************************)
(* What becomes of a series between the store and the chart: the daemon    *)
(* selects a range, filters it, makes rates of it or not, and thins it;    *)
(* the page merges what it loaded in pieces and marks data as missing      *)
(* where two points are further apart than is usual in them.               *)
(*                                                                         *)
(* Times are counted in sampling intervals, and so are the constants.      *)
(***************************************************************************)
EXTENDS Integers, FiniteSetsExt, SequencesExt, Selections

CONSTANTS
  Spacing,       \* maxHistoricalPointSpacing
  GapThreshold,  \* gapThresholdMs
  Least,         \* points the page asks for at least
  Plausible      \* values that are believed of the zenpower driver

QueriesConstants ==
  /\ Spacing \in Nat \ {0} /\ GapThreshold \in Nat \ {0} /\ Least \in Nat \ (0..2)

-----------------------------------------------------------------------------
(* The daemon.  A history is a function from times to values.              *)

Select(history, start, end) ==
  LET times == Ascending((start..end) \cap DOMAIN history)
  IN  [k \in DOMAIN times |-> [time |-> times[k], value |-> history[times[k]]]]

FilterQueryPoints(zenpower, points) ==
  Selected(points, {k \in DOMAIN points : zenpower => points[k].value \in Plausible})

(* A point grows on the one before it, also on one that did not grow.      *)
GrowthAt(points, k) ==
  [time |-> points[k].time, value |-> points[k].value - points[k - 1].value,
   over |-> points[k].time - points[k - 1].time]

RatePoints(points) ==
  LET growth == [k \in 1..(Len(points) - 1) |-> GrowthAt(points, k + 1)]
  IN  Selected(growth, {k \in DOMAIN growth : growth[k].over > 0 /\ growth[k].value >= 0})

QueryMetric(history, start, end, zenpower, rate) ==
  LET points == FilterQueryPoints(zenpower, Select(history, start, end))
  IN  IF rate THEN RatePoints(points) ELSE points

MaxPointsForRange_Down(start, end, requested) ==     \* does not round up
  IF requested <= 0 \/ end <= start THEN requested
  ELSE Max({requested, (end - start) \div Spacing + 1})

MaxPointsForRange(start, end, requested) ==
  IF requested <= 0 \/ end <= start THEN requested
  ELSE Max({requested, (end - start) \div Spacing + 1
                         + IF (end - start) % Spacing = 0 THEN 0 ELSE 1})

(* int(float64(i) * step): a multiple that is whole may come out short.    *)
Whole(n, m, i) == (i * (n - 1)) % (m - 1) = 0
Index(n, m, i, short) ==
  (i * (n - 1)) \div (m - 1) - IF i > 0 /\ i \in short /\ Whole(n, m, i) THEN 1 ELSE 0

(* With one point to choose, the index is that of 0 times infinity.        *)
LimitPoints(points, maxPoints, short) ==
  IF maxPoints <= 0 \/ Len(points) <= maxPoints THEN points
  ELSE [k \in 1..maxPoints |->
          IF maxPoints = 1 THEN [time |-> -1, value |-> 0]
          ELSE points[Index(Len(points), maxPoints, k - 1, short) + 1]]

BatchSeries(history, q) ==
  LimitPoints(QueryMetric(history, q.start, q.end, q.zenpower, q.rate),
              MaxPointsForRange(q.start, q.end, q.requested), q.short)

-----------------------------------------------------------------------------
(* The page.                                                               *)

CeilDiv(a, b) == (a + b - 1) \div b

PageRequest(start, end) == Max({Least, CeilDiv(Max({0, end - start}), Spacing) + 1})

Times(points) == {points[k].time : k \in DOMAIN points}

(* The first point of each time.                                           *)
MergePoints(older, newer) ==
  LET both == older \o newer
      times == Ascending(Times(both))
  IN  [n \in DOMAIN times |-> both[Min({k \in DOMAIN both : both[k].time = times[n]})]]

Deltas(points) == [k \in 1..(Len(points) - 1) |-> points[k + 1].time - points[k].time]

(* Of what is at some places of deltas, what is at the middle when sorted. *)
Median(deltas, P) ==
  Min({v \in {deltas[k] : k \in P} :
         Cardinality({k \in P : deltas[k] <= v}) > Cardinality(P) \div 2})

GapThresholdForPoints_Fixed(points) == GapThreshold

GapThresholdForPoints(points) ==
  LET deltas == Deltas(points)
      grown == {k \in DOMAIN deltas : deltas[k] > 0}
  IN  IF Len(points) < 3 \/ grown = {} THEN GapThreshold
      ELSE Max({GapThreshold, 3 * Median(deltas, grown)})

(* Where pointsWithGaps shows data as missing, after which point.          *)
Missing(points) ==
  {points[k].time : k \in {j \in 1..(Len(points) - 1) :
                             Deltas(points)[j] > GapThresholdForPoints(points)}}

-----------------------------------------------------------------------------
(* A thinned answer is points of the series in their order, from the first *)
(* one to the last or the one before it.  Of a series sampled without a    *)
(* break its points are no further apart than Spacing and one interval,    *)
(* and the page draws no gap between them.                                 *)
ThinnedIsWhole(history, q) ==
  LET all == QueryMetric(history, q.start, q.end, q.zenpower, FALSE)
      thin == BatchSeries(history, q)
      unbroken == q.start..q.end \subseteq DOMAIN history /\ ~q.zenpower
  IN  all # <<>> =>
        /\ \A k \in DOMAIN thin : thin[k] \in Range(all)
        /\ \A k \in DOMAIN Deltas(thin) : Deltas(thin)[k] > 0
        /\ Head(thin) = Head(all)
        /\ Len(all) > 1 => Last(thin) \in {all[Len(all)], all[Len(all) - 1]}
        /\ unbroken /\ q.requested > 0 =>
             \A k \in DOMAIN Deltas(thin) : Deltas(thin)[k] <= Spacing + 1
        /\ unbroken /\ q.requested = PageRequest(q.start, q.end) => Missing(thin) = {}

(* A history of rates loaded in two pieces is the same as loaded at once,  *)
(* but for the one interval that the seam cuts.                            *)
SeamCutsOneInterval(history, q, seam) ==
  LET part(a, b) == QueryMetric(history, a, b, q.zenpower, TRUE)
      pieces == Range(MergePoints(part(q.start, seam), part(seam, q.end)))
      atOnce == Range(part(q.start, q.end))
  IN  /\ pieces \subseteq atOnce
      /\ \A g \in atOnce \ pieces : g.time > seam /\ g.time - g.over < seam
=============================================================================
