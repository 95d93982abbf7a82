------------------------------ MODULE Insights ------------------------------
(***************************************************************************)
(* The evidence for a change of delay: app/insights.py's buckets, the 95%   *)
(* interval of a rate, and the rule that makes a proposal.  Pure operators. *)
(*                                                                         *)
(* A rate is [n, k], k of n sent links recovered.  Probabilities are whole *)
(* per mille, the lower bound rounded down and the upper one up.           *)
(***************************************************************************)
EXTENDS Policy

MIN_SAMPLES == 30

BucketNames == {"now", "15m", "1h", "24h", "48h", "over48h"}

\* A bucket's upper bound, and 72 hours for the open-ended last one.
BucketDelay ==
  [b \in BucketNames |->
     CASE b = "now" -> 0
       [] b = "15m" -> 15
       [] b = "1h" -> 60
       [] b = "24h" -> 24 * 60
       [] b = "48h" -> 48 * 60
       [] b = "over48h" -> 72 * 60]

BucketFor(delay) ==
  CASE delay <= 0 -> "now"
    [] delay \in 1..15 -> "15m"
    [] delay \in 16..60 -> "1h"
    [] delay \in 61..(24 * 60) -> "24h"
    [] delay \in (24 * 60 + 1)..(48 * 60) -> "48h"
    [] delay > 48 * 60 -> "over48h"

\* The bucket of the table's first attempt: the table's, whatever the
\* merchant's file says by now.
PolicyBucket(class) ==
  IF POLICY[class].max = 0 THEN None ELSE BucketFor(POLICY[class].delay)

-----------------------------------------------------------------------------
(* wilson_interval, z = 1.96. *)

ZSquared == 3841   (* per mille *)

Root(x) == CHOOSE r \in 0..3000 : r * r <= x /\ x < (r + 1) * (r + 1)

\* z * sqrt(p(1 - p)/n + z^2/4n^2), and the centre, both times 1 + z^2/n.
Half(rate) ==
  LET p == (1000 * rate.k) \div rate.n
      variance == (p * (1000 - p)) \div rate.n + (250 * ZSquared) \div (rate.n * rate.n)
  IN  Root(((variance \div 10) * ZSquared) \div 100)

Centre(rate) == (1000 * rate.k) \div rate.n + ZSquared \div (2 * rate.n)
Denominator(rate) == 1000 + ZSquared \div rate.n

\* No trials, no claim; a bound at an edge is exact.
Low(rate) ==
  IF rate.n = 0 \/ rate.k = 0 THEN 0
  ELSE (1000 * (Centre(rate) - Half(rate) - 1)) \div Denominator(rate)
High(rate) ==
  IF rate.n = 0 \/ rate.k = rate.n THEN 1000
  ELSE (1000 * (Centre(rate) + Half(rate) + 1)) \div Denominator(rate) + 1

-----------------------------------------------------------------------------
(* compare_buckets. *)

Enough(rate, min) == rate.n >= min
Better(rate, current) == Low(rate) > High(current)
HigherRate(a, b) == a.k * b.n > b.k * a.n

\* broken: the samples of the competing bucket are taken for both
ProposalsOneSided(class, rates, min) ==
  LET from == PolicyBucket(class)
      current == rates[from]
      better == {b \in BucketNames \ {from} : Enough(rates[b], min) /\ Better(rates[b], current)}
  IN  IF from = None THEN {}
      ELSE {[class |-> class, from |-> from, to |-> b, n |-> {rates[b].n}] :
              b \in {c \in better : \A other \in better : ~HigherRate(rates[other], rates[c])}}

\* A move is proposed to the bucket with the best rate, when both buckets
\* have the samples and their intervals do not overlap; {} otherwise.
Proposals(class, rates, min) ==
  LET from == PolicyBucket(class)
      current == rates[from]
      better == {b \in BucketNames \ {from} : Enough(rates[b], min) /\ Better(rates[b], current)}
  IN  IF from = None THEN {}
      ELSE IF ~Enough(current, min) THEN {}
      ELSE {[class |-> class, from |-> from, to |-> b, n |-> {current.n, rates[b].n}] :
              b \in {c \in better : \A other \in better : ~HigherRate(rates[other], rates[c])}}

\* Both buckets carry the samples the write needs.
HasEvidence(n) == \A samples \in n : samples >= MIN_SAMPLES
=============================================================================
