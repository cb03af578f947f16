--------------------------- MODULE AggregateMetric ---------------------------
(***************************************************************************)
(* The arithmetic of AggregateMetric.flush() in                            *)
(* packages/stats-collector/src/aggregate.ts.  Measurements are integers,  *)
(* percentiles are given in hundredths, so that no fraction is lost.       *)
(***************************************************************************)
EXTENDS Integers, Sequences

AtLeast(a, b) == IF a < b THEN b ELSE a
AtMost(a, b)  == IF a > b THEN b ELSE a

\* `pos` of percentile() is a rank counted from zero; here ranks count from
\* one, in hundredths: pos = (PosRank - 100) / 100.
PosRank(n, m) == Len(m) * n

LowerRank(n, m) == AtLeast(PosRank(n, m) \div 100, 1)
UpperRank(n, m) == AtMost(AtLeast((PosRank(n, m) + 99) \div 100, 1), Len(m))

\* Mutant: the interpolation takes the distance to the wrong end.
PercentileSwapped(n, m) ==
  LET lower == m[LowerRank(n, m)]
      upper == m[UpperRank(n, m)]
  IN 100 * lower + (upper - lower) * (100 - (PosRank(n, m) % 100))

\* percentile(n, measurements) of a sorted list, times 100: interpolation
\* between the closest ranks.  Below the first rank both are the first.
Percentile(n, m) ==
  LET lower == m[LowerRank(n, m)]
      upper == m[UpperRank(n, m)]
  IN 100 * lower + (upper - lower) * (PosRank(n, m) % 100)

IsSorted(m) == \A i, j \in 1..Len(m) : i <= j => m[i] <= m[j]
=============================================================================
