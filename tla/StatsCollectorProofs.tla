------------------------ MODULE StatsCollectorProofs ------------------------
(***************************************************************************)
(* Proofs about the stats collector, for any number of sources, prefixes   *)
(* and measurements, and about the percentiles of an aggregate, for every  *)
(* list of measurements.                                                   *)
(***************************************************************************)
EXTENDS StatsCollector, FiniteSetTheorems, TLAPS

(***************************************************************************)
(* Percentiles                                                             *)
(***************************************************************************)
\* The ranks of a percentile are ranks of the list, and neighbours.
LEMMA RanksAreInList ==
  ASSUME NEW m \in Seq(Int), Len(m) > 0, NEW n \in 0..100
  PROVE  /\ LowerRank(n, m) \in 1..Len(m)
         /\ UpperRank(n, m) \in 1..Len(m)
         /\ LowerRank(n, m) <= UpperRank(n, m)
<1> DEFINE L == Len(m)
           R == L * n
<1>1. L \in Nat /\ L >= 1 /\ R \in Nat /\ R <= 100 * L
  <2>1. L \in Nat /\ L >= 1
    OBVIOUS
  <2>2. ASSUME NEW l \in Nat PROVE l * n \in Nat /\ l * n <= l * 100
    BY <2>2, SMT
  <2> QED BY <2>1, <2>2
<1>2. /\ R \div 100 \in Nat /\ (R + 99) \div 100 \in Nat
      /\ R \div 100 <= (R + 99) \div 100
      /\ (R + 99) \div 100 <= L
  <2> HIDE DEF R, L
  <2> QED BY <1>1
<1>3. LowerRank(n, m) = AtLeast(R \div 100, 1)
      /\ UpperRank(n, m) = AtMost(AtLeast((R + 99) \div 100, 1), L)
  BY DEF LowerRank, UpperRank, PosRank
<1> HIDE DEF R
<1> QED BY <1>1, <1>2, <1>3 DEF AtLeast, AtMost

\* An interpolation lies between its ends.
LEMMA InterpolationIsBetween ==
  ASSUME NEW a \in Int, NEW b \in Int, a <= b, NEW f \in 0..99
  PROVE  /\ 100 * a + (b - a) * f \in Int
         /\ 100 * a <= 100 * a + (b - a) * f
         /\ 100 * a + (b - a) * f <= 100 * b
<1>1. ASSUME NEW d \in Nat, NEW g \in Nat, g <= 99 PROVE 0 <= d * g /\ d * g <= 100 * d
  BY <1>1, SMT
<1>2. b - a \in Nat
  OBVIOUS
<1>3. 0 <= (b - a) * f /\ (b - a) * f <= 100 * (b - a)
  BY <1>1, <1>2
<1> QED BY <1>3

\* A percentile lies between the measurements at its ranks.
LEMMA PercentileIsBetween ==
  ASSUME NEW m \in Seq(Int), Len(m) > 0, IsSorted(m), NEW n \in 0..100
  PROVE  /\ Percentile(n, m) \in Int
         /\ 100 * m[LowerRank(n, m)] <= Percentile(n, m)
         /\ Percentile(n, m) <= 100 * m[UpperRank(n, m)]
<1> DEFINE lo == m[LowerRank(n, m)]
           up == m[UpperRank(n, m)]
           f  == PosRank(n, m) % 100
<1>1. lo \in Int /\ up \in Int /\ lo <= up
  <2> DEFINE i == LowerRank(n, m)
             j == UpperRank(n, m)
  <2>1. i \in 1..Len(m) /\ j \in 1..Len(m) /\ i <= j
    BY RanksAreInList
  <2> HIDE DEF i, j
  <2>2. m[i] \in Int /\ m[j] \in Int /\ m[i] <= m[j]
    BY <2>1 DEF IsSorted
  <2> QED BY <2>2 DEF i, j
<1>2. f \in 0..99
  <2> DEFINE r == PosRank(n, m)
  <2>1. r \in Int
    BY DEF PosRank
  <2> HIDE DEF r
  <2>2. r % 100 \in 0..99
    BY <2>1
  <2> QED BY <2>2 DEF r
<1>3. Percentile(n, m) = 100 * lo + (up - lo) * f
  BY DEF Percentile
<1> HIDE DEF lo, up, f
<1>4. /\ 100 * lo + (up - lo) * f \in Int
      /\ 100 * lo <= 100 * lo + (up - lo) * f
      /\ 100 * lo + (up - lo) * f <= 100 * up
  BY <1>1, <1>2, InterpolationIsBetween
<1>5. /\ Percentile(n, m) \in Int
      /\ 100 * lo <= Percentile(n, m)
      /\ Percentile(n, m) <= 100 * up
  BY <1>3, <1>4
<1> QED BY <1>5 DEF lo, up

\* A higher percentile has no lower ranks, and within the same two ranks it is
\* nearer to the upper one.
LEMMA RanksGrow ==
  ASSUME NEW m \in Seq(Int), Len(m) > 0, NEW p \in 0..100, NEW q \in 0..100, p <= q
  PROVE  \/ UpperRank(p, m) <= LowerRank(q, m)
         \/ /\ LowerRank(p, m) = LowerRank(q, m)
            /\ UpperRank(p, m) = UpperRank(q, m)
            /\ \/ LowerRank(p, m) = UpperRank(p, m)
               \/ PosRank(p, m) % 100 <= PosRank(q, m) % 100
<1> DEFINE L == Len(m)
           P == PosRank(p, m)
           Q == PosRank(q, m)
<1>1. L \in Nat /\ L >= 1 /\ P \in Nat /\ Q \in Nat /\ P <= Q /\ Q <= 100 * L
  <2>1. L \in Nat /\ L >= 1
    OBVIOUS
  <2>2. ASSUME NEW l \in Nat
        PROVE l * p \in Nat /\ l * q \in Nat /\ l * p <= l * q /\ l * q <= l * 100
    BY <2>2, SMT
  <2>3. L * p \in Nat /\ L * q \in Nat /\ L * p <= L * q /\ L * q <= L * 100
    BY <2>1, <2>2
  <2>4. P = L * p /\ Q = L * q
    BY DEF PosRank
  <2> HIDE DEF L, P, Q
  <2> QED BY <2>1, <2>3, <2>4
<1>2. /\ LowerRank(p, m) = AtLeast(P \div 100, 1)
      /\ UpperRank(p, m) = AtMost(AtLeast((P + 99) \div 100, 1), L)
      /\ LowerRank(q, m) = AtLeast(Q \div 100, 1)
      /\ UpperRank(q, m) = AtMost(AtLeast((Q + 99) \div 100, 1), L)
  BY DEF LowerRank, UpperRank
<1> HIDE DEF L, P, Q
<1>3. CASE (P + 99) \div 100 <= Q \div 100
  BY <1>1, <1>2, <1>3 DEF AtLeast, AtMost
<1>4. CASE (P + 99) \div 100 > Q \div 100
  <2>1. P \div 100 = Q \div 100 /\ P % 100 <= Q % 100 /\ P % 100 > 0
    BY <1>1, <1>4
  <2>2. (P + 99) \div 100 = (Q + 99) \div 100
    BY <1>1, <1>4, <2>1
  <2> QED BY <1>2, <2>1, <2>2 DEF P, Q
<1> QED BY <1>1, <1>3, <1>4

\* The percentiles an aggregate reports are in order and within its minimum
\* and maximum, whatever it has measured (aggregate.ts:4-9).
THEOREM PercentilesAreInOrder ==
  ASSUME NEW m \in Seq(Int), Len(m) > 0, IsSorted(m),
         NEW p \in 0..100, NEW q \in 0..100, p <= q
  PROVE  /\ 100 * m[1] <= Percentile(p, m)
         /\ Percentile(p, m) <= Percentile(q, m)
         /\ Percentile(q, m) <= 100 * m[Len(m)]
<1> DEFINE lp == LowerRank(p, m)  up == UpperRank(p, m)
           lq == LowerRank(q, m)  uq == UpperRank(q, m)
           f  == PosRank(p, m) % 100
           g  == PosRank(q, m) % 100
<1>1. lp \in 1..Len(m) /\ up \in 1..Len(m) /\ lq \in 1..Len(m) /\ uq \in 1..Len(m)
      /\ lp <= up /\ lq <= uq
  BY RanksAreInList
<1>2. /\ Percentile(p, m) \in Int /\ Percentile(q, m) \in Int
      /\ 100 * m[lp] <= Percentile(p, m) /\ Percentile(p, m) <= 100 * m[up]
      /\ 100 * m[lq] <= Percentile(q, m) /\ Percentile(q, m) <= 100 * m[uq]
  BY PercentileIsBetween
<1>3. up <= lq \/ (lp = lq /\ up = uq /\ (lp = up \/ f <= g))
  BY RanksGrow
<1>4. /\ Percentile(p, m) = 100 * m[lp] + (m[up] - m[lp]) * f
      /\ Percentile(q, m) = 100 * m[lq] + (m[uq] - m[lq]) * g
  BY DEF Percentile
<1>5. f \in Nat /\ g \in Nat
  <2>1. ASSUME NEW r \in Int PROVE r % 100 \in Nat
    BY <2>1
  <2>2. PosRank(p, m) \in Int /\ PosRank(q, m) \in Int
    BY DEF PosRank
  <2> QED BY <2>1, <2>2
<1> DEFINE x == Percentile(p, m)  y == Percentile(q, m)
           a == m[lp]  b == m[up]  c == m[lq]  d == m[uq]
           min == m[1]  max == m[Len(m)]
<1> HIDE DEF lp, up, lq, uq, f, g
<1>6. /\ a \in Int /\ b \in Int /\ c \in Int /\ d \in Int /\ min \in Int /\ max \in Int
      /\ min <= a /\ a <= b /\ d <= max
      /\ up <= lq => b <= c
  BY <1>1, SMTT(20) DEF IsSorted
<1>7. x \in Int /\ y \in Int /\ 100 * a <= x /\ x <= 100 * b /\ 100 * c <= y /\ y <= 100 * d
  BY <1>2
<1>8. \/ up <= lq
      \/ /\ a = c /\ b = d /\ (a = b \/ f <= g)
         /\ x = 100 * a + (b - a) * f /\ y = 100 * a + (b - a) * g
  BY <1>3, <1>4
<1> HIDE DEF x, y, a, b, c, d, min, max
<1>9. x <= y
  <2>1. CASE up <= lq
    BY <1>6, <1>7, <2>1
  <2>2. CASE a = c /\ b = d /\ a = b
    BY <1>6, <1>7, <2>2
  <2>3. CASE /\ f <= g /\ x = 100 * a + (b - a) * f /\ y = 100 * a + (b - a) * g
    <3>1. ASSUME NEW e \in Nat, NEW k \in Nat, NEW l \in Nat, k <= l
          PROVE  e * k \in Nat /\ e * l \in Nat /\ e * k <= e * l
      BY <3>1, SMT
    <3>2. b - a \in Nat
      BY <1>6
    <3>3. (b - a) * f \in Nat /\ (b - a) * g \in Nat /\ (b - a) * f <= (b - a) * g
      BY <1>5, <2>3, <3>1, <3>2
    <3> QED BY <1>6, <2>3, <3>3
  <2> QED BY <1>8, <2>1, <2>2, <2>3
<1>10. 100 * min <= x /\ y <= 100 * max
  BY <1>6, <1>7
<1> QED BY <1>9, <1>10 DEF x, y, min, max
------------------------------------------------------------------------------
(***************************************************************************)
(* The timer                                                               *)
(***************************************************************************)
\* start() sets a timer only when none runs.
LEMMA StartTimerOK == OneTimer /\ StartTimer => OneTimer'
<1> SUFFICES ASSUME OneTimer, StartTimer PROVE OneTimer'
  OBVIOUS
<1>1. CASE active /\ collectTimer = 0
  <2>1. PICK t \in Timers \ armed : collectTimer' = t /\ armed' = armed \cup {t}
    BY <1>1 DEF StartTimer, SetTimer
  <2>2. t # 0 /\ active' /\ armed = {}
    BY <1>1, <2>1 DEF Timers, OneTimer, StartTimer, SetTimer
  <2> QED BY <2>1, <2>2 DEF OneTimer
<1>2. CASE ~(active /\ collectTimer = 0)
  BY <1>2 DEF StartTimer, OneTimer, timerVars
<1> QED BY <1>1, <1>2

\* No step leaves two timers running, or one the collector does not know.
LEMMA OneTimerStep == OneTimer /\ [Next]_vars => OneTimer'
<1> SUFFICES ASSUME OneTimer, [Next]_vars PROVE OneTimer'
  OBVIOUS
<1>1. CASE Start
  BY <1>1, StartTimerOK DEF Start
<1>2. CASE Shutdown
  BY <1>2 DEF Shutdown, OneTimer
<1>3. ASSUME NEW t \in Timers, TimerFires(t) PROVE OneTimer'
  BY <1>3 DEF TimerFires, OneTimer
<1>4. CASE FlushSource
  BY <1>4 DEF FlushSource, Throw, OneTimer, timerVars
<1>5. CASE CollectEnds
  BY <1>5, StartTimerOK DEF CollectEnds, OneTimer, timerVars
<1>6. CASE Deliver
  BY <1>6, StartTimerOK DEF Deliver, Throw, OneTimer, timerVars
<1>7. ASSUME NEW s \in Sources, Enable(s) \/ Record(s) PROVE OneTimer'
  BY <1>7 DEF Enable, Record, OneTimer, timerVars
<1>8. ASSUME NEW s \in Sources, NEW p \in Names, AddSource(s, p) PROVE OneTimer'
  BY <1>8 DEF AddSource, OneTimer, timerVars
<1>9. CASE UNCHANGED vars
  BY <1>9 DEF vars, OneTimer, timerVars
<1> QED BY <1>1, <1>2, <1>3, <1>4, <1>5, <1>6, <1>7, <1>8, <1>9
     DEF Next, Program, HandlerStep

\* The collector knows the one timer that runs, and none runs after a shutdown,
\* whatever the program does while next() is in progress (stats.ts:56-82).
THEOREM TimerIsKnown == Spec => []OneTimer
<1>1. Init => OneTimer
  BY DEF Init, OneTimer
<1> QED BY <1>1, OneTimerStep, PTL DEF Spec
------------------------------------------------------------------------------
(***************************************************************************)
(* Where measurements are                                                  *)
(***************************************************************************)
\* Only measurements there have been are held, reported or delivered.
Recorded ==
  /\ recorded \in Nat
  /\ held \in [Sources -> SUBSET (1..recorded)]
  /\ report \in [Names -> SUBSET (1..recorded)]
  /\ delivered \subseteq 1..recorded

\* next() has come to one of the sources there were when it began.
Position ==
  /\ sources \in Seq([source : Sources, prefix : Names])
  /\ handler \in [at : {"idle", "collecting", "delivering"}, index : Nat, upto : Nat]
  /\ handler.upto <= Len(sources)
  /\ handler.at = "collecting" => handler.index >= 1

\* The report holds only what sources before that one have given, so that the
\* entry of a name that differs from theirs is still empty.
ReportedBefore ==
  /\ handler.at = "idle" => report = NoReport
  /\ \A p \in Names : report[p] # {} =>
       \E i \in 1..Len(sources) : i < handler.index /\ sources[i].prefix = p

MeasureInv == Recorded /\ Position /\ ReportedBefore /\ MeasuredOnce

\* AggregateMetric.push() adds a measurement that is nowhere else.
LEMMA RecordOK == ASSUME MeasureInv, NEW s \in Sources, Record(s) PROVE MeasureInv'
<1> USE DEF MeasureInv, Record
<1>1. recorded + 1 \in Nat /\ 1..recorded \subseteq 1..(recorded + 1)
      /\ recorded + 1 \notin 1..recorded
      /\ 1..(recorded + 1) = 1..recorded \cup {recorded + 1}
  BY DEF Recorded
<1>2. /\ held' \in [Sources -> SUBSET (1..(recorded + 1))]
      /\ held'[s] = held[s] \cup {recorded + 1}
      /\ \A r \in Sources : r # s => held'[r] = held[r]
  BY <1>1 DEF Recorded
<1>3. Recorded'
  <2>1. report \in [Names -> SUBSET (1..(recorded + 1))] /\ delivered \subseteq 1..(recorded + 1)
    BY <1>1, SMT DEF Recorded
  <2> QED BY <1>1, <1>2, <2>1 DEF Recorded
<1>4. Position' /\ ReportedBefore'
  BY DEF Position, ReportedBefore, NoReport
<1>5. MeasuredOnce'
  <2>1. /\ \A r \in Sources : recorded + 1 \notin held[r]
        /\ \A p \in Names : recorded + 1 \notin report[p]
        /\ recorded + 1 \notin delivered
    BY <1>1 DEF Recorded
  <2>2. /\ \A r, t \in Sources : r # t => held'[r] \cap held'[t] = {}
        /\ \A r \in Sources, p \in Names : held'[r] \cap report[p] = {}
        /\ \A r \in Sources : held'[r] \cap delivered = {}
    BY <1>2, <2>1 DEF MeasuredOnce
  <2>3. PrefixesDiffer' <=> PrefixesDiffer
    BY DEF PrefixesDiffer
  <2>4. ASSUME collect, ~threw, PrefixesDiffer, NEW m \in 1..(recorded + 1)
        PROVE  \/ m \in delivered
               \/ \E r \in Sources : m \in held'[r]
               \/ \E p \in Names : m \in report[p]
    <3>1. CASE m = recorded + 1
      BY <1>2, <3>1
    <3>2. CASE m \in 1..recorded
      BY <1>2, <2>4, <3>2 DEF MeasuredOnce
    <3> QED BY <1>1, <3>1, <3>2
  <2> QED BY <2>2, <2>3, <2>4 DEF MeasuredOnce, timerVars
<1> QED BY <1>3, <1>4, <1>5

\* A flush moves what its source holds to an entry that was empty, unless
\* prefixes collide.
LEMMA FlushSourceOK == ASSUME MeasureInv, FlushSource PROVE MeasureInv'
<1> USE DEF MeasureInv
<1> DEFINE s == Current.source
           p == Current.prefix
<1>1. handler.index \in 1..Len(sources) /\ s \in Sources /\ p \in Names
      /\ sources[handler.index].prefix = p
  <2>1. handler.index \in 1..Len(sources)
    BY DEF FlushSource, Position
  <2>2. sources[handler.index] \in [source : Sources, prefix : Names]
    <3>1. ASSUME NEW S, NEW q \in Seq(S), NEW i \in 1..Len(q) PROVE q[i] \in S
      BY <3>1
    <3>2. sources \in Seq([source : Sources, prefix : Names])
      BY DEF Position
    <3> QED BY <2>1, <3>1, <3>2
  <2> QED BY <2>1, <2>2 DEF Current
<1> HIDE DEF s, p
<1>2. CASE enabled[Current.source]
  <2>1. /\ report' = [report EXCEPT ![p] = held[s]]
        /\ held' = [held EXCEPT ![s] = {}]
        /\ handler' = [handler EXCEPT !.index = @ + 1]
        /\ UNCHANGED <<timerVars, delivered, threw, sources, enabled, recorded>>
    BY <1>2 DEF FlushSource, s, p
  <2>2. /\ report'[p] = held[s] /\ \A q \in Names : q # p => report'[q] = report[q]
        /\ held'[s] = {} /\ \A r \in Sources : r # s => held'[r] = held[r]
    BY <1>1, <2>1 DEF Recorded
  <2>3. Recorded'
    BY <1>1, <2>1 DEF Recorded
  <2>4. Position' /\ handler'.at = handler.at /\ handler'.index = handler.index + 1
    BY <2>1 DEF Position
  <2>5. ReportedBefore'
    <3>1. handler.at # "idle"
      BY DEF FlushSource
    <3>2. ASSUME NEW q \in Names, report'[q] # {}
          PROVE  \E i \in 1..Len(sources) : i < handler.index + 1 /\ sources[i].prefix = q
      <4>1. CASE q = p
        BY <1>1, <4>1
      <4>2. CASE q # p
        <5>1. PICK i \in 1..Len(sources) : i < handler.index /\ sources[i].prefix = q
          BY <2>2, <3>2, <4>2 DEF ReportedBefore
        <5>2. i < handler.index + 1
          BY <1>1, <5>1
        <5> QED BY <5>1, <5>2
      <4> QED BY <4>1, <4>2
    <3> QED BY <2>1, <2>4, <3>1, <3>2 DEF ReportedBefore
  <2>6. MeasuredOnce'
    <3>1. /\ \A r, t \in Sources : r # t => held'[r] \cap held'[t] = {}
          /\ \A q, t \in Names : q # t => report'[q] \cap report'[t] = {}
          /\ \A r \in Sources, q \in Names : held'[r] \cap report'[q] = {}
          /\ \A r \in Sources : held'[r] \cap delivered = {}
          /\ \A q \in Names : report'[q] \cap delivered = {}
      BY <1>1, <2>2 DEF MeasuredOnce
    <3>2. PrefixesDiffer' <=> PrefixesDiffer
      BY <2>1 DEF PrefixesDiffer
    <3>3. ASSUME collect, ~threw, PrefixesDiffer, NEW m \in 1..recorded
          PROVE  \/ m \in delivered
                 \/ \E r \in Sources : m \in held'[r]
                 \/ \E q \in Names : m \in report'[q]
      <4>1. report[p] = {}
        <5> SUFFICES ASSUME report[p] # {} PROVE FALSE
          OBVIOUS
        <5>1. PICK i \in 1..Len(sources) : i < handler.index /\ sources[i].prefix = p
          BY <1>1 DEF ReportedBefore
        <5> QED BY <1>1, <3>3, <5>1 DEF PrefixesDiffer
      <4>2. \/ m \in delivered
            \/ \E r \in Sources : m \in held[r]
            \/ \E q \in Names : m \in report[q]
        BY <3>3 DEF MeasuredOnce
      <4>3. CASE \E r \in Sources : m \in held[r]
        BY <1>1, <2>2, <4>3
      <4>4. CASE \E q \in Names : m \in report[q]
        BY <2>2, <4>1, <4>4
      <4> QED BY <4>2, <4>3, <4>4
    <3> QED BY <2>1, <3>1, <3>2, <3>3 DEF MeasuredOnce, timerVars
  <2> QED BY <2>3, <2>4, <2>5, <2>6
<1>3. CASE ~enabled[Current.source]
  <2>1. /\ handler' = Idle /\ report' = NoReport /\ threw' = TRUE
        /\ UNCHANGED <<timerVars, delivered, held, sources, enabled, recorded>>
    BY <1>3 DEF FlushSource, Throw
  <2> QED BY <2>1 DEF Recorded, Position, ReportedBefore, MeasuredOnce, NoReport, Idle
<1> QED BY <1>2, <1>3

\* What becomes of the report at the end: it is delivered, or dropped when
\* nothing is collected or the destination throws.
LEMMA EndOK == ASSUME MeasureInv, CollectEnds \/ Deliver PROVE MeasureInv'
<1> USE DEF MeasureInv
<1>1. /\ UNCHANGED sourceVars /\ collect' = collect
  BY DEF CollectEnds, Deliver, StartTimer, SetTimer, timerVars, Throw
<1>2. PrefixesDiffer' <=> PrefixesDiffer
  BY <1>1 DEF PrefixesDiffer, sourceVars
<1>3. CASE handler' = [handler EXCEPT !.at = "delivering"] /\ UNCHANGED <<report, delivered, threw>>
  <2>1. handler'.at = "delivering" /\ handler'.index = handler.index /\ handler'.upto = handler.upto
        /\ handler' \in [at : {"idle", "collecting", "delivering"}, index : Nat, upto : Nat]
    BY <1>3 DEF Position
  <2>2. Recorded' /\ Position'
    BY <1>1, <1>3, <2>1 DEF Recorded, Position, sourceVars
  <2>3. ReportedBefore'
    BY <1>1, <1>3, <2>1 DEF ReportedBefore, sourceVars
  <2>4. MeasuredOnce'
    BY <1>1, <1>2, <1>3 DEF MeasuredOnce, sourceVars
  <2> QED BY <2>2, <2>3, <2>4
<1>4. ASSUME handler' = Idle, report' = NoReport, UNCHANGED delivered, ~collect \/ threw'
      PROVE  MeasureInv'
  <2>1. Recorded' /\ Position' /\ ReportedBefore'
    BY <1>1, <1>4 DEF Recorded, Position, ReportedBefore, NoReport, Idle, sourceVars
  <2>2. MeasuredOnce'
    BY <1>1, <1>4 DEF MeasuredOnce, NoReport, sourceVars
  <2> QED BY <2>1, <2>2
<1>5. ASSUME handler' = Idle, report' = NoReport, UNCHANGED threw,
             delivered' = delivered \cup UNION {report[p] : p \in Names}
      PROVE  MeasureInv'
  <2>0. delivered' \subseteq 1..recorded
    BY <1>5 DEF Recorded
  <2>1. Recorded' /\ Position' /\ ReportedBefore'
    BY <1>1, <1>5, <2>0 DEF Recorded, Position, ReportedBefore, NoReport, Idle, sourceVars
  <2>2. MeasuredOnce'
    <3>1. \A m : m \in delivered' <=> (m \in delivered \/ \E p \in Names : m \in report[p])
      BY <1>5
    <3>2. \A s \in Sources : held[s] \cap delivered' = {}
      BY <3>1 DEF MeasuredOnce
    <3> QED BY <1>1, <1>2, <1>5, <3>1, <3>2 DEF MeasuredOnce, NoReport, sourceVars
  <2> QED BY <2>1, <2>2
<1> QED BY <1>3, <1>4, <1>5 DEF CollectEnds, Deliver, Throw, timerVars

\* Every step keeps the invariant.
LEMMA MeasureStep == MeasureInv /\ [Next]_vars => MeasureInv'
<1> SUFFICES ASSUME MeasureInv, [Next]_vars PROVE MeasureInv'
  OBVIOUS
<1>1. ASSUME NEW s \in Sources, Record(s) PROVE MeasureInv'
  BY <1>1, RecordOK
<1>2. CASE FlushSource
  BY <1>2, FlushSourceOK
<1>3. CASE CollectEnds \/ Deliver
  BY <1>3, EndOK
<1> USE DEF MeasureInv
<1>4. ASSUME UNCHANGED <<collect, sources, held, recorded, handler, report, delivered, threw>>
      PROVE  MeasureInv'
  BY <1>4 DEF Recorded, Position, ReportedBefore, NoReport, MeasuredOnce, PrefixesDiffer
<1>5. CASE Start \/ Shutdown
  BY <1>4, <1>5 DEF Start, StartTimer, SetTimer, Shutdown, sourceVars, timerVars
<1>6. ASSUME NEW s \in Sources, Enable(s) PROVE MeasureInv'
  BY <1>4, <1>6 DEF Enable, timerVars
<1>7. ASSUME NEW s \in Sources, NEW p \in Names, AddSource(s, p) PROVE MeasureInv'
  <2>1. /\ sources' = Append(sources, [source |-> s, prefix |-> p])
        /\ UNCHANGED <<collect, held, recorded, handler, report, delivered, threw>>
    BY <1>7 DEF AddSource, timerVars
  <2>2. /\ Len(sources') = Len(sources) + 1 /\ Len(sources) \in Nat
        /\ \A i \in 1..Len(sources) : sources'[i] = sources[i]
        /\ sources' \in Seq([source : Sources, prefix : Names])
    BY <2>1 DEF Position
  <2>3. 1..Len(sources) \subseteq 1..Len(sources')
    BY <2>2
  <2>4. Recorded' /\ Position'
    BY <2>1, <2>2 DEF Recorded, Position
  <2>5. ReportedBefore'
    <3>1. ASSUME NEW q \in Names, report[q] # {}
          PROVE  \E i \in 1..Len(sources') : i < handler.index /\ sources'[i].prefix = q
      <4>1. PICK i \in 1..Len(sources) : i < handler.index /\ sources[i].prefix = q
        BY <3>1 DEF ReportedBefore
      <4> QED BY <2>2, <2>3, <4>1
    <3> QED BY <2>1, <3>1 DEF ReportedBefore, NoReport
  <2>6. PrefixesDiffer' => PrefixesDiffer
    <3> SUFFICES ASSUME PrefixesDiffer', NEW i \in 1..Len(sources), NEW j \in 1..Len(sources), i # j
                 PROVE  sources[i].prefix # sources[j].prefix
      BY DEF PrefixesDiffer
    <3>1. sources'[i].prefix # sources'[j].prefix
      BY <2>3 DEF PrefixesDiffer
    <3> QED BY <2>2, <3>1
  <2>7. MeasuredOnce'
    BY <2>1, <2>6 DEF MeasuredOnce
  <2> QED BY <2>4, <2>5, <2>7
<1>8. ASSUME NEW t \in Timers, TimerFires(t) PROVE MeasureInv'
  <2>1. /\ handler = Idle
        /\ handler' = [at |-> "collecting", index |-> 1, upto |-> Len(sources)]
        /\ UNCHANGED <<collect, sources, held, recorded, report, delivered, threw>>
    BY <1>8 DEF TimerFires, sourceVars
  <2>2. report = NoReport
    BY <2>1 DEF ReportedBefore, Idle
  <2>3. Recorded' /\ Position' /\ ReportedBefore'
    BY <2>1, <2>2 DEF Recorded, Position, ReportedBefore, NoReport
  <2>4. MeasuredOnce'
    BY <2>1 DEF MeasuredOnce, PrefixesDiffer
  <2> QED BY <2>3, <2>4
<1>9. CASE UNCHANGED vars
  BY <1>4, <1>9 DEF vars, timerVars, sourceVars
<1> QED BY <1>1, <1>2, <1>3, <1>5, <1>6, <1>7, <1>8, <1>9 DEF Next, Program, HandlerStep

\* A measurement is in one place at most, and is lost only by an exception that
\* leaves next() or by prefixes that collide (stats.ts:52-68).
THEOREM MeasurementsAreCountedOnce == Spec => []MeasuredOnce
<1>1. Init => MeasureInv
  BY DEF Init, MeasureInv, Recorded, Position, ReportedBefore, MeasuredOnce, NoReport, Idle
<1>2. MeasureInv => MeasuredOnce
  BY DEF MeasureInv
<1> QED BY <1>1, <1>2, MeasureStep, PTL DEF Spec
------------------------------------------------------------------------------
(***************************************************************************)
(* What the collector holds is typed                                       *)
(***************************************************************************)
\* The entries of a list over T are in T.
LEMMA EntryOf == ASSUME NEW T, NEW s \in Seq(T), NEW i \in 1..Len(s) PROVE s[i] \in T
  OBVIOUS

\* start() touches the timer only.
LEMMA StartTimerType ==
  ASSUME TypeOK, StartTimer
  PROVE  /\ collect' = collect /\ active' = active
         /\ collectTimer' \in Timers \cup {0} /\ armed' \subseteq Timers
<1>1. CASE active /\ collectTimer = 0
  BY <1>1 DEF TypeOK, StartTimer, SetTimer
<1>2. CASE ~(active /\ collectTimer = 0)
  BY <1>2 DEF TypeOK, StartTimer, timerVars
<1> QED BY <1>1, <1>2

\* Every step keeps the types.
LEMMA StatsTypeStep == TypeOK /\ [Next]_vars => TypeOK'
<1> SUFFICES ASSUME TypeOK, [Next]_vars PROVE TypeOK'
  OBVIOUS
<1> USE StatsAssumption DEF TypeOK
<1>1. ASSUME UNCHANGED timerVars \/ StartTimer
      PROVE  /\ collect' \in BOOLEAN /\ active' \in BOOLEAN
             /\ collectTimer' \in Timers \cup {0} /\ armed' \subseteq Timers
  BY <1>1, StartTimerType DEF timerVars
<1>2. NoReport \in [Names -> SUBSET Measurement]
  BY DEF NoReport
<1>3. Idle \in [at : {"idle", "collecting", "delivering"}, index : Nat, upto : Nat]
      /\ Idle.upto = 0 /\ Idle.at # "collecting"
  BY DEF Idle
<1>4. Len(sources) \in Nat /\ Len(Value) \in Nat
  OBVIOUS
<1>5. CASE Start
  BY <1>1, <1>5 DEF Start, sourceVars
<1>6. CASE Shutdown
  <2>1. active' \in BOOLEAN
    BY <1>6, Zenon DEF Shutdown
  <2> QED BY <1>6, <2>1 DEF Shutdown, sourceVars
<1>7. ASSUME NEW s \in Sources, Enable(s) PROVE TypeOK'
  BY <1>7 DEF Enable, timerVars
<1>8. ASSUME NEW s \in Sources, Record(s) PROVE TypeOK'
  <2>1. recorded' = recorded + 1 /\ recorded' \in 0..Len(Value)
    BY <1>4, <1>8 DEF Record
  <2>2. recorded + 1 \in Measurement
    BY <1>4, <1>8 DEF Record, Measurement
  <2>3. held' \in [Sources -> SUBSET Measurement]
    BY <1>8, <2>2 DEF Record
  <2> QED BY <1>8, <2>1, <2>3 DEF Record, timerVars
<1>9. ASSUME NEW s \in Sources, NEW p \in Names, AddSource(s, p) PROVE TypeOK'
  <2>1. /\ sources' \in Seq([source : Sources, prefix : Names])
        /\ Len(sources') = Len(sources) + 1
    BY <1>9 DEF AddSource
  <2>2. handler'.upto <= Len(sources')
    BY <1>4, <1>9, <2>1 DEF AddSource
  <2> QED BY <1>9, <2>1, <2>2 DEF AddSource, timerVars
<1>10. ASSUME NEW t \in Timers, TimerFires(t) PROVE TypeOK'
  <2>1. /\ handler' \in [at : {"idle", "collecting", "delivering"}, index : Nat, upto : Nat]
        /\ handler'.upto = Len(sources) /\ handler'.index = 1
    BY <1>4, <1>10 DEF TimerFires
  <2> QED BY <1>4, <1>10, <2>1 DEF TimerFires, sourceVars
<1>11. CASE FlushSource
  <2>1. CASE enabled[Current.source] /\ held' = [held EXCEPT ![Current.source] = {}]
    <3>1. /\ handler.index \in 1..Len(sources)
          /\ Current \in [source : Sources, prefix : Names]
      <4>1. /\ handler.index \in Nat /\ handler.upto \in Nat /\ handler.index >= 1
            /\ handler.index <= handler.upto /\ handler.upto <= Len(sources)
        BY <1>11 DEF FlushSource
      <4>2. handler.index \in 1..Len(sources)
        BY <1>4, <4>1
      <4>3. sources \in Seq([source : Sources, prefix : Names])
        OBVIOUS
      <4>4. sources[handler.index] \in [source : Sources, prefix : Names]
        BY <4>2, <4>3, EntryOf, Zenon
      <4> QED BY <4>2, <4>4 DEF Current
    <3>2. /\ report' = [report EXCEPT ![Current.prefix] = held[Current.source]]
          /\ handler' = [handler EXCEPT !.index = @ + 1]
          /\ UNCHANGED <<timerVars, delivered, threw, sources, enabled, recorded>>
      BY <1>11, <2>1 DEF FlushSource
    <3>3. report' \in [Names -> SUBSET Measurement] /\ held' \in [Sources -> SUBSET Measurement]
      <4>1. Current.source \in Sources /\ Current.prefix \in Names
        BY <3>1
      <4> HIDE DEF Current
      <4> QED BY <2>1, <3>2, <4>1
    <3>4. /\ handler' \in [at : {"idle", "collecting", "delivering"}, index : Nat, upto : Nat]
          /\ handler'.upto = handler.upto /\ handler'.at = handler.at
          /\ handler'.index = handler.index + 1 /\ handler.index \in Nat
      <4>1. handler \in [at : {"idle", "collecting", "delivering"}, index : Nat, upto : Nat]
        OBVIOUS
      <4>2. handler.index \in Nat /\ handler.index + 1 \in Nat
        BY <4>1
      <4>3. handler' = [handler EXCEPT !.index = handler.index + 1]
        BY <3>2
      <4> QED BY ONLY <4>1, <4>2, <4>3
    <3>5. handler'.upto <= Len(sources') /\ handler'.index >= 1
      BY <3>2, <3>4
    <3> QED BY <3>2, <3>3, <3>4, <3>5 DEF timerVars
  <2>2. CASE Throw /\ UNCHANGED <<sources, enabled, held, recorded>>
    <3>1. threw' \in BOOLEAN
      BY <2>2, Zenon DEF Throw
    <3> QED BY <1>2, <1>3, <1>4, <2>2, <3>1 DEF Throw, timerVars
  <2> QED BY <1>11, <2>1, <2>2 DEF FlushSource
<1>12. CASE CollectEnds
  <2>1. CASE handler' = [handler EXCEPT !.at = "delivering"]
    BY <1>2, <1>3, <1>4, <1>12, <2>1 DEF CollectEnds, sourceVars, timerVars, Idle
  <2>2. CASE handler' = Idle
    <3>1. UNCHANGED timerVars \/ StartTimer
      BY <1>12 DEF CollectEnds
    <3>2. report' \in [Names -> SUBSET Measurement]
      BY <1>2, <1>12 DEF CollectEnds
    <3> QED BY <1>1, <1>3, <1>4, <1>12, <2>2, <3>1, <3>2 DEF CollectEnds, sourceVars
  <2> QED BY <1>12, <2>1, <2>2 DEF CollectEnds
<1>13. CASE Deliver
  <2>1. UNCHANGED timerVars \/ StartTimer
    BY <1>13 DEF Deliver, Throw
  <2>2. delivered' \subseteq Measurement
    BY <1>13 DEF Deliver, Throw
  <2>3. threw' \in BOOLEAN
    BY <1>13, Zenon DEF Deliver, Throw
  <2>4. handler' = Idle /\ report' = NoReport /\ UNCHANGED sourceVars
    BY <1>13 DEF Deliver, Throw
  <2> QED BY <1>1, <1>2, <1>3, <1>4, <2>1, <2>2, <2>3, <2>4 DEF sourceVars
<1>14. CASE UNCHANGED vars
  BY <1>14 DEF vars, timerVars, sourceVars
<1> QED BY <1>5, <1>6, <1>7, <1>8, <1>9, <1>10, <1>11, <1>12, <1>13, <1>14 DEF Next, Program, HandlerStep

\* Every variable of the collector keeps its type.
THEOREM StatsTypeCorrect == Spec => []TypeOK
<1>1. Init => TypeOK
  <2> SUFFICES ASSUME Init PROVE TypeOK
    OBVIOUS
  <2>1. active \in BOOLEAN /\ threw \in BOOLEAN /\ collect \in BOOLEAN
    BY Zenon DEF Init
  <2>2. sources \in Seq([source : Sources, prefix : Names]) /\ Len(sources) = 0
    BY DEF Init
  <2>3. /\ enabled \in [Sources -> BOOLEAN] /\ held \in [Sources -> SUBSET Measurement]
        /\ report \in [Names -> SUBSET Measurement]
    BY DEF Init, NoReport
  <2>4. Len(Value) \in Nat
    BY StatsAssumption
  <2> QED BY <2>1, <2>2, <2>3, <2>4 DEF Init, TypeOK, Idle
<1> QED BY <1>1, StatsTypeStep, PTL DEF Spec
------------------------------------------------------------------------------
(***************************************************************************)
(* The sorted values of a set of measurements.  Values picks the value of  *)
(* each rank by counting the measurements below it: it exists because a    *)
(* rank has a least value that as many measurements do not exceed.         *)
(***************************************************************************)
\* A set of natural numbers that is not empty has a least element.
LEMMA LeastNatural ==
  ASSUME NEW S, S \subseteq Nat, S # {}
  PROVE  \E n \in S : \A m \in S : ~(m < n)
<1>1. \E x \in S : \A y \in S : ~ (<<y, x>> \in OpToRel(<, Nat))
  BY NatLessThanWellFounded, WFMin
<1> QED BY <1>1 DEF OpToRel

\* Induction, of a property given as the set of the numbers that have it.
LEMMA SetInduction ==
  ASSUME NEW S, 0 \in S, \A n \in Nat : n \in S => n + 1 \in S
  PROVE  Nat \subseteq S
<1> SUFFICES ASSUME Nat \ S # {} PROVE FALSE
  OBVIOUS
<1>1. PICK n \in Nat \ S : \A m \in Nat \ S : ~(m < n)
  BY LeastNatural
<1>2. n - 1 \in Nat
  BY <1>1
<1> QED BY <1>1, <1>2

\* The values have an upper bound.
LEMMA ValuesAreBounded == \E v \in Nat : \A m \in Measurement : Value[m] <= v
<1> USE StatsAssumption
<1> DEFINE Bounded(k, v) == \A m \in 1..k : m <= Len(Value) => Value[m] <= v
           S == {k \in Nat : \E v \in Nat : Bounded(k, v)}
<1>1. 0 \in S
  OBVIOUS
<1>2. ASSUME NEW k \in Nat, k \in S PROVE k + 1 \in S
  <2>1. PICK v \in Nat : Bounded(k, v)
    BY <1>2
  <2>2. CASE k + 1 <= Len(Value)
    <3>1. Value[k + 1] \in Nat
      BY <2>2
    <3> DEFINE w == IF Value[k + 1] <= v THEN v ELSE Value[k + 1]
    <3>2. w \in Nat /\ v <= w /\ Value[k + 1] <= w
      BY <3>1
    <3> HIDE DEF w
    <3>3. ASSUME NEW m \in 1..(k + 1), m <= Len(Value) PROVE Value[m] <= w
      <4>1. m = k + 1 \/ m \in 1..k
        OBVIOUS
      <4>2. Value[m] \in Nat
        BY <3>3
      <4> QED BY <2>1, <3>2, <3>3, <4>1, <4>2
    <3>4. Bounded(k + 1, w)
      BY <3>3
    <3> HIDE DEF Bounded
    <3> QED BY <3>2, <3>4
  <2>3. CASE ~(k + 1 <= Len(Value))
    <3>1. ASSUME NEW m \in 1..(k + 1), m <= Len(Value) PROVE m \in 1..k
      BY <2>3, <3>1
    <3>2. Bounded(k + 1, v)
      BY <2>1, <3>1
    <3> HIDE DEF Bounded
    <3> QED BY <3>2
  <2> QED BY <2>2, <2>3
<1>3. Nat \subseteq S
  <2> HIDE DEF S
  <2> QED BY <1>1, <1>2, SetInduction
<1>4. Len(Value) \in S
  <2> HIDE DEF S
  <2> QED BY <1>3
<1>5. PICK v \in Nat : Bounded(Len(Value), v)
  <2> HIDE DEF Bounded
  <2> QED BY <1>4
<1>6. \A m \in Measurement : Value[m] <= v
  BY <1>5 DEF Measurement
<1> QED BY <1>6

\* How many measurements of S are below v, and at most v.
Under(S, v) == {m \in S : Value[m] < v}
UpTo(S, v)  == {m \in S : Value[m] <= v}
HasRank(S, i, v) == /\ v \in {Value[m] : m \in S}
                    /\ Cardinality(Under(S, v)) < i
                    /\ i <= Cardinality(UpTo(S, v))

\* Sets of measurements can be counted.
LEMMA MeasurementsFinite ==
  ASSUME NEW S, S \subseteq Measurement, NEW T, T \subseteq S
  PROVE  /\ IsFiniteSet(T) /\ Cardinality(T) \in Nat
         /\ Cardinality(S) \in Nat /\ Cardinality(T) <= Cardinality(S)
<1>1. IsFiniteSet(Measurement)
  <2>1. 1 \in Int /\ Len(Value) \in Int
    BY StatsAssumption
  <2> QED BY <2>1, FS_Interval DEF Measurement
<1>2. IsFiniteSet(S)
  BY <1>1, FS_Subset
<1>3. IsFiniteSet(T) /\ Cardinality(T) <= Cardinality(S)
  BY <1>2, FS_Subset
<1> QED BY <1>2, <1>3, FS_CardinalityType

\* Every rank has a value.
LEMMA RankExists ==
  ASSUME NEW S, S \subseteq Measurement, NEW i \in 1..Cardinality(S)
  PROVE  \E v : HasRank(S, i, v)
<1>1. \A m \in S : Value[m] \in Nat
  BY StatsAssumption DEF Measurement
<1>2. \A v : /\ Cardinality(Under(S, v)) \in Nat /\ Cardinality(UpTo(S, v)) \in Nat
             /\ Cardinality(S) \in Nat
  BY MeasurementsFinite DEF Under, UpTo
<1> DEFINE T == {v \in Nat : i <= Cardinality(UpTo(S, v))}
<1>3. T # {}
  <2>1. PICK v \in Nat : \A m \in Measurement : Value[m] <= v
    BY ValuesAreBounded
  <2>2. UpTo(S, v) = S
    BY <2>1 DEF UpTo
  <2>3. v \in T
    BY <2>2
  <2> QED BY <2>3
<1>4. PICK v \in T : \A w \in T : ~(w < v)
  <2> HIDE DEF T
  <2>1. T \subseteq Nat
    BY DEF T
  <2> QED BY <1>3, <2>1, LeastNatural
<1>5. v \in Nat /\ i <= Cardinality(UpTo(S, v))
  BY <1>4
<1>6. Cardinality(Under(S, v)) < i
  <2>1. CASE v = 0
    <3>1. Under(S, v) = {}
      BY <1>1, <2>1 DEF Under
    <3> QED BY <3>1, FS_EmptySet
  <2>2. CASE v # 0
    <3>1. v - 1 \in Nat /\ v - 1 < v
      BY <1>5, <2>2
    <3>2. ~(i <= Cardinality(UpTo(S, v - 1)))
      BY <1>4, <3>1
    <3>3. Under(S, v) = UpTo(S, v - 1)
      BY <1>1, <1>5 DEF Under, UpTo
    <3> QED BY <1>2, <3>2, <3>3
  <2> QED BY <2>1, <2>2
<1>7. v \in {Value[m] : m \in S}
  <2>1. Under(S, v) # UpTo(S, v)
    BY <1>2, <1>5, <1>6
  <2>2. PICK m \in S : Value[m] <= v /\ ~(Value[m] < v)
    BY <2>1, <1>1, <1>5 DEF Under, UpTo
  <2>3. Value[m] = v
    BY <1>1, <1>5, <2>2
  <2> QED BY <2>3
<1> QED BY <1>5, <1>6, <1>7 DEF HasRank

\* Values lists one value per measurement, each of its rank.
LEMMA ValuesHaveRank ==
  ASSUME NEW S, S \subseteq Measurement
  PROVE  /\ Values(S) \in Seq(Nat) /\ Len(Values(S)) = Cardinality(S)
         /\ \A i \in 1..Cardinality(S) : HasRank(S, i, Values(S)[i])
<1>1. Cardinality(S) \in Nat
  BY MeasurementsFinite
<1>2. ASSUME NEW i \in 1..Cardinality(S) PROVE HasRank(S, i, Values(S)[i])
  <2> DEFINE P(v) == /\ Cardinality({m \in S : Value[m] < v}) < i
                     /\ i <= Cardinality({m \in S : Value[m] <= v})
  <2>1. \A v : HasRank(S, i, v) <=> v \in {Value[m] : m \in S} /\ P(v)
    BY DEF HasRank, Under, UpTo
  <2>2. Values(S)[i] = CHOOSE v \in {Value[m] : m \in S} : P(v)
    BY DEF Values
  <2> HIDE DEF P
  <2>3. \E v \in {Value[m] : m \in S} : P(v)
    BY <2>1, RankExists
  <2>4. (CHOOSE v \in {Value[m] : m \in S} : P(v)) \in {Value[m] : m \in S}
        /\ P(CHOOSE v \in {Value[m] : m \in S} : P(v))
    BY <2>3, Zenon
  <2> QED BY <2>1, <2>2, <2>4
<1>3. \A i \in 1..Cardinality(S) : Values(S)[i] \in Nat
  <2>1. \A m \in S : Value[m] \in Nat
    BY StatsAssumption DEF Measurement
  <2> QED BY <1>2, <2>1 DEF HasRank
<1> DEFINE V == Values(S)
           n == Cardinality(S)
<1>4. V = [i \in 1..n |-> V[i]]
  <2> DEFINE e(i) == CHOOSE v \in {Value[m] : m \in S} :
                       /\ Cardinality({m \in S : Value[m] < v}) < i
                       /\ i <= Cardinality({m \in S : Value[m] <= v})
  <2>1. V = [i \in 1..n |-> e(i)]
    BY DEF Values
  <2> HIDE DEF V, n, e
  <2> QED BY <2>1
<1> HIDE DEF V, n
<1>5. V \in [1..n -> Nat]
  <2>1. \A i \in 1..n : V[i] \in Nat
    BY <1>3 DEF V, n
  <2> QED BY <1>4, <2>1
<1>6. V \in Seq(Nat) /\ Len(V) = n
  BY <1>1, <1>5 DEF n
<1>7. V \in Seq(Nat) /\ Len(V) = n /\ \A i \in 1..n : HasRank(S, i, V[i])
  BY <1>2, <1>6, Zenon DEF V, n
<1> QED BY <1>7, Zenon DEF V, n

\* The values are sorted.
LEMMA ValuesSorted ==
  ASSUME NEW S, S \subseteq Measurement
  PROVE  IsSorted(Values(S))
<1> DEFINE V == Values(S)
<1>1. /\ V \in Seq(Nat) /\ Len(V) = Cardinality(S)
      /\ \A i \in 1..Cardinality(S) : HasRank(S, i, V[i])
  BY ValuesHaveRank
<1> HIDE DEF V
<1> SUFFICES ASSUME NEW i \in 1..Len(V), NEW j \in 1..Len(V), i <= j, ~(V[i] <= V[j])
             PROVE  FALSE
  BY DEF IsSorted, V
<1>2. V[i] \in Nat /\ V[j] \in Nat /\ V[j] < V[i]
  BY <1>1
<1>3. \A m \in S : Value[m] \in Nat
  BY StatsAssumption DEF Measurement
<1>4. UpTo(S, V[j]) \subseteq Under(S, V[i]) /\ Under(S, V[i]) \subseteq Measurement
  BY <1>2, <1>3 DEF UpTo, Under
<1>5. /\ Cardinality(UpTo(S, V[j])) \in Nat /\ Cardinality(Under(S, V[i])) \in Nat
      /\ Cardinality(UpTo(S, V[j])) <= Cardinality(Under(S, V[i]))
  BY <1>4, MeasurementsFinite
<1>6. j <= Cardinality(UpTo(S, V[j])) /\ Cardinality(Under(S, V[i])) < i
  BY <1>1 DEF HasRank
<1> QED BY <1>5, <1>6

\* Whatever a source holds when it is flushed, the minimum, the percentiles and
\* the maximum it reports are in order (aggregate.ts:4-9, 63-76).
THEOREM ReportsAreInOrder == Spec => []PercentilesInOrder
<1>1. TypeOK => PercentilesInOrder
  <2> SUFFICES ASSUME TypeOK, NEW s \in Sources, held[s] # {}
               PROVE  LET m == Values(held[s]) IN
                      /\ 100 * m[1] <= Percentile(80, m)
                      /\ Percentile(80, m) <= Percentile(90, m)
                      /\ Percentile(90, m) <= Percentile(95, m)
                      /\ Percentile(95, m) <= Percentile(99, m)
                      /\ Percentile(99, m) <= 100 * m[Len(m)]
    BY DEF PercentilesInOrder
  <2> DEFINE m == Values(held[s])
  <2>1. held[s] \subseteq Measurement
    BY DEF TypeOK
  <2>2. m \in Seq(Nat) /\ Len(m) = Cardinality(held[s]) /\ IsSorted(m)
    BY <2>1, ValuesHaveRank, ValuesSorted
  <2>3. Cardinality(held[s]) \in Nat /\ Cardinality(held[s]) # 0
    BY <2>1, MeasurementsFinite, FS_EmptySet
  <2> HIDE DEF m
  <2>4. m \in Seq(Int) /\ Len(m) > 0
    BY <2>2, <2>3
  <2>5. ASSUME NEW p \in 0..100, NEW q \in 0..100, p <= q
        PROVE  /\ 100 * m[1] <= Percentile(p, m)
               /\ Percentile(p, m) <= Percentile(q, m)
               /\ Percentile(q, m) <= 100 * m[Len(m)]
    BY <2>2, <2>4, <2>5, PercentilesAreInOrder
  <2>6. /\ 80 \in 0..100 /\ 90 \in 0..100 /\ 95 \in 0..100 /\ 99 \in 0..100
        /\ 80 <= 90 /\ 90 <= 95 /\ 95 <= 99
    OBVIOUS
  <2>7. 100 * m[1] <= Percentile(80, m) /\ Percentile(80, m) <= Percentile(90, m)
    BY <2>5, <2>6, Zenon
  <2>8. Percentile(90, m) <= Percentile(95, m) /\ Percentile(95, m) <= Percentile(99, m)
    BY <2>5, <2>6, Zenon
  <2>9. Percentile(99, m) <= 100 * m[Len(m)]
    BY <2>5, <2>6, ZenonT(40)
  <2> QED BY <2>7, <2>8, <2>9 DEF m
<1> QED BY <1>1, StatsTypeCorrect, PTL
=============================================================================
