--------------------------- MODULE StatsCollector ---------------------------
(***************************************************************************)
(* InternalStatsCollector of packages/stats-collector/src/stats.ts, with   *)
(* sources that count since their last flush as the HEC client and its     *)
(* aggregates do: a timer flushes every source, hands what it got to the   *)
(* destination and sets the timer again.                                   *)
(*                                                                         *)
(* next() runs to completion, but it calls the sources and the destination *)
(* of the program, which may call the collector back: each of these calls  *)
(* is a step, and the program may take a step of its own in between.  An   *)
(* exception leaves next() at once; the program has a handler for it and   *)
(* lives on.  Measurements are numbered, so that it can be said of each    *)
(* one where it is.                                                        *)
(***************************************************************************)
EXTENDS AggregateMetric, FiniteSets

CONSTANTS
  Sources,          \* objects with a flushStats()
  Names,            \* the prefixes sources are registered with
  MaxSources,       \* bound: calls of addSource()
  Value             \* per measurement its value; their number is a bound

ASSUME StatsAssumption ==
  /\ MaxSources \in Nat
  /\ Value \in Seq(Nat)

VARIABLES
  collect,          \* config.collect
  active,           \* InternalStatsCollector.active
  collectTimer,     \* the timer the collector knows of, 0 for null
  armed,            \* the timers of node that are running
  sources,          \* the registered sources with their prefixes
  enabled,          \* per source: whether stats capture is enabled
  held,             \* per source: the measurements it has not yet flushed
  recorded,         \* how many measurements there have been
  handler,          \* what next() is doing, and for which source
  report,           \* per prefix: what next() got so far
  delivered,        \* the measurements handed to the destination
  threw             \* whether an exception has left next() (history)

timerVars  == <<collect, active, collectTimer, armed>>
sourceVars == <<sources, enabled, held, recorded>>
vars == <<timerVars, sourceVars, handler, report, delivered, threw>>

Timers == 1..2
Measurement == 1..Len(Value)
Idle == [at |-> "idle", index |-> 0, upto |-> 0]
NoReport == [p \in Names |-> {}]

Init ==
  /\ collect \in BOOLEAN
  /\ active = TRUE /\ collectTimer = 0 /\ armed = {}
  /\ sources = <<>>
  /\ enabled = [s \in Sources |-> FALSE]
  /\ held = [s \in Sources |-> {}]
  /\ recorded = 0
  /\ handler = Idle
  /\ report = NoReport
  /\ delivered = {}
  /\ threw = FALSE
------------------------------------------------------------------------------
(***************************************************************************)
(* The timer                                                               *)
(***************************************************************************)
SetTimer ==
  /\ \E t \in Timers \ armed : /\ \A u \in Timers \ armed : t <= u
                               /\ collectTimer' = t
                               /\ armed' = armed \cup {t}
  /\ UNCHANGED <<collect, active>>

\* Mutant: a shutdown is not noticed.
StartAnyhow == IF collectTimer = 0 THEN SetTimer ELSE UNCHANGED timerVars

StartTimer ==
  IF active /\ collectTimer = 0 THEN SetTimer ELSE UNCHANGED timerVars

Start ==
  /\ StartTimer
  /\ UNCHANGED <<sourceVars, handler, report, delivered, threw>>

\* shutdown() clears the timer but keeps its handle.
Shutdown ==
  /\ active
  /\ active' = FALSE
  /\ armed' = armed \ {collectTimer}
  /\ UNCHANGED <<collect, collectTimer, sourceVars, handler, report, delivered, threw>>
------------------------------------------------------------------------------
(***************************************************************************)
(* The sources                                                             *)
(***************************************************************************)
AddSource(s, p) ==
  /\ Len(sources) < MaxSources
  /\ sources' = Append(sources, [source |-> s, prefix |-> p])
  /\ UNCHANGED <<timerVars, enabled, held, recorded, handler, report, delivered, threw>>

\* enableStatsCapture() of the HEC client.  Nobody calls it by itself.
Enable(s) ==
  /\ ~enabled[s]
  /\ enabled' = [enabled EXCEPT ![s] = TRUE]
  /\ UNCHANGED <<timerVars, sources, held, recorded, handler, report, delivered, threw>>

\* AggregateMetric.push(): nothing is kept unless it was enabled.
Record(s) ==
  /\ enabled[s]
  /\ recorded < Len(Value)
  /\ recorded' = recorded + 1
  /\ held' = [held EXCEPT ![s] = @ \cup {recorded + 1}]
  /\ UNCHANGED <<timerVars, sources, enabled, handler, report, delivered, threw>>
------------------------------------------------------------------------------
(***************************************************************************)
(* next()                                                                  *)
(***************************************************************************)
\* Mutant: the handle of the timer that fires is kept.
TimerFiresKept(t) ==
  /\ handler = Idle
  /\ t \in armed
  /\ armed' = armed \ {t}
  /\ handler' = [at |-> "collecting", index |-> 1, upto |-> Len(sources)]
  /\ UNCHANGED <<collect, active, collectTimer, sourceVars, report, delivered, threw>>

\* flatMap() visits the sources there are when it begins.
TimerFires(t) ==
  /\ handler = Idle
  /\ t \in armed
  /\ armed' = armed \ {t}
  /\ collectTimer' = 0
  /\ handler' = [at |-> "collecting", index |-> 1, upto |-> Len(sources)]
  /\ UNCHANGED <<collect, active, sourceVars, report, delivered, threw>>

\* An exception: what was flushed so far is gone, and start() is not reached.
Throw ==
  /\ handler' = Idle
  /\ report' = NoReport
  /\ threw' = TRUE
  /\ UNCHANGED <<timerVars, delivered>>

Current == sources[handler.index]

\* Mutant: a flush leaves the measurements where they are.
FlushSourceKept ==
  /\ handler.at = "collecting" /\ handler.index <= handler.upto
  /\ enabled[Current.source]
  /\ report' = [report EXCEPT ![Current.prefix] = held[Current.source]]
  /\ handler' = [handler EXCEPT !.index = @ + 1]
  /\ UNCHANGED <<timerVars, sourceVars, delivered, threw>>

\* flushStats() of the next source: an aggregate that is not enabled throws.
\* A name that occurs twice keeps the value it got last.
FlushSource ==
  /\ handler.at = "collecting"
  /\ handler.index <= handler.upto
  /\ \/ /\ enabled[Current.source]
        /\ report' = [report EXCEPT ![Current.prefix] = held[Current.source]]
        /\ held' = [held EXCEPT ![Current.source] = {}]
        /\ handler' = [handler EXCEPT !.index = @ + 1]
        /\ UNCHANGED <<timerVars, delivered, threw>>
     \/ /\ ~enabled[Current.source]
        /\ Throw
        /\ UNCHANGED held
  /\ UNCHANGED <<sources, enabled, recorded>>

\* Every source was flushed.  Without config.collect the result is dropped.
CollectEnds ==
  /\ handler.at = "collecting"
  /\ handler.index > handler.upto
  /\ \/ /\ collect
        /\ handler' = [handler EXCEPT !.at = "delivering"]
        /\ UNCHANGED <<timerVars, report>>
     \/ /\ ~collect
        /\ handler' = Idle
        /\ report' = NoReport
        /\ StartTimer
  /\ UNCHANGED <<sourceVars, delivered, threw>>

\* config.dest() returns, or throws, as pushing to a closed client does.
Deliver ==
  /\ handler.at = "delivering"
  /\ \/ /\ delivered' = delivered \cup UNION {report[p] : p \in Names}
        /\ handler' = Idle
        /\ report' = NoReport
        /\ StartTimer
        /\ UNCHANGED threw
     \/ Throw
  /\ UNCHANGED sourceVars
------------------------------------------------------------------------------
Program ==
  \/ Start \/ Shutdown
  \/ \E s \in Sources : Enable(s) \/ Record(s) \/ \E p \in Names : AddSource(s, p)

HandlerStep == (\E t \in Timers : TimerFires(t)) \/ FlushSource \/ CollectEnds \/ Deliver

Next == Program \/ HandlerStep

Spec == Init /\ [][Next]_vars

\* A timer that runs fires, and a handler runs to its end.
FairSpec == Spec /\ WF_vars(HandlerStep)
------------------------------------------------------------------------------
(***************************************************************************)
(* Properties                                                              *)
(***************************************************************************)
TypeOK ==
  /\ collect \in BOOLEAN /\ active \in BOOLEAN
  /\ collectTimer \in Timers \cup {0}
  /\ armed \subseteq Timers
  /\ sources \in Seq([source : Sources, prefix : Names])
  /\ enabled \in [Sources -> BOOLEAN]
  /\ held \in [Sources -> SUBSET Measurement]
  /\ recorded \in 0..Len(Value)
  /\ handler \in [at : {"idle", "collecting", "delivering"}, index : Nat, upto : Nat]
  /\ handler.upto <= Len(sources)
  /\ handler.at = "collecting" => handler.index >= 1
  /\ report \in [Names -> SUBSET Measurement]
  /\ delivered \subseteq Measurement
  /\ threw \in BOOLEAN

\* The collector knows the one timer that runs, and none runs after a
\* shutdown, whoever calls start() or shutdown() from within next()
\* (stats.ts:70-82).
OneTimer == armed = IF active /\ collectTimer # 0 THEN {collectTimer} ELSE {}

\* Two sources, or one source twice, under one prefix: the names collide.
PrefixesDiffer ==
  \A i, j \in 1..Len(sources) : i # j => sources[i].prefix # sources[j].prefix

\* A measurement is held by one source, or is in one entry of the report, or
\* was delivered, and never in two of these places; and unless an exception
\* has left next() or prefixes collide it is in one of them (stats.ts:52-68).
MeasuredOnce ==
  /\ \A s, r \in Sources : s # r => held[s] \cap held[r] = {}
  /\ \A p, q \in Names : p # q => report[p] \cap report[q] = {}
  /\ \A s \in Sources, p \in Names : held[s] \cap report[p] = {}
  /\ \A s \in Sources : held[s] \cap delivered = {}
  /\ \A p \in Names : report[p] \cap delivered = {}
  /\ (collect /\ ~threw /\ PrefixesDiffer) =>
       \A m \in 1..recorded : \/ m \in delivered
                              \/ \E s \in Sources : m \in held[s]
                              \/ \E p \in Names : m \in report[p]

\* The values of the measurements in S, sorted.
Values(S) == [i \in 1..Cardinality(S) |->
  CHOOSE v \in {Value[m] : m \in S} :
    /\ Cardinality({m \in S : Value[m] < v}) < i
    /\ i <= Cardinality({m \in S : Value[m] <= v})]

\* What an aggregate reports is in order: minimum, percentiles, maximum
\* (aggregate.ts:4-9, 63-76).
PercentilesInOrder ==
  \A s \in Sources : held[s] # {} =>
    LET m == Values(held[s]) IN
    /\ 100 * m[1] <= Percentile(80, m)
    /\ Percentile(80, m) <= Percentile(90, m)
    /\ Percentile(90, m) <= Percentile(95, m)
    /\ Percentile(95, m) <= Percentile(99, m)
    /\ Percentile(99, m) <= 100 * m[Len(m)]

\* While the collector is active and was started, what a registered source
\* holds is delivered, unless an exception or a collision of names gets in
\* the way (stats.ts:56-68).
EverythingIsReported ==
  \A m \in Measurement, s \in Sources :
    (/\ m \in held[s] /\ collectTimer # 0
     /\ \E i \in 1..Len(sources) : sources[i].source = s)
      ~> (m \in delivered \/ ~active \/ threw \/ ~PrefixesDiffer \/ ~collect)
=============================================================================
