---------------------------- MODULE MultiMetrics ----------------------------
(***************************************************************************)
(* What becomes of a scraped text: convertToHecMultiMetrics() of packages/ *)
(* prometheus-scraper/src/convert turns the metrics parseText() has found  *)
(* into HEC metrics and collapseIntoMultiMetrics() merges those that have  *)
(* the same dimensions into multi-metrics objects.                         *)
(*                                                                         *)
(* Time stamp and metadata are the same for all metrics of a scrape, and   *)
(* are left out of the identifiers; `text` is the whole input, so the HEC  *)
(* metrics are computed from `result` once the parser is done.             *)
(***************************************************************************)
EXTENDS PrometheusParser, FiniteSets

CONSTANTS
  maxMetrics,    \* CollapseOptions.maxMetrics
  LabelOrder,    \* the label names in the order of keys.sort()
  Percent        \* parseFloat(value) * 100 of label values, without fractions

ASSUME MaxMetricsAssumption == maxMetrics \in Nat \ {0}

VARIABLES
  collapsed,     \* how many HEC metrics have been merged
  mmm,           \* the open objects, by identifier
  complete       \* the objects that were closed by the limit

vars == <<parserVars, collapsed, mmm, complete>>

Init ==
  /\ ParserInit
  /\ collapsed = 0
  /\ mmm = <<>>
  /\ complete = <<>>
------------------------------------------------------------------------------
(***************************************************************************)
(* convertMetricToHec()                                                    *)
(***************************************************************************)
HecMetric(name, fields, value) ==
  [name |-> name, fields |-> fields, value |-> value]

CountAndSum(m) ==
  << HecMetric(Append(m.name, "count"), m.labels, m.count),
     HecMetric(Append(m.name, "sum"), m.labels, m.sum) >>

\* Mutant: the buckets keep the labels of the histogram only.
HistogramWithoutLe(m) ==
  CountAndSum(m) \o
  [i \in 1..Len(m.buckets) |-> HecMetric(m.name, m.labels, m.buckets[i][2])]

histogramToHecMetrics(m) ==
  CountAndSum(m) \o
  [i \in 1..Len(m.buckets) |->
     HecMetric(m.name, Put(m.labels, "le", m.buckets[i][1]), m.buckets[i][2])]

\* `p` and the last two digits, which for 100 percent are those of 0 percent.
quantileToMetricSuffix(quantile) ==
  LET n == Percent[quantile] % 100
  IN "p" \o ToString(n \div 10) \o ToString(n % 10)

\* The quantile becomes part of the name.
summaryToHecMetrics(m) ==
  [i \in 1..Len(m.buckets) |->
     HecMetric(Append(m.name, quantileToMetricSuffix(m.buckets[i][1])),
               m.labels, m.buckets[i][2])]
  \o CountAndSum(m)

convertMetricToHec(m) ==
  CASE m.type \in Scalar     -> <<HecMetric(m.name, m.labels, m.value)>>
    [] m.type = "summary"    -> summaryToHecMetrics(m)
    [] m.type = "histogram"  -> histogramToHecMetrics(m)

\* Mutant: only the missing sums and counts are left out.
IsGiven(m) == m.value # NaN

\* The value is neither that of a missing sum or count nor a sample's NaN.
isValid(m) == m.value # NaN /\ ~text[m.value].nan

\* Each metric that was found, converted, without what is invalid.
hecMetrics ==
  LET converted == FlattenSeq([i \in 1..Len(result) |-> convertMetricToHec(result[i])])
  IN FlattenSeq([i \in 1..Len(converted) |->
                   IF isValid(converted[i]) THEN <<converted[i]>> ELSE <<>>])
------------------------------------------------------------------------------
(***************************************************************************)
(* collapseIntoMultiMetrics()                                              *)
(***************************************************************************)
\* `key=value` for each field, joined by `;`.  Label values are sequences of
\* tokens and may contain both signs.
encodeMultiMetricId(fields) ==
  FoldLeft(LAMBDA id, key :
             IF key \notin DOMAIN fields THEN id
             ELSE (IF id = <<>> THEN <<>> ELSE Append(id, ";"))
                    \o <<key, "=">> \o fields[key],
           <<>>, LabelOrder)

\* An object with the measurement of metric m.
MultiMetricOf(m) ==
  [fields |-> m.fields, measurements |-> [name \in {m.name} |-> m.value]]

\* Mutant: a full object is closed and stays open.
CollapseTwice(m, id) ==
  LET merged == [mmm[id] EXCEPT !.measurements = Put(@, m.name, m.value)] IN
  /\ mmm' = [mmm EXCEPT ![id] = merged]
  /\ complete' = IF Cardinality(DOMAIN merged.measurements) > maxMetrics
                 THEN Append(complete, merged) ELSE complete

\* One more measurement for the open object id, which is closed when it has
\* more than maxMetrics of them.
CollapseInto(m, id) ==
  LET merged == [mmm[id] EXCEPT !.measurements = Put(@, m.name, m.value)]
      full   == Cardinality(DOMAIN merged.measurements) > maxMetrics
  IN
  /\ complete' = IF full THEN Append(complete, merged) ELSE complete
  /\ mmm' = IF full THEN Restrict(mmm, DOMAIN mmm \ {id})
                    ELSE [mmm EXCEPT ![id] = merged]

\* Mutant: the metric that finds its name taken opens a new object.
CollapseReplacing ==
  /\ outcome = "parsed"
  /\ collapsed < Len(hecMetrics)
  /\ collapsed' = collapsed + 1
  /\ LET m  == hecMetrics[collapsed + 1]
         id == encodeMultiMetricId(m.fields)
     IN IF id \in DOMAIN mmm /\ m.name \notin DOMAIN mmm[id].measurements
        THEN CollapseInto(m, id)
        ELSE /\ mmm' = Put(mmm, id, MultiMetricOf(m))
             /\ UNCHANGED complete
  /\ UNCHANGED parserVars

\* The next metric opens an object, is left out because the object has a
\* measurement of its name, or joins the object.
Collapse ==
  /\ outcome = "parsed"
  /\ collapsed < Len(hecMetrics)
  /\ collapsed' = collapsed + 1
  /\ LET m  == hecMetrics[collapsed + 1]
         id == encodeMultiMetricId(m.fields)
     IN
     \/ /\ id \notin DOMAIN mmm
        /\ mmm' = Put(mmm, id, MultiMetricOf(m))
        /\ UNCHANGED complete
     \/ /\ id \in DOMAIN mmm
        /\ m.name \in DOMAIN mmm[id].measurements
        /\ UNCHANGED <<mmm, complete>>
     \/ /\ id \in DOMAIN mmm
        /\ m.name \notin DOMAIN mmm[id].measurements
        /\ CollapseInto(m, id)
  /\ UNCHANGED parserVars

Parse ==
  /\ (\E line \in Lines : ProcessLine(line)) \/ Done
  /\ UNCHANGED <<collapsed, mmm, complete>>

Next == Parse \/ Collapse

Spec == Init /\ [][Next]_vars
------------------------------------------------------------------------------
MultiMetric == ToSet(complete) \cup Range(mmm)

\* What the objects so far say, as HEC metrics.
Measured ==
  UNION {{HecMetric(name, o.fields, o.measurements[name]) :
            name \in DOMAIN o.measurements} : o \in MultiMetric}

\* An object exceeds maxMetrics, "Maximum number of metric values" in
\* collapse.ts:8, by one measurement at most, and only the ones that were
\* closed do.
SizeWithinLimit ==
  /\ \A i \in 1..Len(complete) :
       Cardinality(DOMAIN complete[i].measurements) = maxMetrics + 1
  /\ \A id \in DOMAIN mmm :
       Cardinality(DOMAIN mmm[id].measurements) \in 1..maxMetrics

\* The types of the state.  What the metrics hold are lines of the text, and no
\* metric is left behind in the parser when it is done.
TypeOK ==
  /\ options \in OptionSets
  /\ text \in Seq(Lines)
  /\ \A name \in DOMAIN typeMap : typeMap[name] \in Scalar \cup Multi
  /\ \A i \in 1..Len(Found) :
       /\ Found[i].type \in Scalar \cup Multi
       /\ LinesOf(Found[i]) \subseteq 1..Len(text)
  /\ outcome \in {"parsing", "parsed", "failed"}
  /\ outcome = "parsed" => currentMultiSample = Null
  /\ collapsed \in 0..Len(hecMetrics)
  /\ SizeWithinLimit

\* collapse.ts: objects are combined "based on their dimensions".
DimensionsKept ==
  \A i \in 1..collapsed : \A m \in Measured :
    m.value = hecMetrics[i].value => m.fields = hecMetrics[i].fields
=============================================================================
