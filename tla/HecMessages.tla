----------------------------- MODULE HecMessages -----------------------------
(***************************************************************************)
(* The last steps of a scraped text: pushMetrics() of packages/hec-client/ *)
(* src/client.ts serializes each multi-metrics object (serialize.ts) as    *)
(* one message, or as one for each measurement where the multiple-metric   *)
(* format is disabled.  Time and metadata are the same for all of them.    *)
(*                                                                         *)
(* A message is what its JSON says: measurements by name, and dimensions.  *)
(***************************************************************************)
EXTENDS MultiMetrics

CONSTANTS
  defaultFields      \* HecConfig.defaultFields

VARIABLES
  multipleMetricFormatEnabled,  \* that of the client pushed to, Null before
  sent                          \* the messages pushed, Null before

messageVars == <<multipleMetricFormatEnabled, sent>>

\* The fields that say what is measured, in a message with one measurement.
Reserved == {"metric_name", "_value"}

Message(measurements, fields) == [measurements |-> measurements, fields |-> fields]

\* `{ ...defaults, ...fields }`
Spread(defaults, fields) ==
  [n \in DOMAIN defaults \cup DOMAIN fields |->
     IF n \in DOMAIN fields THEN fields[n] ELSE defaults[n]]

\* Mutant: the defaults win.
WithDefaultsFirst(fields) == Spread(fields, defaultFields)

WithDefaults(fields) == Spread(defaultFields, fields)

\* A field metric_name or _value of the metric's own is overwritten.
Unreserved(fields) == Restrict(fields, DOMAIN fields \ Reserved)
serializeMetric(name, value, fields) ==
  Message([n \in {name} |-> value], Unreserved(WithDefaults(fields)))

\* Here names are prefixed with `metric_name:`, which no label name can have.
serializeMetrics(o) == Message(o.measurements, WithDefaults(o.fields))

pushMetrics(o, multiple) ==
  IF multiple THEN {serializeMetrics(o)}
  ELSE {serializeMetric(name, o.measurements[name], o.fields) :
          name \in DOMAIN o.measurements}

\* scrapePeriodically() pushes what convertToHecMultiMetrics() returns: the
\* closed objects and those that are open at the end, to a client with either
\* value of HecConfig.multipleMetricFormatEnabled.
PushAll ==
  /\ sent = Null
  /\ outcome = "parsed" /\ collapsed = Len(hecMetrics)
  /\ \E multiple \in BOOLEAN :
       /\ multipleMetricFormatEnabled' = multiple
       /\ sent' = UNION {pushMetrics(o, multiple) : o \in MultiMetric}
  /\ UNCHANGED vars

PipelineInit == Init /\ multipleMetricFormatEnabled = Null /\ sent = Null
PipelineNext == (Next /\ UNCHANGED messageVars) \/ PushAll
PipelineSpec == PipelineInit /\ [][PipelineNext]_<<vars, messageVars>>
------------------------------------------------------------------------------
(***************************************************************************)
(* Properties                                                              *)
(***************************************************************************)
\* The fields of a message, from those of a metric without and with defaults.
MessageFields(all) == IF multipleMetricFormatEnabled THEN all ELSE Unreserved(all)

\* The dimensions a sample of the text should have in Splunk: its labels over
\* the defaults, but for the quantile, which is in the name, and for labels a
\* message with one measurement has no room for.
Dimensions(labels) == MessageFields(Without(Spread(defaultFields, labels), "quantile"))

\* The lines whose samples the parser has found, and those of them that have a
\* number: NaN is not sent.
FoundLines == UNION {LinesOf(result[i]) : i \in 1..Len(result)}
Numbers == {n \in FoundLines : ~text[n].nan}

\* Every number the parser has found in a sample arrives with the labels of its
\* sample, unless an earlier one of the same series did.  A type declared anew
\* between two samples may turn quantiles into buckets.
SamplesArrive ==
  options.failOnDuplicateTypeInfo => \A n \in Numbers : \E k \in Numbers :
    /\ k <= n /\ text[k].name = text[n].name /\ text[k].labels = text[n].labels
    /\ \E m \in sent :
         /\ k \in Range(m.measurements)
         /\ Without(m.fields, "quantile") = Dimensions(text[k].labels)

\* Message m carries a metric under its name, with fields of the same identifier.
Carries(m, metric, metrics) ==
  /\ metric.name \in DOMAIN m.measurements
  /\ m.measurements[metric.name] = metric.value
  /\ \E other \in Range(metrics) :
       /\ m.fields = MessageFields(WithDefaults(other.fields))
       /\ encodeMultiMetricId(other.fields) = encodeMultiMetricId(metric.fields)

\* Every HEC metric, or an earlier one of the same name and identifier, is in a
\* message, and nothing else is.
MetricsArrive ==
  LET metrics == hecMetrics IN
  /\ \A i \in 1..Len(metrics) : \E k \in 1..i :
       /\ metrics[k].name = metrics[i].name
       /\ encodeMultiMetricId(metrics[k].fields) = encodeMultiMetricId(metrics[i].fields)
       /\ \E m \in sent : Carries(m, metrics[k], metrics)
  /\ \A m \in sent : \A name \in DOMAIN m.measurements : \E metric \in Range(metrics) :
       metric.name = name /\ Carries(m, metric, metrics)

\* A message has no values but numbers of samples, never NaN, and no more than
\* maxMetrics measurements and one, or just one.
OnlySamplesArrive ==
  \A m \in sent :
    /\ Range(m.measurements) \subseteq Numbers
    /\ Cardinality(DOMAIN m.measurements) <=
         IF multipleMetricFormatEnabled THEN maxMetrics + 1 ELSE 1

\* The text is not ambiguous: no sum or count has the label of a bucket, which
\* would be dropped; different fields have different identifiers; and samples
\* that come to one name and identifier are of one series, which the gauge
\* x_p50 beside the median of a summary x is not.
SeriesStayApart ==
  LET metrics == hecMetrics IN
  /\ \A n \in FoundLines :
       Last(text[n].name) \in {"sum", "count"} => "le" \notin DOMAIN text[n].labels
  /\ \A i, j \in 1..Len(metrics) :
       encodeMultiMetricId(metrics[i].fields) = encodeMultiMetricId(metrics[j].fields) =>
         /\ metrics[i].fields = metrics[j].fields
         /\ metrics[i].name = metrics[j].name =>
              /\ text[metrics[i].value].name = text[metrics[j].value].name
              /\ text[metrics[i].value].labels = text[metrics[j].value].labels

\* From the lines of the text to the messages, what is converted arrives under
\* its name and nothing is made up; and unless the text is ambiguous no number
\* of a sample is lost or comes to other labels (convert/index.ts:39-53,
\* collapse.ts:46-77, client.ts:105-121, serialize.ts:29-65).
SamplesReachHec ==
  sent # Null =>
    /\ MetricsArrive
    /\ OnlySamplesArrive
    /\ SeriesStayApart => SamplesArrive
==============================================================================
