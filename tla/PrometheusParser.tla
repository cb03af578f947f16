-------------------------- MODULE PrometheusParser --------------------------
(***************************************************************************)
(* parseText() of packages/prometheus-scraper/src/parser/index.ts: the     *)
(* lines of a scraped text are handled one by one; the sample lines of a   *)
(* histogram or summary are gathered in currentMultiSample until a sample  *)
(* of something else comes.                                                *)
(*                                                                         *)
(* A line is what parseLine() makes of it, a record with a kind; comments  *)
(* and empty lines, which do nothing, are left out.  A metric name is a    *)
(* sequence of the parts between its underscores, the labels of a sample   *)
(* are a function from label names to values (a label name occurs once),   *)
(* and the value of a sample is the number of its line; nan says that NaN  *)
(* is what stands there.                                                   *)
(***************************************************************************)
EXTENDS Integers, Sequences, SequencesExt, Functions, TLC

CONSTANTS
  Lines,       \* the lines the text is made of
  MaxLines,    \* bound: the length of the text
  OptionSets,  \* the ParserOptions that are tried
  Null         \* JavaScript's null

VARIABLES
  options,             \* the ParserOptions
  text,                \* the lines handled so far
  typeMap,             \* declared types, by metric name
  helpMap,             \* the metric names with a help text
  currentMultiSample,  \* the histogram or summary being gathered, or Null
  result,              \* the emitted metrics
  outcome              \* "parsing", "parsed" or "failed"

parserVars ==
  <<options, text, typeMap, helpMap, currentMultiSample, result, outcome>>

\* What a sum or a count is before its sample.
NaN == 0
Scalar == {"counter", "gauge", "untyped"}
Multi  == {"histogram", "summary"}
Name   == Seq(STRING) \ {<<>>}

\* The label that tells the buckets of a metric apart, and their name suffix.
BucketLabel(type)  == IF type = "histogram" THEN "le" ELSE "quantile"
BucketSuffix(type) == IF type = "histogram" THEN <<"bucket">> ELSE <<>>

\* Map.set()
Put(map, key, value) ==
  [k \in DOMAIN map \cup {key} |-> IF k = key THEN value ELSE map[k]]

Without(labels, label) == Restrict(labels, DOMAIN labels \ {label})

\* A histogram or summary with some of its samples.
Gathered ==
  [name : Name, type : Multi,
   labels : {Without(line.labels, BucketLabel(type)) :
               line \in {l \in Lines : l.kind = "metric"}, type \in Multi},
   buckets : Seq(Seq(STRING) \X Nat), sum : Nat, count : Nat]

ASSUME ParserAssumption ==
  /\ \A line \in Lines :
       /\ line.kind \in {"invalid", "type-info", "help", "metric"}
       /\ line.kind # "invalid" => line.name \in Name
       /\ line.kind = "type-info" => line.type \in Scalar \cup Multi
       /\ line.kind = "metric" =>
            /\ \A label \in DOMAIN line.labels : line.labels[label] \in Seq(STRING)
            /\ line.nan \in BOOLEAN
  /\ Null \notin Gathered \cup Scalar \cup Multi

ParserInit ==
  /\ options \in OptionSets
  /\ text = <<>>
  /\ typeMap = <<>>
  /\ helpMap = {}
  /\ currentMultiSample = Null
  /\ result = <<>>
  /\ outcome = "parsing"

\* The next line of the text.
Read(line) ==
  /\ outcome = "parsing"
  /\ Len(text) < MaxLines
  /\ text' = Append(text, line)
  /\ UNCHANGED options

lineNumber == Len(text) + 1

\* A line that throws: the whole text is refused, or the line is "ignored",
\* with whatever it has changed before.
Throw == outcome' = IF options.failOnInvalidLine THEN "failed" ELSE outcome

InvalidLine(line) ==
  /\ line.kind = "invalid"
  /\ Read(line)
  /\ Throw
  /\ UNCHANGED <<typeMap, helpMap, currentMultiSample, result>>
------------------------------------------------------------------------------
(***************************************************************************)
(* Declarations                                                            *)
(***************************************************************************)
TypeInfo(line) ==
  /\ line.kind = "type-info"
  /\ Read(line)
  /\ IF line.name \in DOMAIN typeMap /\ options.failOnDuplicateTypeInfo
     THEN Throw /\ UNCHANGED typeMap
     ELSE /\ typeMap' = IF options.ignoreExplicitlyUntyped /\ line.type = "untyped"
                        THEN typeMap
                        ELSE Put(typeMap, line.name, line.type)
          /\ UNCHANGED outcome
  /\ UNCHANGED <<helpMap, currentMultiSample, result>>

Help(line) ==
  /\ line.kind = "help"
  /\ Read(line)
  /\ IF line.name \in helpMap /\ options.failOnDuplicateHelp
     THEN Throw
     ELSE UNCHANGED outcome
  /\ helpMap' = helpMap \cup {line.name}
  /\ UNCHANGED <<typeMap, currentMultiSample, result>>
------------------------------------------------------------------------------
(***************************************************************************)
(* Samples                                                                 *)
(***************************************************************************)
Declared(name, types) == name \in DOMAIN typeMap /\ typeMap[name] \in types

\* name without its suffix, if that is a metric of one of the types.
Strip(name, suffix, types) ==
  IF Last(name) = suffix /\ Declared(Front(name), types)
  THEN Front(name) ELSE name

\* The metric a sample of that name belongs to.  The suffixes are tried one
\* after the other, each on what the one before has left.
Owner(name) ==
  IF name \in DOMAIN typeMap THEN name
  ELSE Strip(Strip(Strip(name, "bucket", {"histogram"}),
                   "sum", Multi), "count", Multi)

TypeOf(name) == IF name \in DOMAIN typeMap THEN typeMap[name] ELSE Null

\* flushCurrentMultiSample()
Flushed ==
  IF currentMultiSample = Null THEN result
  ELSE Append(result, currentMultiSample)

\* A sample without a declaration is ignored, or is an untyped scalar.
SampleWithoutType(line) ==
  /\ line.kind = "metric"
  /\ Read(line)
  /\ TypeOf(Owner(line.name)) = Null
  /\ options.ignoreMetricsWithoutType
  /\ UNCHANGED <<typeMap, helpMap, currentMultiSample, result, outcome>>

ScalarSample(line) ==
  /\ line.kind = "metric"
  /\ Read(line)
  /\ LET type == TypeOf(Owner(line.name)) IN
     /\ \/ type \in Scalar
        \/ type = Null /\ ~options.ignoreMetricsWithoutType
     /\ result' = Append(Flushed,
          [name |-> line.name, type |-> IF type = Null THEN "untyped" ELSE type,
           labels |-> line.labels, value |-> lineNumber])
  /\ currentMultiSample' = Null
  /\ UNCHANGED <<typeMap, helpMap, outcome>>

\* Mutant: the bucket label separates metrics.
ContinuesUnfiltered(name, type, labels) ==
  /\ currentMultiSample # Null
  /\ currentMultiSample.name = name
  /\ currentMultiSample.labels = labels

\* The name is that of the current metric and labelMatch() holds.
Continues(name, type, labels) ==
  /\ currentMultiSample # Null
  /\ currentMultiSample.name = name
  /\ currentMultiSample.labels = Without(labels, BucketLabel(type))

NewMultiSample(name, type, labels) ==
  [name |-> name, type |-> type, labels |-> Without(labels, BucketLabel(type)),
   buckets |-> <<>>, sum |-> NaN, count |-> NaN]

\* processBucketedMetric().  A bucket without its threshold label is dropped;
\* any other suffix throws, after the current metric has been replaced.
MultiSample(line) ==
  /\ line.kind = "metric"
  /\ Read(line)
  /\ LET name   == Owner(line.name)
         type   == TypeOf(name)
         label  == BucketLabel(type)
         suffix == SubSeq(line.name, Len(name) + 1, Len(line.name))
         old    == Continues(name, type, line.labels)
         cur    == IF old THEN currentMultiSample
                          ELSE NewMultiSample(name, type, line.labels)
         add(c) == currentMultiSample' = c /\ UNCHANGED outcome
     IN
     /\ type \in Multi
     /\ result' = IF old THEN result ELSE Flushed
     /\ \/ /\ suffix = BucketSuffix(type)
           /\ label \in DOMAIN line.labels
           /\ add([cur EXCEPT !.buckets =
                     Append(@, <<line.labels[label], lineNumber>>)])
        \/ suffix = BucketSuffix(type) /\ label \notin DOMAIN line.labels /\ add(cur)
        \/ suffix = <<"count">> /\ add([cur EXCEPT !.count = lineNumber])
        \/ suffix = <<"sum">> /\ add([cur EXCEPT !.sum = lineNumber])
        \/ /\ suffix \notin {BucketSuffix(type), <<"count">>, <<"sum">>}
           /\ currentMultiSample' = cur
           /\ Throw
  /\ UNCHANGED <<typeMap, helpMap>>

\* Mutant: the metric being gathered at the end of the text is forgotten.
DoneUnflushed ==
  /\ outcome = "parsing"
  /\ outcome' = "parsed"
  /\ currentMultiSample' = Null
  /\ UNCHANGED <<options, text, typeMap, helpMap, result>>

\* The text has no more lines.
Done ==
  /\ outcome = "parsing"
  /\ outcome' = "parsed"
  /\ result' = Flushed
  /\ currentMultiSample' = Null
  /\ UNCHANGED <<options, text, typeMap, helpMap>>

ProcessLine(line) ==
  \/ InvalidLine(line) \/ TypeInfo(line) \/ Help(line)
  \/ SampleWithoutType(line) \/ ScalarSample(line) \/ MultiSample(line)
------------------------------------------------------------------------------
\* The metrics found so far, the one being gathered included.
Found == Flushed

\* The lines whose values metric m holds.
LinesOf(m) ==
  IF m.type \in Scalar THEN {m.value}
  ELSE {m.buckets[i][2] : i \in 1..Len(m.buckets)} \cup ({m.sum, m.count} \ {NaN})

\* Samples of neighbouring lines that can be in one metric are in one.
GroupsStayTogether ==
  \A i, j \in 1..Len(Found) : \A n \in 1..(Len(text) - 1) :
    LET l == Found[i]  m == Found[j] IN
    /\ l.type \in Multi /\ l.type = m.type /\ l.name = m.name /\ l.labels = m.labels
    /\ n \in LinesOf(l) /\ n + 1 \in LinesOf(m)
    => i = j

\* The metrics that hold line n.
Holders(n) == {i \in 1..Len(Found) : n \in LinesOf(Found[i])}

\* A sum or count with the name and labels of line n came after it.
Superseded(n) ==
  \E i \in 1..Len(Found), type \in Multi :
    /\ Found[i].type \in Multi
    /\ \E k \in {Found[i].sum, Found[i].count} : k > n /\ text[k].name = text[n].name
    /\ Found[i].labels = Without(text[n].labels, BucketLabel(type))

\* Line n is a bucket of a metric declared before and lacks its threshold.
WithoutThreshold(n) ==
  \E k \in 1..(n - 1) :
    /\ text[k].kind = "type-info" /\ text[k].type \in Multi
    /\ text[n].name = text[k].name \o BucketSuffix(text[k].type)
    /\ BucketLabel(text[k].type) \notin DOMAIN text[n].labels

\* No sample is in two metrics, and unless lines may be ignored none is lost.
SamplesCountedOnce ==
  outcome # "failed" =>
    \A n \in {k \in 1..Len(text) : text[k].kind = "metric"} :
      /\ \A i, j \in Holders(n) : i = j
      /\ options.failOnInvalidLine /\ ~options.ignoreMetricsWithoutType =>
           Holders(n) # {} \/ Superseded(n) \/ WithoutThreshold(n)
=============================================================================
