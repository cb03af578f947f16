--------------------------- MODULE PipelineProofs ---------------------------
(***************************************************************************)
(* Proofs about the way of a scraped text into messages, for texts of any  *)
(* length and any lines.                                                   *)
(***************************************************************************)
EXTENDS HecMessages, FiniteSetTheorems, SequenceTheorems, WellFoundedInduction, TLAPS

\* What is declared was declared by a line of the text.
DeclaredByLines ==
  \A name \in DOMAIN typeMap :
    /\ name \in Name /\ typeMap[name] \in Scalar \cup Multi
    /\ \E k \in 1..Len(text) :
         text[k].kind = "type-info" /\ text[k].name = name /\ text[k].type = typeMap[name]

\* A metric with one value.
Single == [name : Name, type : Scalar,
           labels : {line.labels : line \in {l \in Lines : l.kind = "metric"}}, value : Nat]

Metric == Single \cup Gathered

ParserTypes ==
  /\ text \in Seq(Lines)
  /\ result \in Seq(Metric)
  /\ currentMultiSample \in Gathered \cup {Null}

\* Metrics hold lines of the text, and no line is in two.
LinesHeldOnce ==
  /\ \A i \in 1..Len(Found) : LinesOf(Found[i]) \subseteq 1..Len(text)
  /\ \A i, j \in 1..Len(Found) : LinesOf(Found[i]) \cap LinesOf(Found[j]) # {} => i = j

\* While the text is read, a histogram or summary that holds the last line is still gathered.
LastLineIsGathered ==
  outcome = "parsing" =>
    \A i \in 1..Len(Found) :
      Found[i].type \in Multi /\ Len(text) \in LinesOf(Found[i]) =>
        i = Len(Found) /\ currentMultiSample # Null

\* Line n gave its value to the part of metric m that suffix stands for.
BelongsTo(n, m, suffix) ==
  /\ text[n].name = m.name \o <<suffix>>
  /\ \E type \in Multi : m.labels = Without(text[n].labels, BucketLabel(type))

\* The sum and the count that are gathered are those of the metric.
SumAndCountBelong ==
  currentMultiSample # Null =>
    LET cur == currentMultiSample IN
    /\ cur.sum # NaN => BelongsTo(cur.sum, cur, "sum")
    /\ cur.count # NaN => BelongsTo(cur.count, cur, "count")

\* No sample is lost.
Accounted(n) == Holders(n) # {} \/ Superseded(n) \/ WithoutThreshold(n)
NoneIsLost ==
  outcome # "failed" /\ options.failOnInvalidLine /\ ~options.ignoreMetricsWithoutType =>
    \A n \in 1..Len(text) : text[n].kind = "metric" => Accounted(n)

ParserInv ==
  /\ ParserTypes /\ DeclaredByLines /\ LinesHeldOnce /\ LastLineIsGathered
  /\ SumAndCountBelong /\ NoneIsLost /\ GroupsStayTogether
------------------------------------------------------------------------------
(***************************************************************************)
(* Names                                                                   *)
(***************************************************************************)
\* Name o is the beginning of name.
Begins(o, name) ==
  o \in Name /\ Len(o) <= Len(name) /\ \A i \in 1..Len(o) : o[i] = name[i]

LEMMA StripBegins ==
  ASSUME DeclaredByLines, NEW name \in Name, NEW o, Begins(o, name), NEW suffix, NEW types
  PROVE  Begins(Strip(o, suffix, types), name)
<1>1. CASE Strip(o, suffix, types) = o
  BY <1>1
<1>2. CASE Strip(o, suffix, types) = Front(o) /\ Declared(Front(o), types)
  <2>1. Front(o) \in Name
    BY <1>2 DEF Declared, DeclaredByLines
  <2>2. o \in Seq(STRING) /\ o # <<>> /\ Len(o) \in Nat /\ Len(o) >= 1
    BY DEF Begins, Name
  <2>3. Front(o) = SubSeq(o, 1, Len(o) - 1)
    BY DEF Front
  <2>4. \A i \in 1..(Len(o) - 1) : o[i] \in STRING
    BY <2>2
  <2>5. /\ Len(Front(o)) = Len(o) - 1
        /\ \A i \in 1..(Len(o) - 1) : Front(o)[i] = o[i]
    <3> DEFINE n == Len(o) - 1
    <3>1. n \in Nat /\ \A i \in 1..n : o[i] \in STRING
      BY <2>2
    <3> HIDE DEF n
    <3>2. Len(SubSeq(o, 1, n)) = n /\ \A i \in 1..n : SubSeq(o, 1, n)[i] = o[i]
      BY <3>1, SubSeqProperties
    <3> QED BY <2>3, <3>2 DEF n
  <2> QED BY <1>2, <2>1, <2>2, <2>5 DEF Begins, Name
<1> QED BY <1>1, <1>2 DEF Strip

\* The metric a sample belongs to has the beginning of the sample's name.
LEMMA OwnerBegins ==
  ASSUME DeclaredByLines, NEW name \in Name
  PROVE  Begins(Owner(name), name)
<1>1. Begins(name, name)
  BY DEF Begins, Name
<1>2. Begins(Strip(name, "bucket", {"histogram"}), name)
  BY <1>1, StripBegins
<1>3. Begins(Strip(Strip(name, "bucket", {"histogram"}), "sum", Multi), name)
  BY <1>2, StripBegins
<1>4. Begins(Strip(Strip(Strip(name, "bucket", {"histogram"}), "sum", Multi), "count", Multi), name)
  BY <1>3, StripBegins
<1> QED BY <1>1, <1>4 DEF Owner

LEMMA BeginningAndRest ==
  ASSUME NEW name \in Name, NEW o, Begins(o, name)
  PROVE  name = o \o SubSeq(name, Len(o) + 1, Len(name))
<1> DEFINE r == SubSeq(name, Len(o) + 1, Len(name))
<1>1. name \in Seq(STRING) /\ o \in Seq(STRING) /\ Len(o) <= Len(name)
      /\ Len(o) \in Nat /\ Len(name) \in Nat
  BY DEF Name, Begins
<1>2. \A i \in (Len(o) + 1)..Len(name) : name[i] \in STRING
  BY <1>1
<1>3. /\ r \in Seq(STRING) /\ Len(r) = Len(name) - Len(o)
      /\ \A i \in 1..(Len(name) - Len(o)) : r[i] = name[Len(o) + i]
  <2>1. /\ r \in Seq(STRING)
        /\ Len(r) = IF Len(o) + 1 <= Len(name) THEN Len(name) - (Len(o) + 1) + 1 ELSE 0
        /\ \A i \in 1..(Len(name) - (Len(o) + 1) + 1) : r[i] = name[(Len(o) + 1) + i - 1]
    BY <1>1, <1>2, SubSeqProperties
  <2> HIDE DEF r
  <2> QED BY <1>1, <2>1
<1> HIDE DEF r
<1>4. /\ o \o r \in Seq(STRING) /\ Len(o \o r) = Len(name)
      /\ \A i \in 1..Len(name) : (o \o r)[i] = IF i <= Len(o) THEN o[i] ELSE r[i - Len(o)]
  BY <1>1, <1>3, ConcatProperties
<1>5. \A i \in 1..Len(name) : (o \o r)[i] = name[i]
  BY <1>1, <1>3, <1>4 DEF Begins
<1>6. o \o r = name
  BY <1>1, <1>4, <1>5, SeqEqual
<1> QED BY <1>6 DEF r
------------------------------------------------------------------------------
(***************************************************************************)
(* Metrics                                                                 *)
(***************************************************************************)
Part == Seq(STRING) \X Nat

LEMMA GatheredFields ==
  ASSUME NEW m \in Gathered
  PROVE  /\ m.name \in Name /\ m.type \in Multi /\ m.type \notin Scalar
         /\ m.buckets \in Seq(Part) /\ m.sum \in Nat /\ m.count \in Nat
  BY DEF Gathered, Multi, Scalar, Part

LEMMA SingleFields ==
  ASSUME NEW m \in Single
  PROVE  m.name \in Name /\ m.type \in Scalar /\ m.type \notin Multi /\ m.value \in Nat
  BY DEF Single, Multi, Scalar

\* A histogram or summary with one part replaced.
LEMMA BucketsUpdate ==
  ASSUME NEW m \in Gathered, NEW b \in Seq(Part), NEW c, c = [m EXCEPT !.buckets = b]
  PROVE  /\ c \in Gathered /\ c.name = m.name /\ c.type = m.type /\ c.labels = m.labels
         /\ c.buckets = b /\ c.sum = m.sum /\ c.count = m.count
<1> DEFINE L == {Without(ln.labels, BucketLabel(t)) :
                   ln \in {k \in Lines : k.kind = "metric"}, t \in Multi}
<1>1. Gathered = [name : Name, type : Multi, labels : L,
                  buckets : Seq(Part), sum : Nat, count : Nat]
  BY DEF Gathered, Part
<1> HIDE DEF L
<1> QED BY <1>1

LEMMA SumUpdate ==
  ASSUME NEW m \in Gathered, NEW n \in Nat, NEW c, c = [m EXCEPT !.sum = n]
  PROVE  /\ c \in Gathered /\ c.name = m.name /\ c.type = m.type /\ c.labels = m.labels
         /\ c.buckets = m.buckets /\ c.sum = n /\ c.count = m.count
<1> DEFINE L == {Without(ln.labels, BucketLabel(t)) :
                   ln \in {k \in Lines : k.kind = "metric"}, t \in Multi}
<1>1. Gathered = [name : Name, type : Multi, labels : L,
                  buckets : Seq(Part), sum : Nat, count : Nat]
  BY DEF Gathered, Part
<1> HIDE DEF L
<1> QED BY <1>1

LEMMA CountUpdate ==
  ASSUME NEW m \in Gathered, NEW n \in Nat, NEW c, c = [m EXCEPT !.count = n]
  PROVE  /\ c \in Gathered /\ c.name = m.name /\ c.type = m.type /\ c.labels = m.labels
         /\ c.buckets = m.buckets /\ c.sum = m.sum /\ c.count = n
<1> DEFINE L == {Without(ln.labels, BucketLabel(t)) :
                   ln \in {k \in Lines : k.kind = "metric"}, t \in Multi}
<1>1. Gathered = [name : Name, type : Multi, labels : L,
                  buckets : Seq(Part), sum : Nat, count : Nat]
  BY DEF Gathered, Part
<1> HIDE DEF L
<1> QED BY <1>1

LEMMA NewMetric ==
  ASSUME NEW name \in Name, NEW type \in Multi, NEW line \in Lines, line.kind = "metric",
         NEW m, m = NewMultiSample(name, type, line.labels)
  PROVE  /\ m \in Gathered /\ m.name = name /\ m.type = type
         /\ m.labels = Without(line.labels, BucketLabel(type))
         /\ m.buckets = <<>> /\ m.sum = NaN /\ m.count = NaN
<1> DEFINE l == Without(line.labels, BucketLabel(type))
           L == {Without(ln.labels, BucketLabel(t)) :
                   ln \in {k \in Lines : k.kind = "metric"}, t \in Multi}
<1>1. l \in L
  OBVIOUS
<1>2. m = [name |-> name, type |-> type, labels |-> l, buckets |-> <<>>,
           sum |-> NaN, count |-> NaN]
  BY DEF NewMultiSample
<1>3. Gathered = [name : Name, type : Multi, labels : L,
                  buckets : Seq(Part), sum : Nat, count : Nat]
  BY DEF Gathered, Part
<1>4. <<>> \in Seq(Part) /\ NaN \in Nat
  BY DEF NaN
<1> HIDE DEF l, L
<1>5. m \in Gathered
  BY <1>1, <1>2, <1>3, <1>4
<1> QED BY <1>2, <1>5 DEF l

\* The lines whose samples a metric holds.
LEMMA GatheredLines ==
  ASSUME NEW m \in Gathered
  PROVE  LinesOf(m) = {m.buckets[i][2] : i \in 1..Len(m.buckets)} \cup ({m.sum, m.count} \ {NaN})
  BY GatheredFields DEF LinesOf

\* What metric c holds that differs from metric m in line k, as a bucket, a sum or a count.
GathersBucket(m, c, k) ==
  /\ \E t \in Seq(STRING) : c.buckets = Append(m.buckets, <<t, k>>)
  /\ c.sum = m.sum /\ c.count = m.count
GathersSum(m, c, k)   == c.buckets = m.buckets /\ c.sum = k /\ c.count = m.count
GathersCount(m, c, k) == c.buckets = m.buckets /\ c.sum = m.sum /\ c.count = k

LEMMA LinesGathered ==
  ASSUME NEW m \in Gathered, NEW c \in Gathered, NEW k \in Nat, k # NaN,
         GathersBucket(m, c, k) \/ GathersSum(m, c, k) \/ GathersCount(m, c, k)
  PROVE  /\ k \in LinesOf(c)
         /\ LinesOf(c) \subseteq LinesOf(m) \cup {k}
         /\ \A n \in LinesOf(m) : \/ n \in LinesOf(c)
                                  \/ n = m.sum /\ GathersSum(m, c, k)
                                  \/ n = m.count /\ GathersCount(m, c, k)
<1> DEFINE B(x) == {x.buckets[i][2] : i \in 1..Len(x.buckets)}
<1>1. LinesOf(m) = B(m) \cup ({m.sum, m.count} \ {NaN})
      /\ LinesOf(c) = B(c) \cup ({c.sum, c.count} \ {NaN})
  BY GatheredLines
<1>2. CASE GathersBucket(m, c, k)
  <2>1. PICK t \in Seq(STRING) : c.buckets = Append(m.buckets, <<t, k>>)
    BY <1>2 DEF GathersBucket
  <2>2. m.buckets \in Seq(Part) /\ <<t, k>> \in Part
    BY GatheredFields DEF Part
  <2>3. /\ Len(c.buckets) = Len(m.buckets) + 1 /\ Len(m.buckets) \in Nat
        /\ \A i \in 1..Len(m.buckets) : c.buckets[i] = m.buckets[i]
        /\ c.buckets[Len(m.buckets) + 1] = <<t, k>>
    BY <2>1, <2>2
  <2>4. \A i \in 1..Len(c.buckets) : i \in 1..Len(m.buckets) \/ i = Len(m.buckets) + 1
    BY <2>3
  <2>5. 1..Len(m.buckets) \subseteq 1..Len(c.buckets) /\ Len(m.buckets) + 1 \in 1..Len(c.buckets)
    BY <2>3
  <2>6. <<t, k>>[2] = k
    OBVIOUS
  <2>7. B(m) \subseteq B(c) /\ k \in B(c) /\ B(c) \subseteq B(m) \cup {k}
    <3> DEFINE l == Len(m.buckets)  p == <<t, k>>
    <3>1. p[2] = k /\ c.buckets[l + 1] = p /\ l + 1 \in 1..Len(c.buckets)
      BY <2>3, <2>5, <2>6
    <3> HIDE DEF l, p
    <3>2. k \in B(c)
      BY <3>1
    <3>3. B(m) \subseteq B(c)
      <4> SUFFICES ASSUME NEW x \in B(m) PROVE x \in B(c)
        OBVIOUS
      <4>1. PICK i \in 1..Len(m.buckets) : x = m.buckets[i][2]
        OBVIOUS
      <4>2. i \in 1..Len(c.buckets) /\ c.buckets[i] = m.buckets[i]
        BY <2>3, <2>5
      <4> QED BY <4>1, <4>2
    <3>4. B(c) \subseteq B(m) \cup {k}
      <4> SUFFICES ASSUME NEW x \in B(c) PROVE x \in B(m) \/ x = k
        OBVIOUS
      <4>1. PICK i \in 1..Len(c.buckets) : x = c.buckets[i][2]
        OBVIOUS
      <4>2. CASE i \in 1..Len(m.buckets)
        <5>1. c.buckets[i] = m.buckets[i]
          BY <2>3, <4>2
        <5> QED BY <4>1, <4>2, <5>1
      <4>3. CASE i = l + 1
        BY <3>1, <4>1, <4>3
      <4> QED BY <2>4, <4>2, <4>3 DEF l
    <3> QED BY <3>2, <3>3, <3>4
  <2> HIDE DEF B
  <2> QED BY <1>1, <1>2, <2>7 DEF GathersBucket
<1>3. CASE GathersSum(m, c, k)
  <2>1. B(c) = B(m)
    BY <1>3 DEF GathersSum
  <2> HIDE DEF B
  <2> QED BY <1>1, <1>3, <2>1 DEF GathersSum
<1>4. CASE GathersCount(m, c, k)
  <2>1. B(c) = B(m)
    BY <1>4 DEF GathersCount
  <2> HIDE DEF B
  <2> QED BY <1>1, <1>4, <2>1 DEF GathersCount
<1> QED BY <1>2, <1>3, <1>4

\* The metrics found, when one is being gathered and when none is.
LEMMA FoundMetrics ==
  ASSUME ParserTypes
  PROVE  /\ Found \in Seq(Metric)
         /\ currentMultiSample = Null => Found = result
         /\ currentMultiSample # Null =>
              /\ Found = Append(result, currentMultiSample)
              /\ currentMultiSample \in Gathered
              /\ Len(Found) = Len(result) + 1 /\ Found[Len(Found)] = currentMultiSample
              /\ \A i \in 1..Len(result) : Found[i] = result[i]
<1>1. CASE currentMultiSample = Null
  BY <1>1 DEF ParserTypes, Found, Flushed
<1>2. CASE currentMultiSample # Null
  <2>1. currentMultiSample \in Metric /\ currentMultiSample \in Gathered /\ result \in Seq(Metric)
    BY <1>2 DEF ParserTypes, Metric
  <2>2. Found = Append(result, currentMultiSample)
    BY <1>2 DEF Found, Flushed
  <2> QED BY <1>2, <2>1, <2>2
<1> QED BY <1>1, <1>2

\* How metric c that is gathered after a sample line comes from m: the one gathered before,
\* or a new one.
Joins(m) == m = currentMultiSample /\ currentMultiSample # Null /\ result' = result
Opens(m) ==
  /\ m.buckets = <<>> /\ m.sum = NaN /\ m.count = NaN
  /\ result' = Found
  /\ currentMultiSample # Null =>
       ~(m.name = currentMultiSample.name /\ m.labels = currentMultiSample.labels)

\* The line is a bucket of m, with its threshold.
IsBucketOf(line, type, m, c) ==
  /\ line.name = m.name \o BucketSuffix(type)
  /\ BucketLabel(type) \in DOMAIN line.labels
  /\ c.buckets = Append(m.buckets, <<line.labels[BucketLabel(type)], lineNumber>>)

\* What the line adds to it.
Adds(line, type, m, c) ==
  \/ GathersBucket(m, c, lineNumber) /\ IsBucketOf(line, type, m, c)
  \/ GathersSum(m, c, lineNumber) /\ line.name = m.name \o <<"sum">>
  \/ GathersCount(m, c, lineNumber) /\ line.name = m.name \o <<"count">>
  \/ /\ c = m /\ line.name = m.name \o BucketSuffix(type)
     /\ m.name \in DOMAIN typeMap /\ typeMap[m.name] = type
     /\ BucketLabel(type) \notin DOMAIN line.labels
  \/ c = m /\ Throw

LEMMA GatherStep ==
  ASSUME ParserTypes, DeclaredByLines, NEW line \in Lines, MultiSample(line)
  PROVE  \E m \in Gathered, type \in Multi, c \in Gathered :
           /\ currentMultiSample' = c
           /\ c.name = m.name /\ c.type = m.type /\ c.labels = m.labels
           /\ m.labels = Without(line.labels, BucketLabel(type))
           /\ m.name \in DOMAIN typeMap /\ typeMap[m.name] = type
           /\ Joins(m) \/ (Opens(m) /\ m.type = type)
           /\ Adds(line, type, m, c)
<1> USE ParserAssumption
<1> DEFINE name   == Owner(line.name)
           type   == TypeOf(name)
           label  == BucketLabel(type)
           suffix == SubSeq(line.name, Len(name) + 1, Len(line.name))
           old    == Continues(name, type, line.labels)
           m      == IF old THEN currentMultiSample ELSE NewMultiSample(name, type, line.labels)
           k      == lineNumber
<1>1. line.kind = "metric" /\ line.name \in Name
  BY DEF MultiSample
<1>2. /\ type \in Multi
      /\ result' = IF old THEN result ELSE Flushed
      /\ \/ /\ suffix = BucketSuffix(type)
            /\ label \in DOMAIN line.labels
            /\ currentMultiSample' =
                 [m EXCEPT !.buckets = Append(m.buckets, <<line.labels[label], k>>)]
         \/ /\ suffix = BucketSuffix(type)
            /\ label \notin DOMAIN line.labels /\ currentMultiSample' = m
         \/ suffix = <<"count">> /\ currentMultiSample' = [m EXCEPT !.count = k]
         \/ suffix = <<"sum">> /\ currentMultiSample' = [m EXCEPT !.sum = k]
         \/ currentMultiSample' = m /\ Throw
  BY DEF MultiSample
<1>3. Begins(name, line.name)
  BY <1>1, OwnerBegins
<1>4. line.name = name \o suffix /\ name \in Name
  BY <1>1, <1>3, BeginningAndRest DEF Begins
<1>5. name \in DOMAIN typeMap /\ typeMap[name] = type
  BY <1>2 DEF TypeOf
<1>6. /\ m \in Gathered /\ m.name = name /\ m.labels = Without(line.labels, label)
      /\ Joins(m) \/ (Opens(m) /\ m.type = type)
  <2> DEFINE n == NewMultiSample(name, type, line.labels)
  <2>1. CASE old
    <3>1. m = currentMultiSample /\ result' = result
      BY <1>2, <2>1
    <3>2. /\ currentMultiSample # Null /\ currentMultiSample.name = name
          /\ currentMultiSample.labels = Without(line.labels, label)
      BY <2>1 DEF Continues
    <3> HIDE DEF m, name, label
    <3> QED BY <3>1, <3>2 DEF ParserTypes, Joins
  <2>2. CASE ~old
    <3>1. m = n /\ result' = Found
      BY <1>2, <2>2 DEF Found
    <3> HIDE DEF name, type
    <3>2. /\ n \in Gathered /\ n.name = name /\ n.type = type
          /\ n.labels = Without(line.labels, BucketLabel(type))
          /\ n.buckets = <<>> /\ n.sum = NaN /\ n.count = NaN
      BY <1>1, <1>2, <1>4, NewMetric
    <3>3. currentMultiSample # Null =>
            ~(name = currentMultiSample.name
              /\ Without(line.labels, BucketLabel(type)) = currentMultiSample.labels)
      BY <2>2 DEF Continues
    <3> HIDE DEF n, m
    <3>4. Opens(m) /\ m.type = type
      BY <3>1, <3>2, <3>3 DEF Opens
    <3> QED BY <3>1, <3>2, <3>4
  <2> QED BY <2>1, <2>2
<1>7. k \in Nat
  BY DEF ParserTypes, lineNumber
<1>8. label \in DOMAIN line.labels => Append(m.buckets, <<line.labels[label], k>>) \in Seq(Part)
  <2> HIDE DEF m, label, k
  <2>1. m.buckets \in Seq(Part)
    BY <1>6, GatheredFields
  <2>2. ASSUME label \in DOMAIN line.labels PROVE <<line.labels[label], k>> \in Part
    BY <1>1, <1>7, <2>2 DEF Part
  <2> QED BY <2>1, <2>2
<1> HIDE DEF name, type, label, suffix, old, m, k
<1>0. m.name \in DOMAIN typeMap /\ typeMap[m.name] = type
  BY <1>5, <1>6, Zenon
<1>9. CASE /\ suffix = BucketSuffix(type)
           /\ label \in DOMAIN line.labels
           /\ currentMultiSample' =
                [m EXCEPT !.buckets = Append(m.buckets, <<line.labels[label], k>>)]
  <2>0. PICK c : c = [m EXCEPT !.buckets = Append(m.buckets, <<line.labels[label], k>>)]
    OBVIOUS
  <2>1. /\ c \in Gathered /\ c.name = m.name /\ c.type = m.type /\ c.labels = m.labels
        /\ c.buckets = Append(m.buckets, <<line.labels[label], k>>)
        /\ c.sum = m.sum /\ c.count = m.count
    <3>1. PICK b \in Seq(Part) : b = Append(m.buckets, <<line.labels[label], k>>)
      BY <1>8, <1>9
    <3>2. c = [m EXCEPT !.buckets = b]
      BY <2>0, <3>1, Zenon
    <3>3. /\ c \in Gathered /\ c.name = m.name /\ c.type = m.type /\ c.labels = m.labels
          /\ c.buckets = b /\ c.sum = m.sum /\ c.count = m.count
      <4>1. m \in Gathered /\ b \in Seq(Part)
        BY <1>6
      <4> QED BY ONLY <3>2, <4>1, BucketsUpdate
    <3> QED BY <3>1, <3>3, Zenon
  <2>2. line.labels[label] \in Seq(STRING)
    BY <1>1, <1>9
  <2>3. line.name = m.name \o BucketSuffix(type)
    BY <1>4, <1>6, <1>9, Zenon
  <2>4. GathersBucket(m, c, lineNumber)
    BY <2>1, <2>2, Zenon DEF GathersBucket, k
  <2>5. IsBucketOf(line, type, m, c)
    BY <1>9, <2>1, <2>3, Zenon DEF IsBucketOf, label, k
  <2>6. Adds(line, type, m, c)
    BY <2>4, <2>5, Zenon DEF Adds
  <2> QED BY <1>0, <1>2, <1>6, <1>9, <2>0, <2>1, <2>6, Zenon DEF label
<1>10. CASE suffix = <<"count">> /\ currentMultiSample' = [m EXCEPT !.count = k]
  <2>0. PICK c : c = [m EXCEPT !.count = k]
    OBVIOUS
  <2>1. /\ c \in Gathered /\ c.name = m.name /\ c.type = m.type /\ c.labels = m.labels
        /\ c.buckets = m.buckets /\ c.sum = m.sum /\ c.count = k
    BY <1>6, <1>7, <2>0, CountUpdate
  <2>2. line.name = m.name \o <<"count">>
    BY <1>4, <1>6, <1>10, Zenon
  <2>3. Adds(line, type, m, c)
    BY <2>1, <2>2, Zenon DEF Adds, GathersCount, k
  <2> QED BY <1>0, <1>2, <1>6, <1>10, <2>0, <2>1, <2>3, Zenon DEF label
<1>11. CASE suffix = <<"sum">> /\ currentMultiSample' = [m EXCEPT !.sum = k]
  <2>0. PICK c : c = [m EXCEPT !.sum = k]
    OBVIOUS
  <2>1. /\ c \in Gathered /\ c.name = m.name /\ c.type = m.type /\ c.labels = m.labels
        /\ c.buckets = m.buckets /\ c.sum = k /\ c.count = m.count
    BY <1>6, <1>7, <2>0, SumUpdate
  <2>2. line.name = m.name \o <<"sum">>
    BY <1>4, <1>6, <1>11, Zenon
  <2>3. Adds(line, type, m, c)
    BY <2>1, <2>2, Zenon DEF Adds, GathersSum, k
  <2> QED BY <1>0, <1>2, <1>6, <1>11, <2>0, <2>1, <2>3, Zenon DEF label
<1>12. CASE /\ suffix = BucketSuffix(type)
            /\ label \notin DOMAIN line.labels /\ currentMultiSample' = m
  <2>1. line.name = m.name \o BucketSuffix(type) /\ BucketLabel(type) \notin DOMAIN line.labels
    BY <1>4, <1>6, <1>12, Zenon DEF label
  <2>2. Adds(line, type, m, m)
    BY <1>0, <2>1, Zenon DEF Adds
  <2> QED BY <1>0, <1>2, <1>6, <1>12, <2>2, Zenon DEF label
<1>13. CASE currentMultiSample' = m /\ Throw
  <2>1. Adds(line, type, m, m)
    BY <1>13, Zenon DEF Adds
  <2> QED BY <1>0, <1>2, <1>6, <1>13, <2>1, Zenon DEF label
<1> QED BY <1>2, <1>9, <1>10, <1>11, <1>12, <1>13, Zenon
------------------------------------------------------------------------------
(***************************************************************************)
(* Steps                                                                   *)
(***************************************************************************)
SameMetric(l, m) == l.name = m.name /\ l.type = m.type /\ l.labels = m.labels

\* The metrics found stay what they are; only the last one holds the line just read.
FoundGrows ==
  /\ Len(Found') \in {Len(Found), Len(Found) + 1}
  /\ \A i \in 1..Len(Found) :
       /\ SameMetric(Found'[i], Found[i])
       /\ LinesOf(Found'[i]) \subseteq LinesOf(Found[i]) \cup {lineNumber}
  /\ \A i \in 1..Len(Found') : lineNumber \in LinesOf(Found'[i]) => i = Len(Found')
  /\ Len(Found') = Len(Found) + 1 => LinesOf(Found'[Len(Found')]) \subseteq {lineNumber}

\* A line that belongs to the metric being gathered is put there.
JoinsCurrent ==
  \A j \in 1..Len(Found') :
    /\ Found'[j].type \in Multi /\ lineNumber \in LinesOf(Found'[j])
    /\ currentMultiSample # Null
    /\ currentMultiSample.name = Found'[j].name /\ currentMultiSample.labels = Found'[j].labels
    => Len(Found') = Len(Found)

\* What a metric holds it keeps, but for a sum or a count that a later one takes the place of.
KeepsLines ==
  \A i \in 1..Len(Found) :
    /\ \A n \in LinesOf(Found[i]) : n \in LinesOf(Found'[i]) \/ Superseded(n)'
    /\ Found[i].type \in Multi =>
         \A k \in {Found[i].sum, Found[i].count} \ {NaN} :
           \E l \in {Found'[i].sum, Found'[i].count} :
             l \in Nat /\ l >= k /\ text'[l].name = text[k].name

\* The text with one more line.
LEMMA TextGrows ==
  ASSUME NEW t \in Seq(Lines), NEW line \in Lines, NEW u, u = Append(t, line)
  PROVE  /\ u \in Seq(Lines) /\ Len(t) \in Nat /\ Len(u) = Len(t) + 1
         /\ \A n \in 1..Len(t) : u[n] = t[n]
         /\ u[Len(t) + 1] = line
  OBVIOUS

LEMMA HeldOnceStep ==
  ASSUME LinesHeldOnce, FoundGrows, Len(Found) \in Nat, Len(text) \in Nat,
         Len(text') = Len(text) + 1
  PROVE  LinesHeldOnce'
<1> DEFINE k == lineNumber  n == Len(Found)
<1>1. k = Len(text) + 1 /\ Len(text') = k
  BY DEF lineNumber
<1>2. \A i \in 1..Len(Found') : i \in 1..n \/ (i = n + 1 /\ i = Len(Found') /\ Len(Found') = n + 1)
  BY DEF FoundGrows
<1>3. ASSUME NEW i \in 1..Len(Found'), NEW e \in LinesOf(Found'[i]), e # k
      PROVE  i \in 1..n /\ e \in LinesOf(Found[i])
  BY <1>2, <1>3 DEF FoundGrows
<1>4. \A i \in 1..Len(Found') : k \in LinesOf(Found'[i]) => i = Len(Found')
  BY DEF FoundGrows
<1> HIDE DEF k, n
<1>5. ASSUME NEW i \in 1..Len(Found'), NEW e \in LinesOf(Found'[i])
      PROVE  e \in 1..Len(text')
  <2>1. CASE e = k
    BY <1>1, <2>1
  <2>2. CASE e # k
    <3>1. i \in 1..n /\ e \in LinesOf(Found[i])
      BY <1>3, <2>2
    <3>2. e \in 1..Len(text)
      BY <3>1 DEF LinesHeldOnce, n
    <3> QED BY <3>2
  <2> QED BY <2>1, <2>2
<1>6. ASSUME NEW i \in 1..Len(Found'), NEW j \in 1..Len(Found'),
             LinesOf(Found'[i]) \cap LinesOf(Found'[j]) # {}
      PROVE  i = j
  <2>1. PICK e : e \in LinesOf(Found'[i]) /\ e \in LinesOf(Found'[j])
    BY <1>6
  <2>2. CASE e = k
    BY <1>4, <2>1, <2>2
  <2>3. CASE e # k
    <3>1. i \in 1..n /\ e \in LinesOf(Found[i]) /\ j \in 1..n /\ e \in LinesOf(Found[j])
      BY <1>3, <2>1, <2>3
    <3>2. LinesOf(Found[i]) \cap LinesOf(Found[j]) # {}
      BY <3>1
    <3> QED BY <3>1, <3>2 DEF LinesHeldOnce, n
  <2> QED BY <2>2, <2>3
<1> QED BY <1>5, <1>6 DEF LinesHeldOnce

\* Neighbouring lines of the same series.
LEMMA GroupsStep ==
  ASSUME ParserTypes, LinesHeldOnce, LastLineIsGathered, GroupsStayTogether, outcome = "parsing",
         FoundGrows, JoinsCurrent, Len(text') = Len(text) + 1
  PROVE  GroupsStayTogether'
<1> DEFINE k == lineNumber  n == Len(Found)
<1>1. k = Len(text) + 1 /\ n \in Nat /\ Len(text) \in Nat /\ Found \in Seq(Metric)
  BY FoundMetrics DEF lineNumber, ParserTypes
<1>2. \A i \in 1..Len(Found') : i \in 1..n \/ (i = n + 1 /\ i = Len(Found') /\ Len(Found') = n + 1)
  BY <1>1 DEF FoundGrows
<1>3. ASSUME NEW i \in 1..Len(Found'), NEW e \in LinesOf(Found'[i]), e # k
      PROVE  i \in 1..n /\ e \in LinesOf(Found[i]) /\ SameMetric(Found'[i], Found[i])
  BY <1>2, <1>3 DEF FoundGrows
<1>4. \A i \in 1..Len(Found') : k \in LinesOf(Found'[i]) => i = Len(Found')
  BY DEF FoundGrows
<1> SUFFICES ASSUME NEW i \in 1..Len(Found'), NEW j \in 1..Len(Found'),
                    NEW e \in 1..(Len(text') - 1),
                    e \in LinesOf(Found'[i]), e + 1 \in LinesOf(Found'[j]),
                    Found'[i].type \in Multi, SameMetric(Found'[i], Found'[j])
             PROVE  i = j
  <2> HIDE DEF k, n
  <2> QED BY DEF GroupsStayTogether, SameMetric
<1>5. e # k /\ e \in 1..Len(text)
  BY <1>1
<1>6. i \in 1..n /\ e \in LinesOf(Found[i]) /\ SameMetric(Found'[i], Found[i])
  BY <1>3, <1>5
<1>7. CASE e + 1 = k
  <2>1. j = Len(Found') /\ k \in LinesOf(Found'[j])
    BY <1>4, <1>7
  <2>2. e = Len(text) /\ Found[i].type \in Multi
    BY <1>1, <1>6, <1>7 DEF SameMetric
  <2>3. i = n /\ currentMultiSample # Null
    BY <1>6, <2>2 DEF LastLineIsGathered
  <2>4. Found[i] = currentMultiSample
    BY <2>3, FoundMetrics
  <2>5. /\ currentMultiSample.name = Found'[j].name
        /\ currentMultiSample.labels = Found'[j].labels /\ Found'[j].type \in Multi
    BY <1>6, <2>4 DEF SameMetric
  <2>6. Len(Found') = n
    BY <2>1, <2>3, <2>5 DEF JoinsCurrent
  <2> QED BY <2>1, <2>3, <2>6
<1>8. CASE e + 1 # k
  <2>1. j \in 1..n /\ e + 1 \in LinesOf(Found[j]) /\ SameMetric(Found'[j], Found[j])
    BY <1>3, <1>8
  <2>2. e \in 1..(Len(text) - 1)
    BY <1>1, <1>5, <1>8
  <2>3. SameMetric(Found[i], Found[j]) /\ Found[i].type \in Multi
    BY <1>6, <2>1 DEF SameMetric
  <2> QED BY <1>6, <2>1, <2>2, <2>3 DEF GroupsStayTogether, SameMetric
<1> QED BY <1>7, <1>8

\* A sum or count of a later line than n is a line of the text.
LEMMA LaterLine ==
  ASSUME ParserTypes, LinesHeldOnce, NEW i \in 1..Len(Found), Found[i].type \in Multi,
         NEW k \in {Found[i].sum, Found[i].count}, k # NaN
  PROVE  k \in LinesOf(Found[i]) /\ k \in 1..Len(text)
<1>1. Found[i] \in Gathered
  <2>1. Found[i] \in Single \cup Gathered
    BY FoundMetrics DEF Metric
  <2> QED BY <2>1, SingleFields
<1>2. k \in LinesOf(Found[i])
  BY <1>1, GatheredLines
<1> QED BY <1>2 DEF LinesHeldOnce

\* A sample once accounted for stays so.
LEMMA AccountedStays ==
  ASSUME ParserTypes, LinesHeldOnce, FoundGrows, KeepsLines,
         \A n \in 1..Len(text) : text'[n] = text[n],
         NEW n \in 1..Len(text), Accounted(n)
  PROVE  Accounted(n)'
<1>0. Len(Found) \in Nat /\ Len(Found') \in Nat /\ Len(text) \in Nat
      /\ \A i \in 1..Len(Found) : i \in 1..Len(Found')
  <2>1. Len(Found) \in Nat /\ Len(text) \in Nat
    BY FoundMetrics DEF ParserTypes
  <2> QED BY <2>1 DEF FoundGrows
<1>1. CASE Holders(n) # {}
  <2>1. PICK i \in 1..Len(Found) : n \in LinesOf(Found[i])
    BY <1>1 DEF Holders
  <2>2. n \in LinesOf(Found'[i]) \/ Superseded(n)'
    BY <2>1 DEF KeepsLines
  <2>3. n \in LinesOf(Found'[i]) => Holders(n)' # {}
    BY <1>0, <2>1 DEF Holders
  <2> QED BY <2>2, <2>3 DEF Accounted
<1>2. CASE Superseded(n)
  <2>1. PICK i \in 1..Len(Found), type \in Multi :
          /\ Found[i].type \in Multi
          /\ \E k \in {Found[i].sum, Found[i].count} : k > n /\ text[k].name = text[n].name
          /\ Found[i].labels = Without(text[n].labels, BucketLabel(type))
    BY <1>2 DEF Superseded
  <2>2. PICK k \in {Found[i].sum, Found[i].count} : k > n /\ text[k].name = text[n].name
    BY <2>1
  <2>3. Found[i] \in Gathered
    <3>1. Found[i] \in Single \cup Gathered
      BY FoundMetrics DEF Metric
    <3> QED BY <2>1, <3>1, SingleFields
  <2>4. k \in Nat /\ k # NaN
    <3>1. k \in Nat
      BY <2>3, GatheredFields
    <3> QED BY <2>2, <3>1 DEF NaN
  <2>5. PICK l \in {Found'[i].sum, Found'[i].count} :
          l \in Nat /\ l >= k /\ text'[l].name = text[k].name
    <3>1. k \in {Found[i].sum, Found[i].count} \ {NaN}
      BY <2>4
    <3> QED BY <2>1, <3>1 DEF KeepsLines
  <2>6. SameMetric(Found'[i], Found[i]) /\ i \in 1..Len(Found')
    BY <1>0 DEF FoundGrows
  <2>7. l > n
    BY <2>2, <2>4, <2>5
  <2>8. text'[n] = text[n]
    OBVIOUS
  <2>9. Superseded(n)'
    BY <2>1, <2>2, <2>5, <2>6, <2>7, <2>8 DEF Superseded, SameMetric
  <2> QED BY <2>9 DEF Accounted
<1>3. CASE WithoutThreshold(n)
  <2>1. PICK k \in 1..(n - 1) :
          /\ text[k].kind = "type-info" /\ text[k].type \in Multi
          /\ text[n].name = text[k].name \o BucketSuffix(text[k].type)
          /\ BucketLabel(text[k].type) \notin DOMAIN text[n].labels
    BY <1>3 DEF WithoutThreshold
  <2>2. k \in 1..Len(text)
    BY <1>0
  <2>3. text'[k] = text[k] /\ text'[n] = text[n]
    BY <2>2
  <2>4. WithoutThreshold(n)'
    BY <2>1, <2>3 DEF WithoutThreshold, BucketSuffix, BucketLabel
  <2> QED BY <2>4 DEF Accounted
<1> QED BY <1>1, <1>2, <1>3 DEF Accounted

\* What a line that is read has to keep.
LEMMA ReadStep ==
  ASSUME ParserInv, outcome = "parsing", NEW line \in Lines, text' = Append(text, line),
         outcome' \in {"parsing", "failed"}, UNCHANGED options,
         ParserTypes', DeclaredByLines', SumAndCountBelong',
         FoundGrows, JoinsCurrent, KeepsLines,
         \A i \in 1..Len(Found') :
           Found'[i].type \in Multi /\ lineNumber \in LinesOf(Found'[i]) =>
             currentMultiSample' # Null,
         /\ outcome' = "parsing" /\ options.failOnInvalidLine /\ ~options.ignoreMetricsWithoutType
         /\ line.kind = "metric"
         => \E n \in {lineNumber} : Accounted(n)'
  PROVE  ParserInv'
<1>0. ParserTypes /\ DeclaredByLines /\ LinesHeldOnce /\ LastLineIsGathered
      /\ SumAndCountBelong /\ NoneIsLost /\ GroupsStayTogether
  BY DEF ParserInv
<1>1. /\ Len(text) \in Nat /\ Len(text') = Len(text) + 1
      /\ \A n \in 1..Len(text) : text'[n] = text[n]
      /\ text'[Len(text) + 1] = line
  BY <1>0, TextGrows DEF ParserTypes
<1>2. LinesHeldOnce'
  <2>1. Len(Found) \in Nat
    BY <1>0, FoundMetrics
  <2> QED BY <1>0, <1>1, <2>1, HeldOnceStep
<1>3. GroupsStayTogether'
  BY <1>0, <1>1, GroupsStep
<1>4. LastLineIsGathered'
  BY <1>1 DEF LastLineIsGathered, FoundGrows, lineNumber
<1>5. NoneIsLost'
  <2> SUFFICES ASSUME outcome' # "failed", options.failOnInvalidLine,
                      ~options.ignoreMetricsWithoutType,
                      NEW n \in 1..Len(text'), text'[n].kind = "metric"
               PROVE  Accounted(n)'
    BY DEF NoneIsLost
  <2>1. CASE n \in 1..Len(text)
    <3>1. Accounted(n)
      BY <1>0, <1>1, <2>1 DEF NoneIsLost
    <3> QED BY <1>0, <1>1, <2>1, <3>1, AccountedStays
  <2>2. CASE n = Len(text) + 1
    <3>1. n = lineNumber /\ line.kind = "metric" /\ outcome' = "parsing"
      BY <1>1, <2>2 DEF lineNumber
    <3> QED BY <3>1
  <2> QED BY <1>1, <2>1, <2>2
<1> QED BY <1>2, <1>3, <1>4, <1>5 DEF ParserInv

\* Declarations and the metric gathered, in a text with one more line.
LEMMA DeclaredStays ==
  ASSUME ParserTypes, DeclaredByLines, NEW line \in Lines, text' = Append(text, line),
         UNCHANGED typeMap
  PROVE  DeclaredByLines'
<1>1. Len(text) \in Nat /\ Len(text') = Len(text) + 1 /\ \A n \in 1..Len(text) : text'[n] = text[n]
  BY TextGrows DEF ParserTypes
<1>2. \A n \in 1..Len(text) : n \in 1..Len(text')
  BY <1>1
<1> QED BY <1>1, <1>2 DEF DeclaredByLines

LEMMA CurrentBelongs ==
  ASSUME ParserTypes, LinesHeldOnce, SumAndCountBelong, NEW line \in Lines,
         text' = Append(text, line), currentMultiSample # Null
  PROVE  LET cur == currentMultiSample IN
         /\ cur \in Gathered
         /\ cur.sum # NaN =>
              /\ cur.sum \in 1..Len(text) /\ text[cur.sum].name = cur.name \o <<"sum">>
              /\ text'[cur.sum] = text[cur.sum] /\ BelongsTo(cur.sum, cur, "sum")
         /\ cur.count # NaN =>
              /\ cur.count \in 1..Len(text) /\ text[cur.count].name = cur.name \o <<"count">>
              /\ text'[cur.count] = text[cur.count] /\ BelongsTo(cur.count, cur, "count")
<1> DEFINE cur == currentMultiSample  n == Len(Found)
<1>1. /\ cur \in Gathered /\ Found[n] = cur /\ n \in 1..n
  <2>1. Found \in Seq(Metric) /\ Len(Found) = Len(result) + 1 /\ Len(result) \in Nat
    BY FoundMetrics DEF ParserTypes
  <2> QED BY <2>1, FoundMetrics
<1>2. \A k \in 1..Len(text) : text'[k] = text[k]
  BY TextGrows DEF ParserTypes
<1>3. cur.type \in Multi
  BY <1>1, GatheredFields
<1> HIDE DEF n
<1>4. \A k \in {cur.sum, cur.count} \ {NaN} : k \in 1..Len(text)
  BY <1>1, <1>3, LaterLine DEF n
<1> QED BY <1>1, <1>2, <1>4 DEF SumAndCountBelong, BelongsTo

LEMMA SumAndCountStay ==
  ASSUME ParserTypes, LinesHeldOnce, SumAndCountBelong, NEW line \in Lines,
         text' = Append(text, line), UNCHANGED currentMultiSample
  PROVE  SumAndCountBelong'
  BY CurrentBelongs DEF SumAndCountBelong, BelongsTo

\* A line without effect on the metrics.
LEMMA QuietStep ==
  ASSUME ParserInv, outcome = "parsing", NEW line \in Lines, text' = Append(text, line),
         outcome' \in {"parsing", "failed"}, UNCHANGED options,
         UNCHANGED <<currentMultiSample, result>>, DeclaredByLines',
         line.kind # "metric" \/ options.ignoreMetricsWithoutType
  PROVE  ParserInv' /\ FoundGrows
<1>0. ParserTypes /\ DeclaredByLines /\ LinesHeldOnce /\ SumAndCountBelong
  BY DEF ParserInv
<1>1. Found' = Found /\ Found \in Seq(Metric)
  BY <1>0, FoundMetrics DEF Found, Flushed
<1>2. ParserTypes'
  BY <1>0, TextGrows DEF ParserTypes
<1>3. SumAndCountBelong'
  BY <1>0, SumAndCountStay
<1>4. Len(Found) \in Nat /\ Len(text) \in Nat /\ lineNumber = Len(text) + 1
  BY <1>0, <1>1 DEF ParserTypes, lineNumber
<1>5. \A i \in 1..Len(Found) : lineNumber \notin LinesOf(Found[i])
  BY <1>0, <1>4 DEF LinesHeldOnce
<1>6. FoundGrows
  BY <1>1, <1>4, <1>5 DEF FoundGrows, SameMetric
<1>7. JoinsCurrent
  BY <1>1 DEF JoinsCurrent
<1>8. KeepsLines
  <2> SUFFICES ASSUME NEW i \in 1..Len(Found), Found[i].type \in Multi,
                      NEW k \in {Found[i].sum, Found[i].count} \ {NaN}
               PROVE  k \in Nat /\ k >= k /\ text'[k].name = text[k].name
    BY <1>1 DEF KeepsLines
  <2>1. k \in 1..Len(text)
    BY <1>0, LaterLine
  <2> QED BY <1>0, <2>1, TextGrows DEF ParserTypes
<1>9. \A i \in 1..Len(Found') : lineNumber \notin LinesOf(Found'[i])
  BY <1>1, <1>5
<1>10. ParserInv'
  BY <1>0, <1>2, <1>3, <1>6, <1>7, <1>8, <1>9, ReadStep
<1> QED BY <1>6, <1>10

LEMMA TypeInfoStep ==
  ASSUME ParserInv, NEW line \in Lines, TypeInfo(line)
  PROVE  ParserInv' /\ FoundGrows
<1> USE ParserAssumption
<1>1. /\ outcome = "parsing" /\ text' = Append(text, line) /\ UNCHANGED options
      /\ UNCHANGED <<currentMultiSample, result>> /\ line.kind = "type-info"
      /\ outcome' \in {"parsing", "failed"}
      /\ line.name \in Name /\ line.type \in Scalar \cup Multi
      /\ \/ typeMap' = typeMap
         \/ typeMap' = Put(typeMap, line.name, line.type)
  BY DEF TypeInfo, Read, Throw
<1>2. ParserTypes /\ DeclaredByLines
  BY DEF ParserInv
<1>3. /\ Len(text) \in Nat /\ Len(text') = Len(text) + 1
      /\ \A n \in 1..Len(text) : text'[n] = text[n] /\ n \in 1..Len(text')
      /\ text'[Len(text) + 1] = line /\ Len(text) + 1 \in 1..Len(text')
  <2>1. /\ Len(text) \in Nat /\ Len(text') = Len(text) + 1
        /\ \A n \in 1..Len(text) : text'[n] = text[n]
        /\ text'[Len(text) + 1] = line
    BY <1>1, <1>2, TextGrows DEF ParserTypes
  <2> QED BY <2>1
<1>4. DeclaredByLines'
  <2>1. CASE typeMap' = typeMap
    BY <1>1, <1>2, <2>1, DeclaredStays
  <2>2. CASE typeMap' = Put(typeMap, line.name, line.type)
    <3>1. DOMAIN typeMap' = DOMAIN typeMap \cup {line.name}
      BY <2>2 DEF Put
    <3>2. \A name \in DOMAIN typeMap' :
            typeMap'[name] = IF name = line.name THEN line.type ELSE typeMap[name]
      BY <2>2, <3>1 DEF Put
    <3>3. ASSUME NEW name \in DOMAIN typeMap'
          PROVE  /\ name \in Name /\ typeMap'[name] \in Scalar \cup Multi
                 /\ \E k \in 1..Len(text') :
                      /\ text'[k].kind = "type-info" /\ text'[k].name = name
                      /\ text'[k].type = typeMap'[name]
      <4>1. CASE name = line.name
        BY <1>1, <1>3, <3>2, <4>1
      <4>2. CASE name # line.name
        <5>1. name \in DOMAIN typeMap /\ typeMap'[name] = typeMap[name]
          BY <3>1, <3>2, <4>2
        <5> QED BY <1>2, <1>3, <5>1 DEF DeclaredByLines
      <4> QED BY <4>1, <4>2
    <3> QED BY <3>3 DEF DeclaredByLines
  <2> QED BY <1>1, <2>1, <2>2
<1> QED BY <1>1, <1>4, QuietStep

LEMMA OtherQuietStep ==
  ASSUME ParserInv, NEW line \in Lines, InvalidLine(line) \/ Help(line) \/ SampleWithoutType(line)
  PROVE  ParserInv' /\ FoundGrows
<1>1. /\ outcome = "parsing" /\ text' = Append(text, line) /\ UNCHANGED options
      /\ UNCHANGED <<typeMap, currentMultiSample, result>>
      /\ outcome' \in {"parsing", "failed"}
      /\ line.kind # "metric" \/ options.ignoreMetricsWithoutType
  BY DEF InvalidLine, Help, SampleWithoutType, Read, Throw
<1>2. DeclaredByLines'
  BY <1>1, DeclaredStays DEF ParserInv
<1> QED BY <1>1, <1>2, QuietStep

LEMMA ScalarStep ==
  ASSUME ParserInv, NEW line \in Lines, ScalarSample(line)
  PROVE  ParserInv' /\ FoundGrows
<1> USE ParserAssumption
<1> DEFINE type == TypeOf(Owner(line.name))
           r == [name |-> line.name, type |-> IF type = Null THEN "untyped" ELSE type,
                 labels |-> line.labels, value |-> lineNumber]
<1>0. ParserTypes /\ DeclaredByLines /\ LinesHeldOnce
  BY DEF ParserInv
<1>1. /\ outcome = "parsing" /\ text' = Append(text, line) /\ UNCHANGED options
      /\ line.kind = "metric" /\ line.name \in Name
      /\ type \in Scalar \cup {Null}
      /\ currentMultiSample' = Null /\ UNCHANGED <<typeMap, outcome>>
      /\ result' = Append(Found, r)
  BY DEF ScalarSample, Read, Found
<1>2. /\ Len(text) \in Nat /\ lineNumber = Len(text) + 1 /\ lineNumber \in Nat
      /\ Found \in Seq(Metric) /\ Len(Found) \in Nat
  <2>1. Len(text) \in Nat /\ Found \in Seq(Metric)
    BY <1>0, FoundMetrics DEF ParserTypes
  <2> QED BY <2>1 DEF lineNumber
<1>3. /\ r \in Single /\ r.type \notin Multi /\ r.value = lineNumber /\ r.type \in Scalar
  <2> DEFINE t == IF type = Null THEN "untyped" ELSE type
  <2>1. t \in Scalar
    BY <1>1 DEF Scalar
  <2>2. r = [name |-> line.name, type |-> t, labels |-> line.labels, value |-> lineNumber]
    OBVIOUS
  <2> HIDE DEF t, r
  <2>3. line.labels \in {ln.labels : ln \in {l \in Lines : l.kind = "metric"}}
    BY <1>1
  <2>4. r \in Single
    <3> DEFINE L == {ln.labels : ln \in {l \in Lines : l.kind = "metric"}}
    <3>1. Single = [name : Name, type : Scalar, labels : L, value : Nat]
      BY DEF Single
    <3>2. line.labels \in L
      BY <2>3
    <3> HIDE DEF L
    <3> QED BY <1>1, <1>2, <2>1, <2>2, <3>1, <3>2
  <2> QED BY <2>2, <2>4, SingleFields
<1> HIDE DEF r
<1>4. LinesOf(r) = {lineNumber}
  BY <1>3 DEF LinesOf
<1>5. /\ Found' = Append(Found, r) /\ Len(Found') = Len(Found) + 1
      /\ \A i \in 1..Len(Found) : Found'[i] = Found[i]
      /\ Found'[Len(Found) + 1] = r
  <2>1. Found' = Append(Found, r)
    BY <1>1 DEF Found, Flushed
  <2>2. r \in Metric
    BY <1>3 DEF Metric
  <2> QED BY <1>2, <2>1, <2>2
<1>6. ParserTypes'
  <2>1. text' \in Seq(Lines)
    BY <1>0, <1>1, TextGrows DEF ParserTypes
  <2>2. r \in Metric
    BY <1>3 DEF Metric
  <2>3. result' \in Seq(Metric)
    BY <1>1, <1>2, <2>2
  <2> QED BY <1>1, <2>1, <2>3 DEF ParserTypes
<1>7. DeclaredByLines' /\ SumAndCountBelong'
  <2>1. DeclaredByLines'
    BY <1>0, <1>1, DeclaredStays
  <2> QED BY <1>1, <2>1 DEF SumAndCountBelong
<1>8. \A i \in 1..Len(Found) : lineNumber \notin LinesOf(Found[i])
  BY <1>0, <1>2 DEF LinesHeldOnce
<1>9. \A i \in 1..Len(Found') : i \in 1..Len(Found) \/ i = Len(Found')
  BY <1>2, <1>5
<1>10. FoundGrows
  BY <1>2, <1>4, <1>5, <1>8, <1>9 DEF FoundGrows, SameMetric
<1>11. \A i \in 1..Len(Found') : ~(Found'[i].type \in Multi /\ lineNumber \in LinesOf(Found'[i]))
  BY <1>3, <1>5, <1>8, <1>9
<1>12. JoinsCurrent
  BY <1>11 DEF JoinsCurrent
<1>13. KeepsLines
  <2> SUFFICES ASSUME NEW i \in 1..Len(Found), Found[i].type \in Multi,
                      NEW k \in {Found[i].sum, Found[i].count} \ {NaN}
               PROVE  k \in Nat /\ k >= k /\ text'[k].name = text[k].name
    BY <1>5 DEF KeepsLines
  <2>1. k \in 1..Len(text)
    BY <1>0, LaterLine
  <2> QED BY <1>0, <1>1, <2>1, TextGrows DEF ParserTypes
<1>14. \E n \in {lineNumber} : Accounted(n)'
  <2>1. Len(Found') \in 1..Len(Found') /\ lineNumber \in LinesOf(Found'[Len(Found')])
    BY <1>2, <1>4, <1>5
  <2>2. \E n \in {lineNumber} : n = lineNumber /\ \E i \in 1..Len(Found') : n \in LinesOf(Found'[i])
    BY <2>1
  <2> QED BY <2>2 DEF Accounted, Holders
<1>15. ParserInv'
  BY <1>0, <1>1, <1>6, <1>7, <1>10, <1>11, <1>12, <1>13, <1>14, ReadStep
<1> QED BY <1>10, <1>15

LEMMA MultiStep ==
  ASSUME ParserInv, NEW line \in Lines, MultiSample(line)
  PROVE  ParserInv' /\ FoundGrows
<1> DEFINE k == lineNumber  n == Len(Found)
<1>0. ParserTypes /\ DeclaredByLines /\ LinesHeldOnce /\ SumAndCountBelong
  BY DEF ParserInv
<1>1. /\ outcome = "parsing" /\ text' = Append(text, line) /\ UNCHANGED <<options, typeMap>>
      /\ line.kind = "metric"
  BY DEF MultiSample, Read
<1>2. outcome' \in {"parsing", "failed"}
  BY <1>1 DEF MultiSample, Throw
<1>3. PICK m \in Gathered, type \in Multi, c \in Gathered :
        /\ currentMultiSample' = c
        /\ c.name = m.name /\ c.type = m.type /\ c.labels = m.labels
        /\ m.labels = Without(line.labels, BucketLabel(type))
        /\ Joins(m) \/ Opens(m)
        /\ Adds(line, type, m, c)
  BY <1>0, GatherStep
<1>4. /\ k = Len(text) + 1 /\ Len(text) \in Nat /\ k \in Nat /\ k # NaN
      /\ Found \in Seq(Metric) /\ n \in Nat /\ result \in Seq(Metric) /\ Len(result) \in Nat
      /\ Len(text') = k /\ text'[k] = line /\ \A j \in 1..Len(text) : text'[j] = text[j]
  <2>1. Len(text) \in Nat /\ Found \in Seq(Metric) /\ result \in Seq(Metric)
    BY <1>0, FoundMetrics DEF ParserTypes
  <2>2. /\ Len(text') = Len(text) + 1 /\ text'[Len(text) + 1] = line
        /\ \A j \in 1..Len(text) : text'[j] = text[j]
    BY <1>0, <1>1, TextGrows DEF ParserTypes
  <2> QED BY <2>1, <2>2 DEF lineNumber, NaN
<1>5. /\ c \in Metric /\ c # Null /\ currentMultiSample' # Null
      /\ c.type \in Multi /\ m.type \in Multi
  <2>1. c # Null
    BY ParserAssumption, Zenon
  <2>2. c \in Metric
    BY DEF Metric
  <2> QED BY <1>3, <2>1, <2>2, GatheredFields
<1>6. ParserTypes'
  <2>1. text' \in Seq(Lines)
    BY <1>0, <1>1, TextGrows DEF ParserTypes
  <2>2. result' \in Seq(Metric)
    BY <1>3, <1>4 DEF Joins, Opens
  <2> QED BY <1>3, <2>1, <2>2 DEF ParserTypes
<1>7. DeclaredByLines'
  BY <1>0, <1>1, DeclaredStays
<1>8. /\ Found' = Append(result', c)
      /\ Len(Found') = Len(result') + 1 /\ Found'[Len(Found')] = c
      /\ \A i \in 1..Len(result') : Found'[i] = result'[i]
  <2>1. Found' = Append(result', c)
    BY <1>3, <1>5, Zenon DEF Found, Flushed
  <2>2. result' \in Seq(Metric)
    BY <1>6 DEF ParserTypes
  <2> QED BY <1>5, <2>1, <2>2
<1>9. \A i \in 1..n : LinesOf(Found[i]) \subseteq 1..Len(text) /\ k \notin LinesOf(Found[i])
  BY <1>0, <1>4 DEF LinesHeldOnce
<1> HIDE DEF k, n
\* The metric the line comes to.
<1>10. Joins(m) =>
         /\ Found = Append(result, m) /\ n = Len(result) + 1 /\ Found[n] = m
         /\ result' = result /\ Len(Found') = n /\ n \in 1..n
         /\ \A i \in 1..n : i # n => Found'[i] = Found[i]
         /\ m = currentMultiSample /\ currentMultiSample # Null
  <2> SUFFICES ASSUME Joins(m) PROVE
         /\ Found = Append(result, m) /\ n = Len(result) + 1 /\ Found[n] = m
         /\ result' = result /\ Len(Found') = n /\ n \in 1..n
         /\ \A i \in 1..n : i # n => Found'[i] = Found[i]
         /\ m = currentMultiSample /\ currentMultiSample # Null
    OBVIOUS
  <2>1. m = currentMultiSample /\ currentMultiSample # Null /\ result' = result
    BY DEF Joins
  <2>2. /\ Found = Append(result, m) /\ n = Len(result) + 1 /\ Found[n] = m
        /\ \A i \in 1..Len(result) : Found[i] = result[i]
    BY <1>0, <2>1, FoundMetrics DEF n
  <2>3. \A i \in 1..n : i # n => i \in 1..Len(result)
    BY <1>4, <2>2
  <2> QED BY <1>4, <1>8, <2>1, <2>2, <2>3
<1>11. Opens(m) =>
         /\ Len(Found') = n + 1 /\ \A i \in 1..n : Found'[i] = Found[i]
         /\ LinesOf(m) = {} /\ m.sum = NaN /\ m.count = NaN
  <2> SUFFICES ASSUME Opens(m) PROVE
         /\ Len(Found') = n + 1 /\ \A i \in 1..n : Found'[i] = Found[i]
         /\ LinesOf(m) = {} /\ m.sum = NaN /\ m.count = NaN
    OBVIOUS
  <2>1. m.buckets = <<>> /\ m.sum = NaN /\ m.count = NaN /\ result' = Found
    BY DEF Opens
  <2>2. LinesOf(m) = {m.buckets[i][2] : i \in 1..Len(m.buckets)} \cup ({m.sum, m.count} \ {NaN})
    BY GatheredLines
  <2>3. 1..Len(m.buckets) = {}
    BY <2>1
  <2>4. LinesOf(m) = {}
    BY <2>1, <2>2, <2>3
  <2> QED BY <1>8, <2>1, <2>4 DEF n
\* What the line adds to it.
<1>12. m.sum \in Nat /\ m.count \in Nat /\ m.sum # k /\ m.count # k
  <2>1. m.sum \in Nat /\ m.count \in Nat
    BY GatheredFields
  <2>2. CASE Opens(m)
    BY <1>4, <1>11, <2>1, <2>2, GatheredFields
  <2>3. CASE Joins(m)
    <3>1. \A j \in {m.sum, m.count} : j # NaN => j \in LinesOf(m)
      BY GatheredLines
    <3> QED BY <1>4, <1>9, <1>10, <2>3, <3>1, GatheredFields
  <2> QED BY <1>3, <2>2, <2>3
<1>13. /\ c.sum = m.sum \/ (c.sum = k /\ line.name = m.name \o <<"sum">>)
       /\ c.count = m.count \/ (c.count = k /\ line.name = m.name \o <<"count">>)
  BY <1>3, Zenon DEF Adds, GathersBucket, GathersSum, GathersCount, k
<1>14. /\ LinesOf(c) \subseteq LinesOf(m) \cup {k}
       /\ \A j \in LinesOf(m) : \/ j \in LinesOf(c)
                                \/ j = m.sum /\ c.sum = k
                                \/ j = m.count /\ c.count = k
       /\ c = m \/ k \in LinesOf(c)
  <2>1. CASE c = m
    BY <2>1
  <2>2. CASE GathersBucket(m, c, k) \/ GathersSum(m, c, k) \/ GathersCount(m, c, k)
    <3>1. /\ k \in LinesOf(c)
          /\ LinesOf(c) \subseteq LinesOf(m) \cup {k}
          /\ \A j \in LinesOf(m) : \/ j \in LinesOf(c)
                                   \/ j = m.sum /\ GathersSum(m, c, k)
                                   \/ j = m.count /\ GathersCount(m, c, k)
      BY <1>4, <2>2, LinesGathered
    <3> QED BY <3>1 DEF GathersSum, GathersCount
  <2> QED BY <1>3, <2>1, <2>2, Zenon DEF Adds, k
<1>15. FoundGrows
  <2>1. /\ SameMetric(c, m) /\ \A l \in Metric : SameMetric(l, l)
    BY <1>3 DEF SameMetric
  <2>2. CASE Joins(m)
    <3>1. Len(Found') = n /\ Found'[n] = c /\ Found[n] = m
      BY <1>8, <1>10, <2>2
    <3>2. \A i \in 1..n : i = n \/ Found'[i] = Found[i]
      BY <1>10, <2>2
    <3>3. n # n + 1
      BY <1>4
    <3> QED BY <1>9, <1>14, <2>1, <3>1, <3>2, <3>3 DEF FoundGrows, SameMetric, k, n
  <2>3. CASE Opens(m)
    <3>1. /\ Len(Found') = n + 1 /\ Found'[n + 1] = c
          /\ \A i \in 1..n : Found'[i] = Found[i]
      BY <1>8, <1>11, <2>3
    <3>2. \A i \in 1..(n + 1) : i \in 1..n \/ i = n + 1
      BY <1>4
    <3>3. LinesOf(c) \subseteq {k}
      BY <1>11, <1>14, <2>3
    <3> QED BY <1>9, <3>1, <3>2, <3>3 DEF FoundGrows, SameMetric, k, n
  <2> QED BY <1>3, <2>2, <2>3
<1>16. JoinsCurrent
  <2>1. CASE Joins(m)
    BY <1>10, <2>1 DEF JoinsCurrent, n
  <2>2. CASE Opens(m)
    <3> SUFFICES ASSUME NEW j \in 1..Len(Found'), lineNumber \in LinesOf(Found'[j]),
                        currentMultiSample # Null,
                        currentMultiSample.name = Found'[j].name,
                        currentMultiSample.labels = Found'[j].labels
                 PROVE  FALSE
      BY DEF JoinsCurrent
    <3>1. Found'[j] = c
      BY <1>8, <1>15 DEF FoundGrows
    <3> QED BY <1>3, <2>2, <3>1 DEF Opens
  <2> QED BY <1>3, <2>1, <2>2
\* The sum and the count come from lines of their names.
<1>17. Joins(m) =>
         /\ m.sum # NaN =>
              /\ m.sum \in 1..Len(text) /\ text[m.sum].name = m.name \o <<"sum">>
              /\ text'[m.sum] = text[m.sum] /\ BelongsTo(m.sum, m, "sum")
         /\ m.count # NaN =>
              /\ m.count \in 1..Len(text) /\ text[m.count].name = m.name \o <<"count">>
              /\ text'[m.count] = text[m.count] /\ BelongsTo(m.count, m, "count")
  BY <1>0, <1>1, <1>10, CurrentBelongs
<1>18. SumAndCountBelong'
  <2>1. ASSUME c.sum # NaN PROVE BelongsTo(c.sum, c, "sum")'
    <3>1. CASE c.sum = k /\ line.name = m.name \o <<"sum">>
      BY <1>3, <1>4, <3>1 DEF BelongsTo
    <3>2. CASE c.sum = m.sum
      BY <1>3, <1>11, <1>17, <2>1, <3>2 DEF BelongsTo
    <3> QED BY <1>13, <3>1, <3>2
  <2>2. ASSUME c.count # NaN PROVE BelongsTo(c.count, c, "count")'
    <3>1. CASE c.count = k /\ line.name = m.name \o <<"count">>
      BY <1>3, <1>4, <3>1 DEF BelongsTo
    <3>2. CASE c.count = m.count
      BY <1>3, <1>11, <1>17, <2>2, <3>2 DEF BelongsTo
    <3> QED BY <1>13, <3>1, <3>2
  <2> QED BY <1>3, <2>1, <2>2 DEF SumAndCountBelong, BelongsTo
<1>19. KeepsLines
  <2>1. ASSUME Joins(m), NEW j \in LinesOf(m), j \notin LinesOf(c)
        PROVE  Superseded(j)'
    <3>1. j \in 1..Len(text)
      BY <1>9, <1>10, <2>1
    <3>2. \/ j = m.sum /\ c.sum = k /\ line.name = m.name \o <<"sum">>
             /\ BelongsTo(j, m, "sum")
          \/ j = m.count /\ c.count = k /\ line.name = m.name \o <<"count">>
             /\ BelongsTo(j, m, "count")
      <4>1. j # NaN
        BY <3>1 DEF NaN
      <4> QED BY <1>12, <1>13, <1>14, <1>17, <2>1, <4>1
    <3>3. /\ k \in {c.sum, c.count} /\ text'[k].name = text'[j].name
          /\ \E t \in Multi : m.labels = Without(text'[j].labels, BucketLabel(t))
      BY <1>4, <3>1, <3>2 DEF BelongsTo
    <3>4. k > j
      BY <1>4, <3>1
    <3>5. /\ Found'[Len(Found')] = c /\ Len(Found') \in 1..Len(Found')
      BY <1>4, <1>8, <1>10, <2>1
    <3> QED BY <1>3, <1>5, <3>3, <3>4, <3>5 DEF Superseded
  <2>2. ASSUME NEW i \in 1..n, Found[i].type \in Multi,
               NEW j \in {Found[i].sum, Found[i].count} \ {NaN}
        PROVE  \E l \in {Found'[i].sum, Found'[i].count} :
                 l \in Nat /\ l >= j /\ text'[l].name = text[j].name
    <3>1. j \in 1..Len(text)
      BY <1>0, <2>2, LaterLine DEF n
    <3>2. j \in Nat /\ j >= j /\ text'[j].name = text[j].name
      BY <1>4, <3>1
    <3>3. CASE Found'[i] = Found[i]
      BY <3>2, <3>3
    <3>4. CASE Joins(m) /\ i = n
      <4>1. Found[i] = m /\ Found'[i] = c
        BY <1>8, <1>10, <3>4
      <4>2. CASE j \in {c.sum, c.count}
        BY <3>2, <4>1, <4>2
      <4>3. CASE j \notin {c.sum, c.count}
        <5>1. k \in {c.sum, c.count} /\ line.name = text[j].name
          BY <1>13, <1>17, <2>2, <3>4, <4>1, <4>3
        <5>2. k >= j
          BY <1>4, <3>1
        <5> QED BY <1>4, <4>1, <5>1, <5>2
      <4> QED BY <4>2, <4>3
    <3> QED BY <1>3, <1>10, <1>11, <3>3, <3>4
  <2>3. ASSUME NEW i \in 1..n, NEW j \in LinesOf(Found[i])
        PROVE  j \in LinesOf(Found'[i]) \/ Superseded(j)'
    <3>1. CASE Found'[i] = Found[i]
      BY <3>1
    <3>2. CASE Joins(m) /\ i = n
      BY <1>8, <1>10, <2>1, <3>2
    <3> QED BY <1>3, <1>10, <1>11, <3>1, <3>2
  <2> QED BY <2>2, <2>3 DEF KeepsLines, n
\* The line is in a metric, or has no threshold.
<1>20. ASSUME outcome' = "parsing", options.failOnInvalidLine
       PROVE  \E j \in {lineNumber} : Accounted(j)'
  <2>1. CASE k \in LinesOf(c)
    <3>1. /\ Found'[Len(Found')] = c /\ Len(Found') \in 1..Len(Found')
      BY <1>4, <1>8, <1>10, <1>11, <1>3
    <3>2. \E j \in {k} : \E i \in 1..Len(Found') : j \in LinesOf(Found'[i])
      BY <2>1, <3>1
    <3> QED BY <3>2 DEF Accounted, Holders, k
  <2>2. CASE /\ line.name = m.name \o BucketSuffix(type)
             /\ m.name \in DOMAIN typeMap /\ typeMap[m.name] = type
             /\ BucketLabel(type) \notin DOMAIN line.labels
    <3>1. PICK d \in 1..Len(text) :
            text[d].kind = "type-info" /\ text[d].name = m.name /\ text[d].type = type
      BY <1>0, <2>2 DEF DeclaredByLines
    <3>2. d \in 1..(k - 1) /\ text'[d] = text[d] /\ text'[k] = line
      BY <1>4
    <3>3. \E j \in {k} : \E e \in 1..(j - 1) :
            /\ text'[e].kind = "type-info" /\ text'[e].type \in Multi
            /\ text'[j].name = text'[e].name \o BucketSuffix(text'[e].type)
            /\ BucketLabel(text'[e].type) \notin DOMAIN text'[j].labels
      BY <2>2, <3>1, <3>2
    <3> QED BY <3>3 DEF Accounted, WithoutThreshold, k, BucketSuffix, BucketLabel
  <2>3. ~Throw
    BY <1>20 DEF Throw
  <2>4. \/ k \in LinesOf(c)
        \/ /\ line.name = m.name \o BucketSuffix(type)
           /\ m.name \in DOMAIN typeMap /\ typeMap[m.name] = type
           /\ BucketLabel(type) \notin DOMAIN line.labels
    <3>1. CASE GathersBucket(m, c, k) \/ GathersSum(m, c, k) \/ GathersCount(m, c, k)
      BY <1>4, <3>1, LinesGathered
    <3> QED BY <1>3, <2>3, <3>1, Zenon DEF Adds, k
  <2> QED BY <2>1, <2>2, <2>4
<1>21. ParserInv'
  BY <1>0, <1>1, <1>2, <1>5, <1>6, <1>7, <1>15, <1>16, <1>18, <1>19, <1>20, ReadStep
<1> QED BY <1>15, <1>21

LEMMA DoneStep ==
  ASSUME ParserInv, Done
  PROVE  ParserInv'
<1>0. ParserTypes /\ DeclaredByLines /\ LinesHeldOnce /\ NoneIsLost /\ GroupsStayTogether
  BY DEF ParserInv
<1>1. /\ outcome' = "parsed" /\ outcome = "parsing" /\ result' = Found /\ currentMultiSample' = Null
      /\ UNCHANGED <<options, text, typeMap>>
  BY DEF Done, Found
<1>2. Found' = Found
  BY <1>1 DEF Found, Flushed
<1>3. ParserTypes'
  BY <1>0, <1>1, FoundMetrics DEF ParserTypes
<1>4. DeclaredByLines' /\ LinesHeldOnce' /\ GroupsStayTogether'
  <2>1. DeclaredByLines'
    BY <1>0, <1>1 DEF DeclaredByLines
  <2>2. LinesHeldOnce'
    BY <1>0, <1>1, <1>2 DEF LinesHeldOnce
  <2>3. GroupsStayTogether'
    BY <1>0, <1>1, <1>2 DEF GroupsStayTogether
  <2> QED BY <2>1, <2>2, <2>3
<1>5. LastLineIsGathered' /\ SumAndCountBelong'
  BY <1>1 DEF LastLineIsGathered, SumAndCountBelong
<1>6. \A n : Accounted(n)' = Accounted(n)
  BY <1>1, <1>2 DEF Accounted, Holders, Superseded, WithoutThreshold
<1>7. NoneIsLost'
  BY <1>0, <1>1, <1>6 DEF NoneIsLost
<1> QED BY <1>3, <1>4, <1>5, <1>7 DEF ParserInv

\* A step that leaves the parser alone.
LEMMA OtherStep ==
  ASSUME ParserInv, UNCHANGED parserVars
  PROVE  ParserInv'
<1>0. ParserTypes /\ DeclaredByLines /\ LinesHeldOnce /\ LastLineIsGathered
      /\ SumAndCountBelong /\ NoneIsLost /\ GroupsStayTogether
  BY DEF ParserInv
<1>1. UNCHANGED <<options, text, typeMap, currentMultiSample, result, outcome>>
  BY DEF parserVars
<1>2. Found' = Found
  BY <1>1 DEF Found, Flushed
<1>3. ParserTypes' /\ DeclaredByLines'
  BY <1>0, <1>1 DEF ParserTypes, DeclaredByLines
<1>4. LinesHeldOnce' /\ LastLineIsGathered' /\ GroupsStayTogether'
  <2>1. LinesHeldOnce'
    BY <1>0, <1>1, <1>2 DEF LinesHeldOnce
  <2>2. LastLineIsGathered'
    BY <1>0, <1>1, <1>2 DEF LastLineIsGathered
  <2>3. GroupsStayTogether'
    BY <1>0, <1>1, <1>2 DEF GroupsStayTogether
  <2> QED BY <2>1, <2>2, <2>3
<1>5. SumAndCountBelong'
  BY <1>0, <1>1 DEF SumAndCountBelong, BelongsTo
<1>6. \A n : Accounted(n)' = Accounted(n)
  BY <1>1, <1>2 DEF Accounted, Holders, Superseded, WithoutThreshold
<1>7. NoneIsLost'
  BY <1>0, <1>1, <1>6 DEF NoneIsLost
<1> QED BY <1>3, <1>4, <1>5, <1>7 DEF ParserInv

LEMMA ParserInitially ==
  ASSUME ParserInit
  PROVE  ParserInv
<1>1. text = <<>> /\ result = <<>> /\ currentMultiSample = Null /\ typeMap = <<>>
  BY DEF ParserInit
<1>2. Found = <<>> /\ Len(Found) = 0 /\ Len(text) = 0
  BY <1>1 DEF Found, Flushed
<1>3. ParserTypes
  BY <1>1 DEF ParserTypes
<1>4. DeclaredByLines
  BY <1>1 DEF DeclaredByLines
<1>5. LinesHeldOnce /\ LastLineIsGathered /\ GroupsStayTogether
  BY <1>2 DEF LinesHeldOnce, LastLineIsGathered, GroupsStayTogether
<1>6. SumAndCountBelong /\ NoneIsLost
  BY <1>1, <1>2 DEF SumAndCountBelong, NoneIsLost
<1> QED BY <1>3, <1>4, <1>5, <1>6 DEF ParserInv

LEMMA ParserInductive ==
  PipelineSpec => []ParserInv
<1>1. PipelineInit => ParserInv
  BY ParserInitially DEF PipelineInit, Init
<1>2. ParserInv /\ [PipelineNext]_<<vars, messageVars>> => ParserInv'
  <2> SUFFICES ASSUME ParserInv, [PipelineNext]_<<vars, messageVars>>
               PROVE  ParserInv'
    OBVIOUS
  <2>1. ASSUME NEW line \in Lines, ProcessLine(line)
        PROVE  ParserInv'
    BY <2>1, TypeInfoStep, OtherQuietStep, ScalarStep, MultiStep DEF ProcessLine
  <2>2. CASE Done
    BY <2>2, DoneStep
  <2>3. CASE Collapse \/ PushAll \/ UNCHANGED <<vars, messageVars>>
    <3>1. UNCHANGED parserVars
      BY <2>3 DEF Collapse, PushAll, vars
    <3> QED BY <3>1, OtherStep
  <2> QED BY <2>1, <2>2, <2>3 DEF PipelineNext, Next, Parse
<1> QED BY <1>1, <1>2, PTL DEF PipelineSpec
------------------------------------------------------------------------------
(***************************************************************************)
(* What the metrics say                                                    *)
(***************************************************************************)
\* Line k of text t has the name of metric m with that suffix, and its labels.
IsPartOf(k, m, suffix, t) ==
  t[k].name = m.name \o suffix /\ m.labels = Without(t[k].labels, BucketLabel(m.type))

\* The buckets are those of their lines, in the order of the text.
BucketsOfLines(m, t) ==
  /\ \A i \in 1..Len(m.buckets) :
       /\ IsPartOf(m.buckets[i][2], m, BucketSuffix(m.type), t)
       /\ BucketLabel(m.type) \in DOMAIN t[m.buckets[i][2]].labels
       /\ m.buckets[i][1] = t[m.buckets[i][2]].labels[BucketLabel(m.type)]
  /\ \A i, j \in 1..Len(m.buckets) : i < j => m.buckets[i][2] < m.buckets[j][2]

\* Metric m says what the lines it holds say.
Faithful(m, t) ==
  /\ m.type \in Scalar => m.labels = t[m.value].labels
  /\ m.type \in Multi =>
       /\ BucketsOfLines(m, t)
       /\ m.sum # NaN => IsPartOf(m.sum, m, <<"sum">>, t)
       /\ m.count # NaN => IsPartOf(m.count, m, <<"count">>, t)

\* The metrics are found in the order of the text.
LinesInOrder ==
  \A i, j \in 1..Len(Found) : i < j =>
    \A k \in LinesOf(Found[i]), l \in LinesOf(Found[j]) : k < l

\* Where a type is not declared twice, the metric being gathered has the type it was declared
\* with, and the metrics say what their lines say.
FaithfulInv ==
  /\ LinesInOrder
  /\ options.failOnDuplicateTypeInfo =>
       /\ currentMultiSample # Null =>
            /\ currentMultiSample.name \in DOMAIN typeMap
            /\ typeMap[currentMultiSample.name] = currentMultiSample.type
       /\ \A i \in 1..Len(Found) : Faithful(Found[i], text)

LEMMA FaithfulStays ==
  ASSUME NEW m \in Metric, NEW n \in Nat, LinesOf(m) \subseteq 1..n, NEW t, NEW u,
         \A k \in 1..n : u[k] = t[k], Faithful(m, t)
  PROVE  Faithful(m, u)
<1>1. CASE m \in Single
  <2>1. m.type \in Scalar /\ m.type \notin Multi /\ LinesOf(m) = {m.value}
    BY <1>1, SingleFields DEF LinesOf
  <2>2. u[m.value] = t[m.value]
    BY <2>1
  <2> QED BY <2>1, <2>2 DEF Faithful
<1>2. CASE m \in Gathered
  <2>1. m.type \in Multi /\ m.type \notin Scalar
    BY <1>2, GatheredFields
  <2>2. LinesOf(m) = {m.buckets[i][2] : i \in 1..Len(m.buckets)} \cup ({m.sum, m.count} \ {NaN})
    BY <1>2, GatheredLines
  <2>3. \A i \in 1..Len(m.buckets) : u[m.buckets[i][2]] = t[m.buckets[i][2]]
    BY <2>2
  <2>4. /\ m.sum # NaN => u[m.sum] = t[m.sum]
        /\ m.count # NaN => u[m.count] = t[m.count]
    BY <2>2
  <2>5. BucketsOfLines(m, u)
    <3>1. BucketsOfLines(m, t)
      BY <2>1 DEF Faithful
    <3> QED BY <2>3, <3>1 DEF BucketsOfLines, IsPartOf
  <2> QED BY <2>1, <2>4, <2>5 DEF Faithful, IsPartOf
<1> QED BY <1>1, <1>2 DEF Metric

\* A metric with one more part.
LEMMA FaithfulGrows ==
  ASSUME NEW m \in Gathered, NEW c \in Gathered,
         c.name = m.name, c.type = m.type, c.labels = m.labels,
         NEW k \in Nat, \A l \in LinesOf(m) : l < k, NEW t, Faithful(m, t),
         m.labels = Without(t[k].labels, BucketLabel(m.type)),
         \/ /\ c.sum = m.sum /\ c.count = m.count
            /\ t[k].name = m.name \o BucketSuffix(m.type)
            /\ BucketLabel(m.type) \in DOMAIN t[k].labels
            /\ c.buckets = Append(m.buckets, <<t[k].labels[BucketLabel(m.type)], k>>)
         \/ GathersSum(m, c, k) /\ t[k].name = m.name \o <<"sum">>
         \/ GathersCount(m, c, k) /\ t[k].name = m.name \o <<"count">>
         \/ c = m
  PROVE  Faithful(c, t)
<1>1. /\ m.type \in Multi /\ m.type \notin Scalar /\ m.buckets \in Seq(Part)
      /\ Len(m.buckets) \in Nat
  BY GatheredFields
<1>2. LinesOf(m) = {m.buckets[i][2] : i \in 1..Len(m.buckets)} \cup ({m.sum, m.count} \ {NaN})
  BY GatheredLines
<1>3. /\ BucketsOfLines(m, t)
      /\ m.sum # NaN => IsPartOf(m.sum, m, <<"sum">>, t)
      /\ m.count # NaN => IsPartOf(m.count, m, <<"count">>, t)
  BY <1>1 DEF Faithful
<1>4. \A l, suffix : IsPartOf(l, m, suffix, t) => IsPartOf(l, c, suffix, t)
  BY DEF IsPartOf
<1>5. \A suffix : t[k].name = m.name \o suffix => IsPartOf(k, c, suffix, t)
  BY DEF IsPartOf
<1>6. c.buckets = m.buckets => BucketsOfLines(c, t)
  BY <1>3, <1>4 DEF BucketsOfLines
<1>7. CASE /\ c.sum = m.sum /\ c.count = m.count
           /\ t[k].name = m.name \o BucketSuffix(m.type)
           /\ BucketLabel(m.type) \in DOMAIN t[k].labels
           /\ c.buckets = Append(m.buckets, <<t[k].labels[BucketLabel(m.type)], k>>)
  <2> DEFINE n == Len(m.buckets)  v == t[k].labels[BucketLabel(m.type)]
  <2>1. PICK b : b = <<v, k>>
    OBVIOUS
  <2>2. b[1] = v /\ b[2] = k
    BY <2>1
  <2>3. /\ Len(c.buckets) = n + 1 /\ c.buckets[n + 1] = b
        /\ \A i \in 1..n : c.buckets[i] = m.buckets[i]
    <3>1. m.buckets \in Seq(Part \cup {b}) /\ b \in Part \cup {b}
      BY <1>1
    <3>2. c.buckets = Append(m.buckets, b)
      BY <1>7, <2>1, Zenon
    <3> HIDE DEF v
    <3> QED BY <3>1, <3>2
  <2>4. \A i \in 1..(n + 1) : i \in 1..n \/ i = n + 1
    BY <1>1
  <2>5. \A i \in 1..n : m.buckets[i][2] < k
    BY <1>2
  <2> HIDE DEF n, v
  <2>6. ASSUME NEW i \in 1..Len(c.buckets)
        PROVE  /\ IsPartOf(c.buckets[i][2], c, BucketSuffix(c.type), t)
               /\ BucketLabel(c.type) \in DOMAIN t[c.buckets[i][2]].labels
               /\ c.buckets[i][1] = t[c.buckets[i][2]].labels[BucketLabel(c.type)]
    <3>1. CASE i \in 1..n
      BY <1>3, <1>4, <2>3, <3>1 DEF BucketsOfLines, n
    <3>2. CASE i = n + 1
      BY <1>5, <1>7, <2>2, <2>3, <3>2 DEF v
    <3> QED BY <2>3, <2>4, <3>1, <3>2
  <2>7. ASSUME NEW i \in 1..Len(c.buckets), NEW j \in 1..Len(c.buckets), i < j
        PROVE  c.buckets[i][2] < c.buckets[j][2]
    <3>1. i \in 1..n
      BY <1>1, <2>3, <2>7 DEF n
    <3>2. CASE j \in 1..n
      BY <1>3, <2>3, <2>7, <3>1, <3>2 DEF BucketsOfLines, n
    <3>3. CASE j = n + 1
      BY <2>2, <2>3, <2>5, <3>1, <3>3
    <3> QED BY <2>3, <2>4, <3>2, <3>3
  <2>8. BucketsOfLines(c, t)
    BY <2>6, <2>7 DEF BucketsOfLines
  <2> QED BY <1>1, <1>3, <1>4, <1>7, <2>8 DEF Faithful
<1>8. CASE GathersSum(m, c, k) /\ t[k].name = m.name \o <<"sum">>
  BY <1>1, <1>3, <1>4, <1>5, <1>6, <1>8 DEF Faithful, GathersSum
<1>9. CASE GathersCount(m, c, k) /\ t[k].name = m.name \o <<"count">>
  BY <1>1, <1>3, <1>4, <1>5, <1>6, <1>9 DEF Faithful, GathersCount
<1> QED BY <1>7, <1>8, <1>9

LEMMA OrderStep ==
  ASSUME ParserInv, LinesInOrder, FoundGrows
  PROVE  LinesInOrder'
<1> DEFINE n == Len(Found)
<1>1. n \in Nat /\ Len(text) \in Nat /\ lineNumber = Len(text) + 1
  BY FoundMetrics DEF ParserInv, ParserTypes, lineNumber
<1>2. \A i \in 1..n : LinesOf(Found[i]) \subseteq 1..Len(text)
  BY DEF ParserInv, LinesHeldOnce
<1> SUFFICES ASSUME NEW i \in 1..Len(Found'), NEW j \in 1..Len(Found'), i < j,
                    NEW k \in LinesOf(Found'[i]), NEW l \in LinesOf(Found'[j])
             PROVE  k < l
  BY DEF LinesInOrder
<1>3. Len(Found') \in {n, n + 1}
      /\ \A h \in 1..Len(Found') : h \in 1..n \/ (h = n + 1 /\ h = Len(Found') /\ Len(Found') = n + 1)
  BY <1>1 DEF FoundGrows
<1>4. ASSUME NEW h \in 1..Len(Found'), NEW e \in LinesOf(Found'[h]), e # lineNumber
      PROVE  h \in 1..n /\ e \in LinesOf(Found[h])
  BY <1>3, <1>4 DEF FoundGrows
<1>5. k # lineNumber
  BY <1>1, <1>3 DEF FoundGrows
<1>6. i \in 1..n /\ k \in LinesOf(Found[i]) /\ k \in 1..Len(text)
  BY <1>2, <1>4, <1>5
<1>7. CASE l = lineNumber
  BY <1>1, <1>6, <1>7
<1>8. CASE l # lineNumber
  <2>1. j \in 1..n /\ l \in LinesOf(Found[j])
    BY <1>4, <1>8
  <2> QED BY <1>6, <2>1 DEF LinesInOrder
<1> QED BY <1>7, <1>8

LEMMA FoundStaysFaithful ==
  ASSUME ParserInv, FaithfulInv, options.failOnDuplicateTypeInfo,
         NEW line \in Lines, text' = Append(text, line), NEW i \in 1..Len(Found)
  PROVE  Faithful(Found[i], text')
<1>1. ParserTypes /\ LinesHeldOnce
  BY DEF ParserInv
<1>2. Len(text) \in Nat /\ \A k \in 1..Len(text) : text'[k] = text[k]
  BY <1>1, TextGrows DEF ParserTypes
<1>3. Found[i] \in Metric /\ LinesOf(Found[i]) \subseteq 1..Len(text)
  BY <1>1, FoundMetrics DEF LinesHeldOnce
<1>4. Faithful(Found[i], text)
  BY DEF FaithfulInv
<1>5. PICK m, n, u : m = Found[i] /\ n = Len(text) /\ u = text'
  OBVIOUS
<1>6. m \in Metric /\ n \in Nat /\ LinesOf(m) \subseteq 1..n /\ Faithful(m, text) /\ \A k \in 1..n : u[k] = text[k]
  BY <1>2, <1>3, <1>4, <1>5
<1>7. Faithful(m, u)
  BY <1>6, FaithfulStays
<1> QED BY <1>5, <1>7

\* Types stay as they were declared.
TypesStay ==
  \A name \in DOMAIN typeMap : name \in DOMAIN typeMap' /\ typeMap'[name] = typeMap[name]

LEMMA QuietFaithful ==
  ASSUME ParserInv, FaithfulInv, FoundGrows, NEW line \in Lines, text' = Append(text, line),
         UNCHANGED <<options, currentMultiSample, result>>,
         options.failOnDuplicateTypeInfo => TypesStay
  PROVE  FaithfulInv'
<1>1. LinesInOrder'
  BY OrderStep DEF FaithfulInv
<1>2. Found' = Found
  BY DEF Found, Flushed
<1>3. ASSUME options.failOnDuplicateTypeInfo, NEW i \in 1..Len(Found)
      PROVE  Faithful(Found[i], text')
  BY <1>3, FoundStaysFaithful
<1> QED BY <1>1, <1>2, <1>3 DEF FaithfulInv, TypesStay

LEMMA TypeInfoFaithful ==
  ASSUME ParserInv, FaithfulInv, NEW line \in Lines, TypeInfo(line)
  PROVE  FaithfulInv'
<1>1. /\ text' = Append(text, line) /\ UNCHANGED <<options, currentMultiSample, result>>
      /\ \/ typeMap' = typeMap
         \/ /\ typeMap' = Put(typeMap, line.name, line.type)
            /\ ~(line.name \in DOMAIN typeMap /\ options.failOnDuplicateTypeInfo)
  BY DEF TypeInfo, Read
<1>2. options.failOnDuplicateTypeInfo => TypesStay
  BY <1>1 DEF TypesStay, Put
<1>3. FoundGrows
  BY TypeInfoStep
<1> QED BY <1>1, <1>2, <1>3, QuietFaithful

LEMMA OtherQuietFaithful ==
  ASSUME ParserInv, FaithfulInv, NEW line \in Lines,
         InvalidLine(line) \/ Help(line) \/ SampleWithoutType(line)
  PROVE  FaithfulInv'
<1>1. /\ text' = Append(text, line) /\ UNCHANGED <<options, currentMultiSample, result>>
      /\ typeMap' = typeMap
  BY DEF InvalidLine, Help, SampleWithoutType, Read
<1>2. TypesStay
  BY <1>1 DEF TypesStay
<1>3. FoundGrows
  BY OtherQuietStep
<1> QED BY <1>1, <1>2, <1>3, QuietFaithful

LEMMA ScalarFaithful ==
  ASSUME ParserInv, FaithfulInv, NEW line \in Lines, ScalarSample(line)
  PROVE  FaithfulInv'
<1>1. FoundGrows
  BY ScalarStep
<1>2. LinesInOrder'
  BY <1>1, OrderStep DEF FaithfulInv
<1>3. PICK r : /\ text' = Append(text, line) /\ options' = options /\ currentMultiSample' = Null
               /\ r.labels = line.labels /\ r.value = lineNumber /\ r.type \notin Multi
               /\ result' = Append(Found, r)
  <2> DEFINE type == TypeOf(Owner(line.name))
             t == IF type = Null THEN "untyped" ELSE type
             r == [name |-> line.name, type |-> t, labels |-> line.labels, value |-> lineNumber]
  <2>1. /\ text' = Append(text, line) /\ options' = options /\ currentMultiSample' = Null
        /\ result' = Append(Found, r) /\ (type \in Scalar \/ type = Null)
    BY DEF ScalarSample, Read, Found
  <2>2. t \notin Multi
    BY <2>1 DEF Scalar, Multi
  <2>3. r.labels = line.labels /\ r.value = lineNumber /\ r.type = t
    OBVIOUS
  <2> HIDE DEF r, t
  <2> QED BY <2>1, <2>2, <2>3
<1>4. /\ Found \in Seq(Metric) /\ Len(Found) \in Nat /\ lineNumber = Len(text) + 1
      /\ text'[lineNumber] = line
  BY <1>3, FoundMetrics, TextGrows DEF ParserInv, ParserTypes, lineNumber
<1>5. /\ Len(Found') = Len(Found) + 1 /\ Found'[Len(Found) + 1] = r
      /\ \A i \in 1..Len(Found) : Found'[i] = Found[i]
  <2>1. Found' = Append(Found, r)
    BY <1>3 DEF Found, Flushed
  <2>2. Found \in Seq(Metric \cup {r}) /\ r \in Metric \cup {r}
    BY <1>4
  <2> QED BY <2>1, <2>2
<1>6. Faithful(r, text')
  BY <1>3, <1>4 DEF Faithful
<1>7. ASSUME options.failOnDuplicateTypeInfo, NEW i \in 1..Len(Found')
      PROVE  Faithful(Found'[i], text')
  <2>1. CASE i \in 1..Len(Found)
    BY <1>3, <1>5, <1>7, <2>1, FoundStaysFaithful
  <2>2. CASE i = Len(Found) + 1
    BY <1>5, <1>6, <2>2
  <2> QED BY <1>4, <1>5, <2>1, <2>2
<1> QED BY <1>2, <1>3, <1>7 DEF FaithfulInv

LEMMA MultiFaithful ==
  ASSUME ParserInv, FaithfulInv, NEW line \in Lines, MultiSample(line)
  PROVE  FaithfulInv'
<1> DEFINE k == lineNumber
<1>0. ParserTypes /\ DeclaredByLines /\ LinesHeldOnce
  BY DEF ParserInv
<1>1. FoundGrows /\ LinesInOrder'
  BY MultiStep, OrderStep DEF FaithfulInv
<1>2. text' = Append(text, line) /\ UNCHANGED <<options, typeMap>>
  BY DEF MultiSample, Read
<1> SUFFICES ASSUME options.failOnDuplicateTypeInfo
             PROVE  /\ currentMultiSample' # Null =>
                         /\ currentMultiSample'.name \in DOMAIN typeMap
                         /\ typeMap[currentMultiSample'.name] = currentMultiSample'.type
                    /\ \A i \in 1..Len(Found') : Faithful(Found'[i], text')
  BY <1>1, <1>2 DEF FaithfulInv
<1>3. PICK m \in Gathered, type \in Multi, c \in Gathered :
        /\ currentMultiSample' = c
        /\ c.name = m.name /\ c.type = m.type /\ c.labels = m.labels
        /\ m.labels = Without(line.labels, BucketLabel(type))
        /\ m.name \in DOMAIN typeMap /\ typeMap[m.name] = type
        /\ Joins(m) \/ (Opens(m) /\ m.type = type)
        /\ Adds(line, type, m, c)
  BY <1>0, GatherStep
<1>4. /\ Len(text) \in Nat /\ k = Len(text) + 1 /\ k \in Nat /\ k # NaN
      /\ text'[k] = line /\ Found \in Seq(Metric) /\ Len(Found) \in Nat
      /\ result \in Seq(Metric) /\ Len(result) \in Nat
  BY <1>0, <1>2, FoundMetrics, TextGrows DEF ParserTypes, lineNumber, NaN
<1>5. m.type = type
  <2>1. CASE Joins(m)
    BY <1>3, <2>1 DEF Joins, FaithfulInv
  <2> QED BY <1>3, <2>1
\* The metric gathered before the line.
<1>6. Faithful(m, text') /\ \A l \in LinesOf(m) : l < k
  <2>1. CASE Joins(m)
    <3>1. Len(Found) \in 1..Len(Found) /\ Found[Len(Found)] = m
      BY <1>0, <1>4, <2>1, FoundMetrics DEF Joins
    <3>2. LinesOf(m) \subseteq 1..Len(text)
      BY <1>0, <3>1 DEF LinesHeldOnce
    <3>3. Faithful(m, text')
      BY <1>2, <3>1, FoundStaysFaithful
    <3> QED BY <1>4, <3>2, <3>3
  <2>2. CASE Opens(m)
    <3>1. m.buckets = <<>> /\ m.sum = NaN /\ m.count = NaN
      BY <2>2 DEF Opens
    <3>2. 1..Len(m.buckets) = {}
      BY <3>1
    <3>3. LinesOf(m) = {}
      BY <3>1, <3>2, GatheredLines
    <3>4. m.type \notin Scalar
      BY GatheredFields
    <3> QED BY <3>1, <3>2, <3>3, <3>4 DEF Faithful, BucketsOfLines
  <2> QED BY <1>3, <2>1, <2>2
<1>7. Faithful(c, text')
  <2>1. PICK t : t = text'
    OBVIOUS
  <2>2. \/ /\ c.sum = m.sum /\ c.count = m.count
           /\ t[k].name = m.name \o BucketSuffix(m.type)
           /\ BucketLabel(m.type) \in DOMAIN t[k].labels
           /\ c.buckets = Append(m.buckets, <<t[k].labels[BucketLabel(m.type)], k>>)
        \/ GathersSum(m, c, k) /\ t[k].name = m.name \o <<"sum">>
        \/ GathersCount(m, c, k) /\ t[k].name = m.name \o <<"count">>
        \/ c = m
    <3>1. t[k] = line
      BY <1>4, <2>1
    <3> HIDE DEF k
    <3>2. GathersBucket(m, c, k) => c.sum = m.sum /\ c.count = m.count
      BY DEF GathersBucket
    <3> QED BY <1>3, <1>5, <3>1, <3>2, Zenon DEF Adds, IsBucketOf, k
  <2>3. /\ c.name = m.name /\ c.type = m.type /\ c.labels = m.labels
        /\ m.labels = Without(t[k].labels, BucketLabel(m.type))
        /\ Faithful(m, t) /\ \A l \in LinesOf(m) : l < k
    BY <1>3, <1>4, <1>5, <1>6, <2>1
  <2> HIDE DEF k
  <2>4. Faithful(c, t)
    BY <1>4, <2>2, <2>3, FaithfulGrows
  <2> QED BY <2>1, <2>4
<1>8. \A i \in 1..Len(Found') : Found'[i] = c \/ (i \in 1..Len(Found) /\ Found'[i] = Found[i])
  <2>1. c # Null /\ c \in Metric
    BY ParserAssumption, Zenon DEF Metric
  <2>2. result' \in Seq(Metric)
    BY <1>3, <1>4 DEF Joins, Opens
  <2>3. Found' = Append(result', c)
    BY <1>3, <2>1, Zenon DEF Found, Flushed
  <2>4. /\ Len(Found') = Len(result') + 1 /\ Found'[Len(result') + 1] = c
        /\ \A i \in 1..Len(result') : Found'[i] = result'[i]
    BY <2>1, <2>2, <2>3
  <2>5. \A i \in 1..Len(result') : i \in 1..Len(Found) /\ result'[i] = Found[i]
    <3>1. CASE Joins(m)
      BY <1>0, <1>4, <3>1, FoundMetrics DEF Joins
    <3>2. CASE Opens(m)
      BY <3>2 DEF Opens
    <3> QED BY <1>3, <3>1, <3>2
  <2>6. \A i \in 1..Len(Found') : i \in 1..Len(result') \/ i = Len(result') + 1
    BY <2>2, <2>4
  <2> QED BY <2>4, <2>5, <2>6
<1>9. ASSUME NEW i \in 1..Len(Found') PROVE Faithful(Found'[i], text')
  <2>1. CASE i \in 1..Len(Found) /\ Found'[i] = Found[i]
    BY <1>2, <2>1, FoundStaysFaithful
  <2> QED BY <1>7, <1>8, <2>1
<1> QED BY <1>3, <1>5, <1>9

\* Steps that read no line.
LEMMA OtherFaithful ==
  ASSUME FaithfulInv, Done \/ UNCHANGED parserVars
  PROVE  FaithfulInv'
<1>1. UNCHANGED <<options, text, typeMap>>
      /\ (currentMultiSample' = Null \/ currentMultiSample' = currentMultiSample)
  BY DEF Done, parserVars
<1>2. Found' = Found
  BY DEF Done, parserVars, Found, Flushed
<1> QED BY <1>1, <1>2 DEF FaithfulInv, LinesInOrder

\* Whatever the text, if a type is not declared twice the metrics have the names and labels of
\* the lines they hold, with their buckets in order, and are found in the order of the text
\* (parser/index.ts:73-80, 126-190, 197-246).
THEOREM MetricsAreFaithful == PipelineSpec => []FaithfulInv
<1>1. PipelineInit => FaithfulInv
  <2> SUFFICES ASSUME PipelineInit PROVE FaithfulInv
    OBVIOUS
  <2>1. currentMultiSample = Null /\ result = <<>>
    BY DEF PipelineInit, Init, ParserInit
  <2>2. Found = <<>> /\ 1..Len(Found) = {}
    BY <2>1 DEF Found, Flushed
  <2> QED BY <2>1, <2>2 DEF FaithfulInv, LinesInOrder
<1>2. ParserInv /\ FaithfulInv /\ [PipelineNext]_<<vars, messageVars>> => FaithfulInv'
  <2> SUFFICES ASSUME ParserInv, FaithfulInv, [PipelineNext]_<<vars, messageVars>>
               PROVE  FaithfulInv'
    OBVIOUS
  <2>1. ASSUME NEW line \in Lines, ProcessLine(line)
        PROVE  FaithfulInv'
    BY <2>1, TypeInfoFaithful, OtherQuietFaithful, ScalarFaithful, MultiFaithful DEF ProcessLine
  <2>2. CASE Collapse \/ PushAll \/ UNCHANGED <<vars, messageVars>>
    <3>1. UNCHANGED parserVars
      BY <2>2 DEF Collapse, PushAll, vars
    <3> QED BY <3>1, OtherFaithful
  <2> QED BY <2>1, <2>2, OtherFaithful DEF PipelineNext, Next, Parse
<1> QED BY <1>1, <1>2, ParserInductive, PTL DEF PipelineSpec
------------------------------------------------------------------------------
(***************************************************************************)
(* Flattened sequences                                                     *)
(***************************************************************************)
LEMMA LeastNatural ==
  ASSUME NEW S, S \subseteq Nat, S # {}
  PROVE  \E n \in S : \A m \in S : ~(m < n)
<1>1. \E x \in S : \A y \in S : ~ (<<y, x>> \in OpToRel(<, Nat))
  BY NatLessThanWellFounded, WFMin
<1> QED BY <1>1 DEF OpToRel

\* Induction, of a property given as the set of the numbers that have it.
LEMMA SetInduction ==
  ASSUME NEW S, 0 \in S, \A n \in Nat : n \in S => n + 1 \in S
  PROVE  Nat \subseteq S
<1> SUFFICES ASSUME Nat \ S # {} PROVE FALSE
  OBVIOUS
<1>1. PICK n \in Nat \ S : \A m \in Nat \ S : ~(m < n)
  BY LeastNatural
<1>2. n - 1 \in Nat
  BY <1>1
<1> QED BY <1>1, <1>2

\* f is what FlattenSeq computes with, for the first n sequences.
Joined(f, seqs, n) ==
  f = [i \in 1..n |-> IF i = 1 THEN seqs[i] ELSE f[i - 1] \o seqs[i]]

\* The recursion in FlattenSeq has a solution.
LEMMA JoinedExists ==
  ASSUME NEW seqs, NEW n \in Nat
  PROVE  \E f : Joined(f, seqs, n)
<1> DEFINE S == {k \in Nat : \E f : Joined(f, seqs, k)}
<1>1. 0 \in S
  <2>1. Joined(<<>>, seqs, 0)
    BY DEF Joined
  <2> QED BY <2>1
<1>2. ASSUME NEW k \in Nat, k \in S PROVE k + 1 \in S
  <2>1. PICK f : Joined(f, seqs, k)
    BY <1>2
  <2> DEFINE next(g, i) == IF i = 1 THEN seqs[i] ELSE g[i - 1] \o seqs[i]
             h == [i \in 1..(k + 1) |-> IF i = k + 1 THEN next(f, i) ELSE f[i]]
  <2>2. \A i \in 1..k : h[i] = f[i]
    OBVIOUS
  <2>3. \A i \in 1..(k + 1) : h[i] = next(h, i)
    <3> SUFFICES ASSUME NEW i \in 1..(k + 1) PROVE h[i] = next(h, i)
      BY Zenon
    <3>1. i = 1 \/ i - 1 \in 1..k
      OBVIOUS
    <3>2. next(h, i) = next(f, i)
      BY <2>2, <3>1
    <3>3. CASE i = k + 1
      BY <3>2, <3>3
    <3>4. CASE i \in 1..k
      <4>1. f[i] = next(f, i)
        BY <2>1, <3>4 DEF Joined
      <4> QED BY <2>2, <3>2, <3>4, <4>1
    <3> QED BY <3>3, <3>4
  <2>4. h = [i \in 1..(k + 1) |-> next(h, i)]
    <3>1. h = [i \in 1..(k + 1) |-> h[i]]
      BY Zenon
    <3> QED BY <2>3, <3>1, Zenon
  <2>5. Joined(h, seqs, k + 1)
    BY <2>4, Zenon DEF Joined
  <2> QED BY <2>5
<1>3. n \in S
  <2> HIDE DEF S
  <2> QED BY <1>1, <1>2, SetInduction
<1> QED BY <1>3

LEMMA ConcatRange ==
  ASSUME NEW S, NEW s \in Seq(S), NEW t \in Seq(S)
  PROVE  s \o t \in Seq(S) /\ Range(s \o t) = Range(s) \cup Range(t)
<1>1. /\ s \o t \in Seq(S) /\ Len(s) \in Nat /\ Len(t) \in Nat
      /\ DOMAIN s = 1..Len(s) /\ DOMAIN t = 1..Len(t)
      /\ DOMAIN (s \o t) = 1..(Len(s) + Len(t))
  OBVIOUS
<1>2. /\ \A i \in 1..Len(s) : (s \o t)[i] = s[i] /\ i \in 1..(Len(s) + Len(t))
      /\ \A i \in 1..Len(t) : (s \o t)[Len(s) + i] = t[i] /\ Len(s) + i \in 1..(Len(s) + Len(t))
  BY <1>1
<1>3. \A i \in 1..(Len(s) + Len(t)) : i \in 1..Len(s) \/ i - Len(s) \in 1..Len(t)
  BY <1>1
<1>4. \A i \in 1..(Len(s) + Len(t)) : i \in 1..Len(s) \/ (s \o t)[i] = t[i - Len(s)]
  BY <1>1
<1>5. Range(s \o t) \subseteq Range(s) \cup Range(t)
  BY <1>1, <1>2, <1>3, <1>4 DEF Range
<1>6. Range(s) \subseteq Range(s \o t)
  BY <1>1, <1>2 DEF Range
<1>7. Range(t) \subseteq Range(s \o t)
  BY <1>1, <1>2 DEF Range
<1> QED BY <1>1, <1>5, <1>6, <1>7

\* What FlattenSeq computes is made of what the sequences are made of.
FlattenedBy(f, S, seqs) ==
  /\ FlattenSeq(seqs) = f[Len(seqs)]
  /\ \A k \in 1..Len(seqs) :
       /\ f[k] = IF k = 1 THEN seqs[k] ELSE f[k - 1] \o seqs[k]
       /\ f[k] \in Seq(S)
       /\ Range(f[k]) = UNION {Range(seqs[i]) : i \in 1..k}

LEMMA FlattenPrefixes ==
  ASSUME NEW S, NEW seqs \in Seq(Seq(S)), Len(seqs) # 0
  PROVE  \E f : FlattenedBy(f, S, seqs)
<1> DEFINE n == Len(seqs)
           U(k) == UNION {Range(seqs[i]) : i \in 1..k}
           f == CHOOSE g : Joined(g, seqs, n)
<1>1. n \in Nat /\ \A i \in 1..n : seqs[i] \in Seq(S)
  OBVIOUS
<1>2. Joined(f, seqs, n)
  BY <1>1, JoinedExists
<1>3. FlattenSeq(seqs) = f[n]
  BY DEF FlattenSeq, Joined
<1>4. \A k \in 1..n : f[k] = IF k = 1 THEN seqs[k] ELSE f[k - 1] \o seqs[k]
  BY <1>2 DEF Joined
<1> HIDE DEF f
<1> DEFINE good(k) == f[k] \in Seq(S) /\ Range(f[k]) = U(k)
           T == {k \in Nat : k \in 1..n => good(k)}
<1>5. 0 \in T
  OBVIOUS
<1>6. ASSUME NEW k \in Nat, k \in T PROVE k + 1 \in T
  <2> SUFFICES ASSUME k + 1 \in 1..n PROVE good(k + 1)
    OBVIOUS
  <2>1. CASE k = 0
    <3>1. f[1] = seqs[1] /\ U(1) = Range(seqs[1])
      BY <1>1, <1>4, <2>1
    <3>2. seqs[1] \in Seq(S)
      BY <1>1, <2>1
    <3> HIDE DEF U
    <3> QED BY <2>1, <3>1, <3>2
  <2>2. CASE k # 0
    <3>1. k \in 1..n /\ k + 1 # 1 /\ (k + 1) - 1 = k
      BY <2>2
    <3>2. f[k + 1] = f[k] \o seqs[k + 1]
      BY <1>4, <3>1
    <3>3. good(k)
      BY <1>6, <3>1
    <3>4. seqs[k + 1] \in Seq(S)
      BY <1>1
    <3>5. U(k + 1) = U(k) \cup Range(seqs[k + 1])
      <4>1. \A i \in 1..(k + 1) : i \in 1..k \/ i = k + 1
        OBVIOUS
      <4>2. 1..k \subseteq 1..(k + 1) /\ k + 1 \in 1..(k + 1)
        OBVIOUS
      <4> QED BY <4>1, <4>2, Zenon
    <3> HIDE DEF U
    <3>6. f[k] \o seqs[k + 1] \in Seq(S)
          /\ Range(f[k] \o seqs[k + 1]) = Range(f[k]) \cup Range(seqs[k + 1])
      BY <3>3, <3>4, ConcatRange
    <3> QED BY <3>2, <3>3, <3>5, <3>6
  <2> QED BY <2>1, <2>2
<1>7. Nat \subseteq T
  <2> HIDE DEF T
  <2> QED BY <1>5, <1>6, SetInduction
<1>8. ASSUME NEW k \in 1..n PROVE good(k)
  <2> HIDE DEF good
  <2>1. k \in Nat
    BY <1>1
  <2> QED BY <1>7, <2>1
<1>9. FlattenedBy(f, S, seqs)
  BY <1>3, <1>4, <1>8 DEF FlattenedBy
<1> QED BY <1>9

\* What a sequence of sequences is made of remains when it is flattened.
LEMMA FlattenRange ==
  ASSUME NEW S, NEW seqs \in Seq(Seq(S))
  PROVE  /\ FlattenSeq(seqs) \in Seq(S)
         /\ Range(FlattenSeq(seqs)) = UNION {Range(seqs[i]) : i \in 1..Len(seqs)}
<1>1. Len(seqs) \in Nat
  OBVIOUS
<1>2. CASE Len(seqs) = 0
  <2>1. seqs = <<>> /\ FlattenSeq(seqs) = <<>>
    BY <1>2 DEF FlattenSeq
  <2>2. <<>> \in Seq(S) /\ Range(<<>>) = {}
    BY DEF Range
  <2>3. 1..Len(seqs) = {}
    BY <1>2
  <2>4. UNION {Range(seqs[i]) : i \in 1..Len(seqs)} = {}
    BY <2>3
  <2> QED BY <2>1, <2>2, <2>4
<1>3. CASE Len(seqs) # 0
  <2>1. Len(seqs) \in 1..Len(seqs)
    BY <1>1, <1>3
  <2>2. PICK f : FlattenedBy(f, S, seqs)
    BY <1>3, FlattenPrefixes
  <2> QED BY <2>1, <2>2 DEF FlattenedBy
<1> QED BY <1>2, <1>3

\* What comes later in s is related by R to what comes earlier.
InOrder(s, R) == \A p, q \in 1..Len(s) : p <= q => <<s[p], s[q]>> \in R

LEMMA ConcatOrder ==
  ASSUME NEW S, NEW R, NEW s \in Seq(S), NEW t \in Seq(S), InOrder(s, R), InOrder(t, R),
         \A x \in Range(s), y \in Range(t) : <<x, y>> \in R
  PROVE  InOrder(s \o t, R)
<1> DEFINE c == s \o t
<1>1. /\ Len(s) \in Nat /\ Len(t) \in Nat /\ Len(c) = Len(s) + Len(t)
      /\ \A i \in 1..Len(s) : c[i] = s[i]
      /\ \A i \in 1..Len(c) : i > Len(s) => c[i] = t[i - Len(s)] /\ i - Len(s) \in 1..Len(t)
  OBVIOUS
<1>2. /\ \A i \in 1..Len(s) : s[i] \in Range(s)
      /\ \A i \in 1..Len(t) : t[i] \in Range(t)
  BY DEF Range
<1> HIDE DEF c
<1> SUFFICES ASSUME NEW p \in 1..Len(c), NEW q \in 1..Len(c), p <= q
             PROVE  <<c[p], c[q]>> \in R
  BY DEF InOrder, c
<1>3. CASE q <= Len(s)
  <2>1. p \in 1..Len(s) /\ q \in 1..Len(s)
    BY <1>1, <1>3
  <2> QED BY <1>1, <2>1 DEF InOrder
<1>4. CASE p > Len(s)
  <2>1. q > Len(s) /\ p - Len(s) <= q - Len(s)
    BY <1>1, <1>4
  <2> QED BY <1>1, <1>4, <2>1 DEF InOrder
<1>5. CASE p <= Len(s) /\ q > Len(s)
  <2>1. p \in 1..Len(s)
    BY <1>1, <1>5
  <2> QED BY <1>1, <1>2, <1>5, <2>1
<1> QED BY <1>1, <1>3, <1>4, <1>5

\* Sequences that are in order, one after the other.
LEMMA FlattenOrder ==
  ASSUME NEW S, NEW R, NEW seqs \in Seq(Seq(S)), \A i \in 1..Len(seqs) : InOrder(seqs[i], R),
         \A i, j \in 1..Len(seqs) : i < j =>
           \A x \in Range(seqs[i]), y \in Range(seqs[j]) : <<x, y>> \in R
  PROVE  InOrder(FlattenSeq(seqs), R)
<1> DEFINE n == Len(seqs)
<1>1. n \in Nat /\ \A i \in 1..n : seqs[i] \in Seq(S)
  OBVIOUS
<1>2. CASE n = 0
  <2>1. FlattenSeq(seqs) = <<>>
    BY <1>2 DEF FlattenSeq
  <2> QED BY <2>1 DEF InOrder
<1>3. CASE n # 0
  <2>1. PICK f : FlattenedBy(f, S, seqs)
    BY <1>3, FlattenPrefixes
  <2>2. /\ FlattenSeq(seqs) = f[n]
        /\ \A k \in 1..n :
             /\ f[k] = IF k = 1 THEN seqs[k] ELSE f[k - 1] \o seqs[k]
             /\ f[k] \in Seq(S)
             /\ Range(f[k]) = UNION {Range(seqs[i]) : i \in 1..k}
    BY <2>1 DEF FlattenedBy
  <2> DEFINE T == {k \in Nat : k \in 1..n => InOrder(f[k], R)}
  <2>3. 0 \in T
    OBVIOUS
  <2>4. ASSUME NEW k \in Nat, k \in T PROVE k + 1 \in T
    <3> SUFFICES ASSUME k + 1 \in 1..n PROVE InOrder(f[k + 1], R)
      OBVIOUS
    <3>1. CASE k = 0
      <4>1. k + 1 = 1 /\ 1 \in 1..n
        BY <3>1
      <4>2. f[1] = seqs[1] /\ InOrder(seqs[1], R)
        BY <2>2, <4>1
      <4> QED BY <4>1, <4>2
    <3>2. CASE k # 0
      <4>1. k \in 1..n /\ k + 1 # 1 /\ (k + 1) - 1 = k /\ InOrder(f[k], R)
        BY <2>4, <3>2
      <4>2. f[k + 1] = f[k] \o seqs[k + 1] /\ f[k] \in Seq(S) /\ seqs[k + 1] \in Seq(S)
        BY <1>1, <2>2, <4>1
      <4>3. ASSUME NEW x \in Range(f[k]), NEW y \in Range(seqs[k + 1])
            PROVE  <<x, y>> \in R
        <5>1. Range(f[k]) = UNION {Range(seqs[i]) : i \in 1..k}
          BY <2>2, <4>1
        <5>2. PICK i \in 1..k : x \in Range(seqs[i])
          BY ONLY <5>1, x \in Range(f[k])
        <5>3. i \in 1..n /\ i < k + 1
          BY <4>1
        <5> QED BY <5>2, <5>3
      <4>4. InOrder(seqs[k + 1], R)
        OBVIOUS
      <4>5. InOrder(f[k] \o seqs[k + 1], R)
        BY <4>1, <4>2, <4>3, <4>4, ConcatOrder
      <4> QED BY <4>2, <4>5
    <3> QED BY <3>1, <3>2
  <2>5. Nat \subseteq T
    <3> HIDE DEF T
    <3> QED BY <2>3, <2>4, SetInduction
  <2>6. n \in Nat /\ n \in 1..n
    BY <1>1, <1>3
  <2> QED BY <2>2, <2>5, <2>6
<1> QED BY <1>2, <1>3

LEMMA OwnRange ==
  ASSUME NEW S, NEW s \in Seq(S)
  PROVE  s \in Seq(Range(s))
  BY DEF Range

\* A filter that is written with FlattenSeq.
LEMMA ValidRange ==
  ASSUME NEW S, NEW s \in Seq(S), NEW t,
         t = FlattenSeq([i \in 1..Len(s) |-> IF isValid(s[i]) THEN <<s[i]>> ELSE <<>>])
  PROVE  t \in Seq(S) /\ Range(t) = {x \in Range(s) : isValid(x)}
<1> DEFINE v(x) == IF isValid(x) THEN <<x>> ELSE <<>>
           seqs == [i \in 1..Len(s) |-> v(s[i])]
<1>1. \A x \in S : /\ v(x) \in Seq(S)
                   /\ Range(v(x)) = IF isValid(x) THEN {x} ELSE {}
  BY DEF Range
<1> HIDE DEF v
<1>2. /\ seqs \in Seq(Seq(S)) /\ Len(seqs) = Len(s)
      /\ \A i \in 1..Len(s) : seqs[i] = v(s[i]) /\ s[i] \in S
  BY <1>1
<1>3. t = FlattenSeq(seqs)
  BY DEF v
<1> HIDE DEF seqs
<1>4. t \in Seq(S) /\ Range(t) = UNION {Range(seqs[i]) : i \in 1..Len(seqs)}
  BY <1>2, <1>3, FlattenRange
<1>5. Range(s) = {s[i] : i \in 1..Len(s)}
  BY DEF Range
<1>6. UNION {Range(seqs[i]) : i \in 1..Len(seqs)} = {x \in Range(s) : isValid(x)}
  <2>1. \A i \in 1..Len(s) : Range(seqs[i]) = IF isValid(s[i]) THEN {s[i]} ELSE {}
    BY <1>1, <1>2
  <2>2. \A i \in 1..Len(s) : \A x \in Range(seqs[i]) : x = s[i] /\ isValid(x)
    BY <2>1
  <2>3. \A i \in 1..Len(s) : isValid(s[i]) => s[i] \in Range(seqs[i])
    BY <2>1
  <2>4. \A x \in UNION {Range(seqs[i]) : i \in 1..Len(s)} : x \in Range(s) /\ isValid(x)
    BY <1>5, <2>2
  <2>5. \A x \in Range(s) : isValid(x) => x \in UNION {Range(seqs[i]) : i \in 1..Len(s)}
    BY <1>5, <2>3
  <2> QED BY <1>2, <2>4, <2>5
<1> QED BY <1>4, <1>6

LEMMA ValidOrder ==
  ASSUME NEW S, NEW R, NEW s \in Seq(S), InOrder(s, R), NEW t,
         t = FlattenSeq([i \in 1..Len(s) |-> IF isValid(s[i]) THEN <<s[i]>> ELSE <<>>])
  PROVE  InOrder(t, R)
<1> DEFINE v(x) == IF isValid(x) THEN <<x>> ELSE <<>>
           seqs == [i \in 1..Len(s) |-> v(s[i])]
<1>1. \A x \in S : /\ v(x) \in Seq(S) /\ Range(v(x)) \subseteq {x}
                   /\ <<x, x>> \in R => InOrder(v(x), R)
  BY DEF Range, InOrder
<1> HIDE DEF v
<1>2. /\ seqs \in Seq(Seq(S)) /\ Len(seqs) = Len(s)
      /\ \A i \in 1..Len(s) : seqs[i] = v(s[i]) /\ s[i] \in S
  <2>1. Len(s) \in Nat /\ \A i \in 1..Len(s) : s[i] \in S
    OBVIOUS
  <2>2. \A i \in 1..Len(s) : v(s[i]) \in Seq(S)
    BY <1>1, <2>1
  <2> QED BY <2>1, <2>2
<1>3. t = FlattenSeq(seqs)
  BY DEF v
<1>4. Len(s) \in Nat /\ \A i \in 1..Len(s) : i <= i
  OBVIOUS
<1> HIDE DEF seqs
<1>5. \A i, j \in 1..Len(s) : i <= j => <<s[i], s[j]>> \in R
  BY DEF InOrder
<1>6. ASSUME NEW i \in 1..Len(s)
      PROVE  InOrder(seqs[i], R) /\ Range(seqs[i]) \subseteq {s[i]}
  <2>1. PICK x \in S : x = s[i] /\ seqs[i] = v(x)
    BY <1>2
  <2>2. <<x, x>> \in R
    BY <1>4, <1>5, <2>1
  <2>3. InOrder(v(x), R) /\ Range(v(x)) \subseteq {x}
    BY <1>1, <2>2
  <2> QED BY <2>1, <2>3
<1>7. ASSUME NEW i \in 1..Len(seqs), NEW j \in 1..Len(seqs), i < j,
             NEW x \in Range(seqs[i]), NEW y \in Range(seqs[j])
      PROVE  <<x, y>> \in R
  <2>1. i \in 1..Len(s) /\ j \in 1..Len(s) /\ i <= j
    BY <1>2, <1>4, <1>7
  <2>2. x = s[i] /\ y = s[j]
    BY <1>6, <2>1
  <2> QED BY <1>5, <2>1, <2>2
<1>8. \A i \in 1..Len(seqs) : InOrder(seqs[i], R)
  BY <1>2, <1>6
<1> QED BY <1>2, <1>3, <1>7, <1>8, FlattenOrder
------------------------------------------------------------------------------
(***************************************************************************)
(* HEC metrics                                                             *)
(***************************************************************************)
Values(metrics) == {x.value : x \in {y \in metrics : isValid(y)}}

\* What a histogram or summary is converted to: its count c, its sum t, its buckets b.
ConvertedTo(m, c, t, b) ==
  /\ c.value = m.count /\ c.fields = m.labels
  /\ t.value = m.sum /\ t.fields = m.labels
  /\ DOMAIN b = 1..Len(m.buckets) /\ b = [i \in 1..Len(m.buckets) |-> b[i]]
  /\ \A i \in 1..Len(m.buckets) :
       /\ b[i].value = m.buckets[i][2]
       /\ b[i].fields = IF m.type = "histogram" THEN Put(m.labels, "le", m.buckets[i][1])
                                                ELSE m.labels
  /\ convertMetricToHec(m) \in {<<c, t>> \o b, b \o <<c, t>>}

LEMMA ConvertedParts ==
  ASSUME NEW m \in Gathered
  PROVE  \E c, t, b : ConvertedTo(m, c, t, b)
<1> DEFINE n == Len(m.buckets)
<1>1. m.type \in Multi /\ m.type \notin Scalar
  BY GatheredFields
<1>2. PICK c, t : c = HecMetric(Append(m.name, "count"), m.labels, m.count)
                  /\ t = HecMetric(Append(m.name, "sum"), m.labels, m.sum)
  OBVIOUS
<1>3. /\ CountAndSum(m) = <<c, t>> /\ c.value = m.count /\ t.value = m.sum
      /\ c.fields = m.labels /\ t.fields = m.labels
  BY <1>2 DEF CountAndSum, HecMetric
<1>4. CASE m.type = "histogram"
  <2> DEFINE b == [i \in 1..n |-> HecMetric(m.name, Put(m.labels, "le", m.buckets[i][1]),
                                           m.buckets[i][2])]
  <2>1. convertMetricToHec(m) = <<c, t>> \o b
    BY <1>1, <1>3, <1>4 DEF convertMetricToHec, histogramToHecMetrics, Multi, Scalar
  <2>2. \A i \in 1..n : b[i].value = m.buckets[i][2]
                        /\ b[i].fields = Put(m.labels, "le", m.buckets[i][1])
    BY DEF HecMetric
  <2>3. DOMAIN b = 1..n /\ b = [i \in 1..n |-> b[i]]
    OBVIOUS
  <2> HIDE DEF b
  <2> QED BY <1>3, <1>4, <2>1, <2>2, <2>3 DEF ConvertedTo
<1>5. CASE m.type = "summary"
  <2> DEFINE b == [i \in 1..n |-> HecMetric(Append(m.name, quantileToMetricSuffix(m.buckets[i][1])),
                                           m.labels, m.buckets[i][2])]
  <2>1. convertMetricToHec(m) = b \o <<c, t>>
    BY <1>1, <1>3, <1>5 DEF convertMetricToHec, summaryToHecMetrics, Multi, Scalar
  <2>2. \A i \in 1..n : b[i].value = m.buckets[i][2] /\ b[i].fields = m.labels
    BY DEF HecMetric
  <2>3. DOMAIN b = 1..n /\ b = [i \in 1..n |-> b[i]]
    OBVIOUS
  <2> HIDE DEF b
  <2> QED BY <1>3, <1>5, <2>1, <2>2, <2>3 DEF ConvertedTo
<1> QED BY <1>1, <1>4, <1>5 DEF Multi

\* Those of the lines K that have a number.
NumbersOf(K) == {k \in K : ~text[k].nan}

\* A metric is converted to one HEC metric for each line it holds; those of NaN are not valid.
LEMMA ConvertedMetric ==
  ASSUME NEW m \in Metric, LinesOf(m) \subseteq Nat \ {NaN}
  PROVE  /\ \E S : convertMetricToHec(m) \in Seq(S)
         /\ Values(Range(convertMetricToHec(m))) = NumbersOf(LinesOf(m))
<1>1. CASE m \in Single
  <2>1. m.type \in Scalar /\ LinesOf(m) = {m.value}
    BY <1>1, SingleFields DEF LinesOf
  <2>2. PICK h : h = HecMetric(m.name, m.labels, m.value)
    OBVIOUS
  <2>3. convertMetricToHec(m) = <<h>>
    <3>1. m.type # "summary" /\ m.type # "histogram"
      BY <2>1 DEF Scalar
    <3> QED BY <2>1, <2>2, <3>1, Zenon DEF convertMetricToHec
  <2>4. h.value = m.value /\ (isValid(h) <=> ~text[m.value].nan)
    BY <2>1, <2>2 DEF HecMetric, isValid
  <2>5. <<h>> \in Seq({h}) /\ Range(<<h>>) = {h}
    BY DEF Range
  <2> QED BY <2>1, <2>3, <2>4, <2>5 DEF Values, NumbersOf
<1>2. CASE m \in Gathered
  <2> DEFINE n == Len(m.buckets)
             B == {m.buckets[i][2] : i \in 1..n}
  <2>1. /\ m.type \in Multi /\ m.type \notin Scalar /\ m.buckets \in Seq(Part) /\ n \in Nat
        /\ LinesOf(m) = B \cup ({m.sum, m.count} \ {NaN})
    BY <1>2, GatheredFields, GatheredLines
  <2>2. PICK c, t, b : ConvertedTo(m, c, t, b)
    BY <1>2, ConvertedParts
  <2>3. c.value = m.count /\ t.value = m.sum
    BY <2>2 DEF ConvertedTo
  <2>5. /\ DOMAIN b = 1..n /\ b = [i \in 1..n |-> b[i]]
        /\ \A i \in 1..n : b[i].value = m.buckets[i][2]
        /\ convertMetricToHec(m) \in {<<c, t>> \o b, b \o <<c, t>>}
    BY <2>2 DEF ConvertedTo
  <2> DEFINE S == {c, t} \cup Range(b)
  <2>6. <<c, t>> \in Seq(S) /\ Range(<<c, t>>) = {c, t}
    BY DEF Range
  <2>7. b \in Seq(S) /\ Range(b) = {b[i] : i \in 1..n}
    <3>1. Range(b) = {b[i] : i \in 1..n}
      BY <2>5 DEF Range
    <3>2. [i \in 1..n |-> b[i]] \in Seq(S)
      BY <2>1, <3>1
    <3> QED BY <2>5, <3>1, <3>2
  <2> HIDE DEF S
  <2>8. /\ convertMetricToHec(m) \in Seq(S)
        /\ Range(convertMetricToHec(m)) = {c, t} \cup {b[i] : i \in 1..n}
    <3>1. PICK a : a = <<c, t>>
      OBVIOUS
    <3>2. a \in Seq(S) /\ Range(a) = {c, t}
      BY <2>6, <3>1, Zenon
    <3>3. a \o b \in Seq(S) /\ Range(a \o b) = Range(a) \cup Range(b)
      BY <2>7, <3>2, ConcatRange
    <3>4. b \o a \in Seq(S) /\ Range(b \o a) = Range(b) \cup Range(a)
      BY <2>7, <3>2, ConcatRange
    <3>5. convertMetricToHec(m) \in {a \o b, b \o a}
      BY <2>5, <3>1, Zenon
    <3> QED BY <2>7, <3>2, <3>3, <3>4, <3>5
  <2>9. \A i \in 1..n : isValid(b[i]) <=> ~text[m.buckets[i][2]].nan
    BY <2>1, <2>5 DEF isValid
  <2>10. Values({c, t} \cup {b[i] : i \in 1..n}) = NumbersOf(B \cup ({m.sum, m.count} \ {NaN}))
    <3> HIDE DEF n
    <3>1. Values({c, t} \cup {b[i] : i \in 1..n}) = Values({c, t}) \cup Values({b[i] : i \in 1..n})
      BY DEF Values
    <3>2. Values({c, t}) = NumbersOf({m.sum, m.count} \ {NaN})
      BY <2>3 DEF Values, isValid, NumbersOf
    <3>3. Values({b[i] : i \in 1..n}) = NumbersOf(B)
      BY <2>5, <2>9 DEF Values, NumbersOf
    <3> QED BY <3>1, <3>2, <3>3 DEF NumbersOf
  <2> QED BY <2>1, <2>8, <2>10
<1> QED BY <1>1, <1>2 DEF Metric

\* Labels are told apart by their names and values.
LEMMA WithoutSame ==
  ASSUME NEW q, NEW M, NEW N,
         DOMAIN M \ {q} = DOMAIN N \ {q}, \A y \in DOMAIN N \ {q} : M[y] = N[y]
  PROVE  Without(M, q) = Without(N, q)
  BY DEF Without, Restrict

\* Labels without the bucket label, and with it put back, are the same labels.
LEMMA LabelsKept ==
  ASSUME NEW L, NEW q
  PROVE  /\ "le" \in DOMAIN L => Without(Put(Without(L, "le"), "le", L["le"]), q) = Without(L, q)
         /\ "le" \notin DOMAIN L => Without(Without(L, "le"), q) = Without(L, q)
         /\ Without(Without(L, q), q) = Without(L, q)
<1>1. \A M, x : /\ DOMAIN Without(M, x) = DOMAIN M \ {x}
                /\ \A y \in DOMAIN M \ {x} : Without(M, x)[y] = M[y]
                /\ Without(M, x) = [y \in DOMAIN M \ {x} |-> M[y]]
  BY DEF Without, Restrict
<1>2. ASSUME "le" \in DOMAIN L
      PROVE  Without(Put(Without(L, "le"), "le", L["le"]), q) = Without(L, q)
  <2>1. PICK M : M = Without(L, "le")
    OBVIOUS
  <2>2. DOMAIN M = DOMAIN L \ {"le"} /\ \A y \in DOMAIN M : M[y] = L[y]
    BY <1>1, <2>1
  <2>3. PICK N : N = Put(M, "le", L["le"])
    OBVIOUS
  <2>4. DOMAIN N = DOMAIN L /\ \A y \in DOMAIN L : N[y] = L[y]
    BY <1>2, <2>2, <2>3 DEF Put
  <2>5. Without(N, q) = Without(L, q)
    BY <2>4, WithoutSame
  <2> QED BY <2>1, <2>3, <2>5
<1>3. ASSUME NEW x, (DOMAIN L \ {x}) \ {q} = DOMAIN L \ {q}
      PROVE  Without(Without(L, x), q) = Without(L, q)
  <2>1. PICK M : M = Without(L, x)
    OBVIOUS
  <2>2. DOMAIN M = DOMAIN L \ {x} /\ \A y \in DOMAIN M : M[y] = L[y]
    BY <1>1, <2>1
  <2>3. Without(M, q) = Without(L, q)
    BY <1>3, <2>2, WithoutSame
  <2> QED BY <2>1, <2>3
<1>4. "le" \notin DOMAIN L => (DOMAIN L \ {"le"}) \ {q} = DOMAIN L \ {q}
  OBVIOUS
<1>5. (DOMAIN L \ {q}) \ {q} = DOMAIN L \ {q}
  OBVIOUS
<1> QED BY <1>2, <1>3, <1>4, <1>5

LEMMA SuffixesDiffer ==
  ASSUME NEW name \in Seq(STRING)
  PROVE  /\ name \o <<"sum">> # name \o <<"count">>
         /\ \A s \in {<<"sum">>, <<"count">>}, b \in {<<>>, <<"bucket">>} : name \o b # name \o s
         /\ Last(name \o <<"sum">>) = "sum" /\ Last(name \o <<"count">>) = "count"
<1>1. PICK a, b, c : a = name \o <<"sum">> /\ b = name \o <<"count">> /\ c = name \o <<"bucket">>
  OBVIOUS
<1>2. /\ Len(name) \in Nat /\ Len(name \o <<>>) = Len(name)
      /\ Len(a) = Len(name) + 1 /\ a[Len(name) + 1] = "sum"
      /\ Len(b) = Len(name) + 1 /\ b[Len(name) + 1] = "count"
      /\ Len(c) = Len(name) + 1 /\ c[Len(name) + 1] = "bucket"
  BY <1>1
<1>3. a # b /\ a # c /\ b # c /\ name \o <<>> # a /\ name \o <<>> # b
  BY <1>2
<1>4. Last(a) = "sum" /\ Last(b) = "count"
  BY <1>2 DEF Last
<1> QED BY <1>1, <1>3, <1>4

\* A HEC metric has the labels of its line, but for the quantile.
LabelsOfLine(h, t) == Without(h.fields, "quantile") = Without(t[h.value].labels, "quantile")

\* Pairs of HEC metrics of which the first comes before the second in the text, if they are of
\* lines with the same name.
Earlier(S, t) ==
  {p \in S \X S : isValid(p[1]) /\ isValid(p[2]) /\ t[p[1].value].name = t[p[2].value].name =>
                     p[1].value <= p[2].value}

\* No sum or count in line k has the label of a bucket.
NoBucketLabel(k, t) == Last(t[k].name) \in {"sum", "count"} => "le" \notin DOMAIN t[k].labels

\* What a metric that says what its lines say is converted to says that as well.
LEMMA ConvertedFaithful ==
  ASSUME NEW m \in Metric, LinesOf(m) \subseteq Nat \ {NaN}, NEW t, Faithful(m, t),
         \A k \in LinesOf(m) : NoBucketLabel(k, t),
         NEW S, NEW s, s = convertMetricToHec(m), s \in Seq(S)
  PROVE  /\ \A h \in Range(s) : isValid(h) => h.value \in LinesOf(m) /\ LabelsOfLine(h, t)
         /\ InOrder(s, Earlier(S, t))
<1>1. CASE m \in Single
  <2>1. m.type \in Scalar /\ m.labels = t[m.value].labels /\ m.value \in Nat /\ LinesOf(m) = {m.value}
    BY <1>1, SingleFields DEF Faithful, LinesOf
  <2>2. PICK h : h = HecMetric(m.name, m.labels, m.value)
    OBVIOUS
  <2>3. s = <<h>>
    <3>1. m.type # "summary" /\ m.type # "histogram"
      BY <2>1 DEF Scalar
    <3> QED BY <2>1, <2>2, <3>1, Zenon DEF convertMetricToHec
  <2>4. h.value = m.value /\ h.fields = m.labels
    BY <2>2 DEF HecMetric
  <2>5. Range(s) = {h} /\ h \in S /\ Len(s) = 1 /\ s[1] = h
    BY <2>3 DEF Range
  <2>6. \A x \in Range(s) : x.value \in LinesOf(m) /\ LabelsOfLine(x, t)
    BY <2>1, <2>4, <2>5 DEF LabelsOfLine
  <2>7. <<h, h>> \in Earlier(S, t)
    BY <2>1, <2>4, <2>5 DEF Earlier
  <2>8. InOrder(s, Earlier(S, t))
    BY <2>5, <2>7 DEF InOrder
  <2> QED BY <2>6, <2>8
<1>2. CASE m \in Gathered
  <2> DEFINE n == Len(m.buckets)
             l == BucketLabel(m.type)
             E == Earlier(S, t)
  <2>1. /\ m.name \in Seq(STRING) /\ m.type \in Multi /\ m.buckets \in Seq(Part) /\ n \in Nat
        /\ m.sum \in Nat /\ m.count \in Nat
        /\ LinesOf(m) = {m.buckets[i][2] : i \in 1..n} \cup ({m.sum, m.count} \ {NaN})
    BY <1>2, GatheredFields, GatheredLines DEF Name
  <2>2. /\ BucketsOfLines(m, t)
        /\ m.sum # NaN => IsPartOf(m.sum, m, <<"sum">>, t)
        /\ m.count # NaN => IsPartOf(m.count, m, <<"count">>, t)
    BY <2>1 DEF Faithful
  <2>3. PICK c, u, b : ConvertedTo(m, c, u, b)
    BY <1>2, ConvertedParts
  <2>4. /\ c.value = m.count /\ c.fields = m.labels
        /\ u.value = m.sum /\ u.fields = m.labels
        /\ DOMAIN b = 1..n /\ b = [i \in 1..n |-> b[i]]
        /\ \A i \in 1..n :
             /\ b[i].value = m.buckets[i][2]
             /\ b[i].fields = IF m.type = "histogram" THEN Put(m.labels, "le", m.buckets[i][1])
                                                      ELSE m.labels
    BY <2>3 DEF ConvertedTo
  <2>5. m.type \in {"histogram", "summary"} /\ l = (IF m.type = "histogram" THEN "le" ELSE "quantile")
        /\ BucketSuffix(m.type) \in {<<>>, <<"bucket">>}
    BY <2>1 DEF Multi, BucketLabel, BucketSuffix
  <2>6. ASSUME NEW k, NEW x \in {"sum", "count"}, k \in LinesOf(m), IsPartOf(k, m, <<x>>, t)
        PROVE  Without(m.labels, "quantile") = Without(t[k].labels, "quantile")
    <3>1. m.labels = Without(t[k].labels, l) /\ t[k].name = m.name \o <<x>>
      BY <2>6 DEF IsPartOf
    <3>2. "le" \notin DOMAIN t[k].labels
      <4>1. Last(m.name \o <<x>>) \in {"sum", "count"}
        BY <2>1, SuffixesDiffer
      <4> QED BY <2>6, <3>1, <4>1 DEF NoBucketLabel
    <3> QED BY <2>5, <3>1, <3>2, LabelsKept
  <2>7. isValid(c) => /\ c.value \in LinesOf(m) /\ LabelsOfLine(c, t)
                      /\ t[c.value].name = m.name \o <<"count">>
    BY <2>1, <2>2, <2>4, <2>6 DEF isValid, LabelsOfLine, IsPartOf
  <2>8. isValid(u) => /\ u.value \in LinesOf(m) /\ LabelsOfLine(u, t)
                      /\ t[u.value].name = m.name \o <<"sum">>
    BY <2>1, <2>2, <2>4, <2>6 DEF isValid, LabelsOfLine, IsPartOf
  <2>9. ASSUME NEW i \in 1..n
        PROVE  /\ b[i].value \in LinesOf(m) /\ LabelsOfLine(b[i], t)
               /\ t[b[i].value].name = m.name \o BucketSuffix(m.type)
    <3>1. PICK k : k = m.buckets[i][2]
      OBVIOUS
    <3>2. /\ t[k].name = m.name \o BucketSuffix(m.type) /\ m.labels = Without(t[k].labels, l)
          /\ l \in DOMAIN t[k].labels /\ m.buckets[i][1] = t[k].labels[l]
      BY <2>2, <3>1 DEF BucketsOfLines, IsPartOf
    <3>3. Without(b[i].fields, "quantile") = Without(t[k].labels, "quantile")
      <4>1. CASE m.type = "histogram"
        <5>1. b[i].fields = Put(Without(t[k].labels, "le"), "le", t[k].labels["le"])
          BY <2>4, <2>5, <3>2, <4>1
        <5> QED BY <2>5, <3>2, <4>1, <5>1, LabelsKept
      <4>2. CASE m.type = "summary"
        <5>1. b[i].fields = Without(t[k].labels, "quantile")
          BY <2>4, <2>5, <3>2, <4>2
        <5> QED BY <5>1, LabelsKept
      <4> QED BY <2>5, <4>1, <4>2
    <3>4. b[i].value = k /\ k \in LinesOf(m)
      BY <2>1, <2>4, <3>1
    <3> QED BY <3>2, <3>3, <3>4 DEF LabelsOfLine
  <2>10. PICK a : a = <<c, u>>
    OBVIOUS
  <2> DEFINE T == {c, u} \cup Range(b)
  <2>11. /\ a \in Seq(T) /\ Range(a) = {c, u} /\ Len(a) = 2 /\ a[1] = c /\ a[2] = u
    BY <2>10 DEF Range
  <2>12. b \in Seq(T) /\ Range(b) = {b[i] : i \in 1..n} /\ Len(b) = n
    <3>1. Range(b) = {b[i] : i \in 1..n}
      BY <2>4 DEF Range
    <3>2. [i \in 1..n |-> b[i]] \in Seq(T)
      BY <2>1, <3>1
    <3>3. Len([i \in 1..n |-> b[i]]) = n
      BY <2>1
    <3> QED BY <2>4, <3>1, <3>2, <3>3
  <2> HIDE DEF T
  <2>13. s \in {a \o b, b \o a}
    BY <2>3, <2>10, Zenon DEF ConvertedTo
  <2>14. Range(a \o b) = T /\ Range(b \o a) = T
    <3>1. Range(a \o b) = Range(a) \cup Range(b) /\ Range(b \o a) = Range(b) \cup Range(a)
      BY <2>11, <2>12, ConcatRange
    <3> QED BY <2>11, <3>1 DEF T
  <2>15. Range(s) = T
    BY <2>13, <2>14
  <2>16. \A h \in T : h \in S
    BY <2>15 DEF Range
  <2>17. \A h \in T : isValid(h) => h.value \in LinesOf(m) /\ LabelsOfLine(h, t)
    BY <2>7, <2>8, <2>9, <2>12 DEF T
  <2>18. c \in T /\ u \in T /\ \A i \in 1..n : b[i] \in T
    BY <2>12 DEF T
  <2> DEFINE nameOf(h) == t[h.value].name
  <2>19. \A i \in 1..n : /\ isValid(c) => nameOf(b[i]) # nameOf(c)
                         /\ isValid(u) => nameOf(b[i]) # nameOf(u)
    <3>1. /\ m.name \o BucketSuffix(m.type) # m.name \o <<"sum">>
          /\ m.name \o BucketSuffix(m.type) # m.name \o <<"count">>
      BY <2>1, <2>5, SuffixesDiffer
    <3> QED BY <2>7, <2>8, <2>9, <3>1
  <2>20. isValid(c) /\ isValid(u) => nameOf(c) # nameOf(u)
    BY <2>1, <2>7, <2>8, SuffixesDiffer
  <2>21. InOrder(a, E)
    <3>1. <<c, c>> \in E /\ <<u, u>> \in E /\ <<c, u>> \in E
      BY <2>1, <2>4, <2>16, <2>18, <2>20 DEF Earlier
    <3> HIDE DEF E
    <3> SUFFICES ASSUME NEW p \in 1..Len(a), NEW q \in 1..Len(a), p <= q PROVE <<a[p], a[q]>> \in E
      BY DEF InOrder
    <3>2. (p = 1 /\ q = 1) \/ (p = 1 /\ q = 2) \/ (p = 2 /\ q = 2)
      BY <2>11
    <3> QED BY <2>11, <3>1, <3>2
  <2>22. InOrder(b, E)
    <3> SUFFICES ASSUME NEW p \in 1..n, NEW q \in 1..n, p <= q PROVE <<b[p], b[q]>> \in E
      BY <2>12 DEF InOrder
    <3>1. m.buckets[p][2] \in Nat /\ m.buckets[q][2] \in Nat
      BY <2>1 DEF Part
    <3>2. p < q => m.buckets[p][2] < m.buckets[q][2]
      BY <2>2 DEF BucketsOfLines
    <3>3. m.buckets[p][2] <= m.buckets[q][2]
      BY <3>1, <3>2
    <3> QED BY <2>4, <2>16, <2>18, <3>3 DEF Earlier
  <2>23. /\ \A x \in Range(a), y \in Range(b) : <<x, y>> \in E
         /\ \A x \in Range(b), y \in Range(a) : <<x, y>> \in E
    BY <2>11, <2>12, <2>16, <2>18, <2>19 DEF Earlier
  <2> HIDE DEF E
  <2>24. InOrder(a \o b, E)
    BY <2>11, <2>12, <2>21, <2>22, <2>23, ConcatOrder
  <2>25. InOrder(b \o a, E)
    BY <2>11, <2>12, <2>21, <2>22, <2>23, ConcatOrder
  <2> QED BY <2>13, <2>15, <2>17, <2>24, <2>25 DEF E
<1> QED BY <1>1, <1>2 DEF Metric

\* The lines of the metrics found are lines of the text.
LEMMA FoundLinesAreLines ==
  ASSUME ParserInv
  PROVE  result \in Seq(Metric) /\ FoundLines \subseteq 1..Len(text) /\ Len(text) \in Nat
<1>1. ParserTypes /\ LinesHeldOnce
  BY DEF ParserInv
<1>2. result \in Seq(Metric) /\ Len(text) \in Nat
  BY <1>1 DEF ParserTypes
<1>3. \A i \in 1..Len(result) : i \in 1..Len(Found) /\ Found[i] = result[i]
  BY <1>1, <1>2, FoundMetrics
<1>4. \A i \in 1..Len(result) : LinesOf(result[i]) \subseteq 1..Len(text)
  BY <1>1, <1>3 DEF LinesHeldOnce
<1> QED BY <1>2, <1>4 DEF FoundLines

\* The HEC metrics are the valid ones of what the metrics are converted to one by one, in that
\* order.
ConvertedInOrder(S, seqs) ==
  /\ seqs \in Seq(Seq(S)) /\ Len(seqs) = Len(result)
  /\ \A i \in 1..Len(result) : /\ seqs[i] = convertMetricToHec(result[i])
                               /\ Values(Range(seqs[i])) = NumbersOf(LinesOf(result[i]))
  /\ S = UNION {Range(seqs[i]) : i \in 1..Len(result)}
  /\ hecMetrics \in Seq(S) /\ Range(hecMetrics) = {x \in S : isValid(x)}
  /\ \A R : InOrder(FlattenSeq(seqs), R) => InOrder(hecMetrics, R)

\* They change with the text and its metrics only.
LEMMA HecMetricsStay == UNCHANGED <<text, result>> => hecMetrics' = hecMetrics
  BY DEF hecMetrics, isValid

LEMMA HecMetricsConverted ==
  ASSUME result \in Seq(Metric), FoundLines \subseteq Nat \ {NaN}
  PROVE  \E S, seqs : ConvertedInOrder(S, seqs)
<1> DEFINE n == Len(result)
           seqs == [i \in 1..n |-> convertMetricToHec(result[i])]
           S == UNION {Range(seqs[i]) : i \in 1..n}
<1>1. n \in Nat /\ \A i \in 1..n : result[i] \in Metric /\ LinesOf(result[i]) \subseteq Nat \ {NaN}
  BY DEF FoundLines
<1>2. \A i \in 1..n : /\ \E T : seqs[i] \in Seq(T)
                      /\ Values(Range(seqs[i])) = NumbersOf(LinesOf(result[i]))
  <2> SUFFICES ASSUME NEW i \in 1..n
               PROVE  /\ \E T : seqs[i] \in Seq(T)
                      /\ Values(Range(seqs[i])) = NumbersOf(LinesOf(result[i]))
    BY Zenon
  <2>1. seqs[i] = convertMetricToHec(result[i])
    OBVIOUS
  <2> HIDE DEF seqs
  <2> QED BY <1>1, <2>1, ConvertedMetric
<1>3. DOMAIN seqs = 1..n /\ seqs = [i \in 1..n |-> seqs[i]]
  OBVIOUS
<1> HIDE DEF seqs
<1>4. \A i \in 1..n : seqs[i] \in Seq(S)
  <2> SUFFICES ASSUME NEW i \in 1..n PROVE seqs[i] \in Seq(S)
    OBVIOUS
  <2>1. seqs[i] \in Seq(Range(seqs[i]))
    BY <1>2, OwnRange
  <2>2. Range(seqs[i]) \subseteq S
    OBVIOUS
  <2> HIDE DEF S
  <2> QED BY <2>1, <2>2
<1>5. seqs \in Seq(Seq(S)) /\ Len(seqs) = n
  <2> HIDE DEF S
  <2> QED BY <1>1, <1>3, <1>4
<1>6. PICK converted : converted = FlattenSeq(seqs)
  OBVIOUS
<1>7. converted \in Seq(S) /\ Range(converted) = S
  <2>1. /\ FlattenSeq(seqs) \in Seq(S)
        /\ Range(FlattenSeq(seqs)) = UNION {Range(seqs[i]) : i \in 1..Len(seqs)}
    <3> HIDE DEF S
    <3> QED BY <1>5, FlattenRange
  <2> QED BY <1>5, <1>6, <2>1
<1>8. hecMetrics = FlattenSeq([i \in 1..Len(converted) |->
                     IF isValid(converted[i]) THEN <<converted[i]>> ELSE <<>>])
  BY <1>6 DEF hecMetrics, seqs
<1> HIDE DEF n
<1>9. hecMetrics \in Seq(S) /\ Range(hecMetrics) = {x \in S : isValid(x)}
  <2> HIDE DEF S
  <2> QED BY <1>7, <1>8, ValidRange
<1>10. ASSUME NEW R, InOrder(FlattenSeq(seqs), R) PROVE InOrder(hecMetrics, R)
  <2> HIDE DEF S
  <2> QED BY <1>6, <1>7, <1>8, <1>10, ValidOrder
<1>11. \A i \in 1..n : seqs[i] = convertMetricToHec(result[i])
  BY DEF seqs
<1> QED BY <1>2, <1>5, <1>9, <1>10, <1>11 DEF ConvertedInOrder, n

\* What is sent are the numbers of the samples the parser has found.
LEMMA HecMetricsAreSamples ==
  ASSUME result \in Seq(Metric), FoundLines \subseteq Nat \ {NaN}
  PROVE  /\ \E S : hecMetrics \in Seq(S)
         /\ {metric.value : metric \in Range(hecMetrics)} = Numbers
<1>1. PICK S, seqs : ConvertedInOrder(S, seqs)
  BY HecMetricsConverted
<1>2. /\ hecMetrics \in Seq(S) /\ Range(hecMetrics) = {x \in S : isValid(x)}
      /\ S = UNION {Range(seqs[i]) : i \in 1..Len(result)}
      /\ \A i \in 1..Len(result) : Values(Range(seqs[i])) = NumbersOf(LinesOf(result[i]))
  BY <1>1 DEF ConvertedInOrder
<1>3. {metric.value : metric \in Range(hecMetrics)} = Values(S)
  BY <1>2 DEF Values
<1>4. Values(S) = UNION {Values(Range(seqs[i])) : i \in 1..Len(result)}
  BY <1>2 DEF Values
<1>5. UNION {Values(Range(seqs[i])) : i \in 1..Len(result)}
        = NumbersOf(UNION {LinesOf(result[i]) : i \in 1..Len(result)})
  BY <1>2 DEF NumbersOf
<1> QED BY <1>2, <1>3, <1>4, <1>5 DEF FoundLines, Numbers, NumbersOf

\* The HEC metrics say what their lines say, in the order of the lines of a name.
LEMMA HecMetricsFaithful ==
  ASSUME ParserInv, FaithfulInv, options.failOnDuplicateTypeInfo,
         \A k \in FoundLines : NoBucketLabel(k, text)
  PROVE  /\ \A h \in Range(hecMetrics) : LabelsOfLine(h, text)
         /\ \E S : InOrder(hecMetrics, Earlier(S, text))
<1> DEFINE n == Len(result)
<1>1. result \in Seq(Metric) /\ FoundLines \subseteq Nat \ {NaN} /\ n \in Nat
  BY FoundLinesAreLines DEF NaN
<1>2. \A i \in 1..n : /\ result[i] \in Metric /\ LinesOf(result[i]) \subseteq Nat \ {NaN}
                      /\ \A k \in LinesOf(result[i]) : NoBucketLabel(k, text)
  BY <1>1 DEF FoundLines
<1>3. \A i \in 1..n : i \in 1..Len(Found) /\ Found[i] = result[i]
  BY <1>1, FoundMetrics DEF ParserInv
<1>4. \A i \in 1..n : Faithful(result[i], text)
  BY <1>3 DEF FaithfulInv
<1>5. \A i, j \in 1..n : i < j => \A k \in LinesOf(result[i]), l \in LinesOf(result[j]) : k < l
  BY <1>3 DEF FaithfulInv, LinesInOrder
<1>6. PICK S, seqs : ConvertedInOrder(S, seqs)
  BY <1>1, HecMetricsConverted
<1>7. /\ seqs \in Seq(Seq(S)) /\ Len(seqs) = n
      /\ \A i \in 1..n : seqs[i] = convertMetricToHec(result[i]) /\ seqs[i] \in Seq(S)
      /\ S = UNION {Range(seqs[i]) : i \in 1..n}
      /\ hecMetrics \in Seq(S) /\ Range(hecMetrics) = {x \in S : isValid(x)}
      /\ \A R : InOrder(FlattenSeq(seqs), R) => InOrder(hecMetrics, R)
  BY <1>6 DEF ConvertedInOrder
<1> DEFINE E == Earlier(S, text)
<1> HIDE DEF n
<1>8. ASSUME NEW i \in 1..n
      PROVE  /\ \A h \in Range(seqs[i]) :
                  isValid(h) => h.value \in LinesOf(result[i]) /\ LabelsOfLine(h, text)
             /\ InOrder(seqs[i], E)
  <2>1. PICK m \in Metric : m = result[i]
    BY <1>2
  <2>2. /\ LinesOf(m) \subseteq Nat \ {NaN} /\ Faithful(m, text)
        /\ \A k \in LinesOf(m) : NoBucketLabel(k, text)
        /\ seqs[i] = convertMetricToHec(m) /\ seqs[i] \in Seq(S)
    BY <1>2, <1>4, <1>7, <2>1
  <2> QED BY <2>1, <2>2, ConvertedFaithful
<1>9. ASSUME NEW i \in 1..n, NEW j \in 1..n, i < j,
             NEW x \in Range(seqs[i]), NEW y \in Range(seqs[j])
      PROVE  <<x, y>> \in E
  <2>1. x \in S /\ y \in S
    BY <1>7
  <2>2. isValid(x) /\ isValid(y) => x.value < y.value
    BY <1>5, <1>8, <1>9
  <2>3. isValid(x) /\ isValid(y) => x.value \in Nat /\ y.value \in Nat
    BY <1>2, <1>8
  <2> QED BY <2>1, <2>2, <2>3 DEF Earlier
<1>10. InOrder(FlattenSeq(seqs), E)
  <2> HIDE DEF E
  <2> QED BY <1>7, <1>8, <1>9, FlattenOrder
<1>11. InOrder(hecMetrics, E)
  BY <1>7, <1>10
<1>12. \A h \in Range(hecMetrics) : LabelsOfLine(h, text)
  BY <1>7, <1>8
<1> QED BY <1>11, <1>12
------------------------------------------------------------------------------
(***************************************************************************)
(* Objects                                                                 *)
(***************************************************************************)
Id(x) == encodeMultiMetricId(x.fields)

\* Object o with identifier id is made of the first n metrics.
IsObject(o, id, metrics, n) ==
  /\ o = [fields |-> o.fields, measurements |-> o.measurements]
  /\ Id(o) = id
  /\ \E j \in 1..n : o.fields = metrics[j].fields
  /\ IsFiniteSet(DOMAIN o.measurements)
  /\ \A name \in DOMAIN o.measurements : \E k \in 1..n :
       /\ metrics[k].name = name /\ Id(metrics[k]) = id
       /\ o.measurements[name] = metrics[k].value

\* Metric x gave object o its measurement.
Gave(x, o) ==
  Id(o) = Id(x) /\ x.name \in DOMAIN o.measurements /\ o.measurements[x.name] = x.value

\* Each of the first n metrics, or an earlier one like it, is in one of the objects.
Merged(objects, metrics, n) ==
  \A i \in 1..n : \E k \in 1..i, o \in objects :
    /\ metrics[k].name = metrics[i].name /\ Id(metrics[k]) = Id(metrics[i])
    /\ Gave(metrics[k], o)

CollapseInv ==
  /\ collapsed \in Nat /\ (outcome # "parsed" => collapsed = 0)
  /\ collapsed = 0 => mmm = <<>> /\ complete = <<>>
  /\ mmm = [id \in DOMAIN mmm |-> mmm[id]]
  /\ \E S : complete \in Seq(S)
  /\ \A id \in DOMAIN mmm : IsObject(mmm[id], id, hecMetrics, collapsed)
  /\ \A o \in Range(complete) : IsObject(o, Id(o), hecMetrics, collapsed)
  /\ SizeWithinLimit
  /\ Merged(MultiMetric, hecMetrics, collapsed)

LEMMA ObjectStays ==
  ASSUME NEW o, NEW id, NEW metrics, NEW n \in Nat, IsObject(o, id, metrics, n)
  PROVE  IsObject(o, id, metrics, n + 1)
<1>1. 1..n \subseteq 1..(n + 1)
  OBVIOUS
<1> QED BY <1>1 DEF IsObject

LEMMA ObjectOpens ==
  ASSUME NEW metrics, NEW n \in Nat, NEW x, x = metrics[n + 1], NEW o, o = MultiMetricOf(x)
  PROVE  /\ IsObject(o, Id(x), metrics, n + 1) /\ Gave(x, o)
         /\ Cardinality(DOMAIN o.measurements) = 1
<1>1. /\ o = [fields |-> o.fields, measurements |-> o.measurements]
      /\ o.fields = x.fields /\ DOMAIN o.measurements = {x.name}
      /\ o.measurements[x.name] = x.value
  BY DEF MultiMetricOf
<1>2. IsFiniteSet({x.name}) /\ Cardinality({x.name}) = 1
  BY FS_Singleton
<1>3. n + 1 \in 1..(n + 1)
  OBVIOUS
<1> QED BY <1>1, <1>2, <1>3 DEF IsObject, Gave, Id

LEMMA ObjectGrows ==
  ASSUME NEW metrics, NEW n \in Nat, NEW x, x = metrics[n + 1],
         NEW o, IsObject(o, Id(x), metrics, n), x.name \notin DOMAIN o.measurements,
         NEW p, p = [fields |-> p.fields, measurements |-> p.measurements],
         p.fields = o.fields, p.measurements = Put(o.measurements, x.name, x.value)
  PROVE  /\ IsObject(p, Id(x), metrics, n + 1) /\ Gave(x, p)
         /\ Cardinality(DOMAIN o.measurements) \in Nat
         /\ Cardinality(DOMAIN p.measurements) = Cardinality(DOMAIN o.measurements) + 1
         /\ \A y : Gave(y, o) => Gave(y, p)
<1> DEFINE f == o.measurements  g == p.measurements
<1>1. /\ Id(o) = Id(x) /\ \E j \in 1..n : o.fields = metrics[j].fields
      /\ IsFiniteSet(DOMAIN f)
      /\ \A name \in DOMAIN f : \E k \in 1..n :
           metrics[k].name = name /\ Id(metrics[k]) = Id(x) /\ f[name] = metrics[k].value
  BY DEF IsObject
<1>2. /\ DOMAIN g = DOMAIN f \cup {x.name} /\ g[x.name] = x.value
      /\ \A name \in DOMAIN f : g[name] = f[name]
  BY DEF Put
<1>3. p = [fields |-> p.fields, measurements |-> g] /\ p.fields = o.fields
  OBVIOUS
<1> HIDE DEF f, g
<1>5. IsFiniteSet(DOMAIN g) /\ Cardinality(DOMAIN g) = Cardinality(DOMAIN f) + 1
  BY <1>1, <1>2, FS_AddElement DEF f
<1>6. Cardinality(DOMAIN f) \in Nat
  BY <1>1, FS_CardinalityType
<1>7. /\ 1..n \subseteq 1..(n + 1) /\ n + 1 \in 1..(n + 1)
  OBVIOUS
<1>8. Id(p) = Id(x)
  BY <1>1, <1>3 DEF Id
<1>9. \A name \in DOMAIN g : \E k \in 1..(n + 1) :
        metrics[k].name = name /\ Id(metrics[k]) = Id(x) /\ g[name] = metrics[k].value
  BY <1>1, <1>2, <1>7
<1>10. IsObject(p, Id(x), metrics, n + 1)
  BY <1>1, <1>3, <1>5, <1>7, <1>8, <1>9 DEF IsObject, g
<1>11. Gave(x, p)
  BY <1>2, <1>3, <1>8 DEF Gave, g
<1>12. \A y : Gave(y, o) => Gave(y, p)
  BY <1>1, <1>2, <1>3, <1>8 DEF Gave, f, g
<1> QED BY <1>5, <1>6, <1>10, <1>11, <1>12 DEF f, g

LEMMA MergedStays ==
  ASSUME NEW metrics, NEW n \in Nat, NEW A, NEW B, Merged(A, metrics, n),
         \A o \in A : \E p \in B : \A y : Gave(y, o) => Gave(y, p),
         \E k \in 1..(n + 1), o \in B :
           /\ metrics[k].name = metrics[n + 1].name /\ Id(metrics[k]) = Id(metrics[n + 1])
           /\ Gave(metrics[k], o)
  PROVE  Merged(B, metrics, n + 1)
<1> SUFFICES ASSUME NEW i \in 1..(n + 1)
             PROVE  \E k \in 1..i, o \in B :
                      /\ metrics[k].name = metrics[i].name /\ Id(metrics[k]) = Id(metrics[i])
                      /\ Gave(metrics[k], o)
  BY DEF Merged
<1>1. CASE i \in 1..n
  BY <1>1 DEF Merged
<1>2. CASE i = n + 1
  BY <1>2
<1> QED BY <1>1, <1>2

\* Where the parser goes on, nothing has been merged yet.
LEMMA CollapseWaits ==
  ASSUME CollapseInv, outcome = "parsing", UNCHANGED <<collapsed, mmm, complete>>
  PROVE  CollapseInv'
<1>1. collapsed = 0 /\ mmm = <<>> /\ complete = <<>>
  BY DEF CollapseInv
<1>2. collapsed' = 0 /\ mmm' = <<>> /\ complete' = <<>> /\ Range(<<>>) = {}
  BY <1>1 DEF Range
<1>3. mmm' = [id \in DOMAIN mmm' |-> mmm'[id]] /\ complete' \in Seq({})
  BY <1>2
<1>4. SizeWithinLimit'
  BY <1>2 DEF SizeWithinLimit
<1>5. Merged(MultiMetric', hecMetrics', collapsed')
  BY <1>2 DEF Merged
<1> QED BY <1>2, <1>3, <1>4, <1>5 DEF CollapseInv

LEMMA CollapseStep ==
  ASSUME CollapseInv, Collapse
  PROVE  CollapseInv'
<1> DEFINE n == collapsed
           x == hecMetrics[n + 1]
           id == Id(x)
<1>1. /\ outcome = "parsed" /\ UNCHANGED parserVars /\ collapsed' = n + 1 /\ n \in Nat
      /\ \/ id \notin DOMAIN mmm /\ mmm' = Put(mmm, id, MultiMetricOf(x)) /\ complete' = complete
         \/ /\ id \in DOMAIN mmm /\ x.name \in DOMAIN mmm[id].measurements
            /\ mmm' = mmm /\ complete' = complete
         \/ /\ id \in DOMAIN mmm /\ x.name \notin DOMAIN mmm[id].measurements
            /\ CollapseInto(x, id)
  BY DEF Collapse, CollapseInv, Id
<1>2. hecMetrics' = hecMetrics /\ outcome' = "parsed"
  BY <1>1, HecMetricsStay DEF parserVars
<1>3. /\ mmm = [i \in DOMAIN mmm |-> mmm[i]]
      /\ \A i \in DOMAIN mmm : IsObject(mmm[i], i, hecMetrics, n)
      /\ \A o \in Range(complete) : IsObject(o, Id(o), hecMetrics, n)
      /\ SizeWithinLimit /\ Merged(MultiMetric, hecMetrics, n)
  BY DEF CollapseInv
<1>4. PICK S : complete \in Seq(S)
  BY DEF CollapseInv
<1>5. /\ n + 1 # 0 /\ n + 1 \in Nat /\ n + 1 \in 1..(n + 1)
  BY <1>1
<1>6. MultiMetric = Range(complete) \cup Range(mmm)
      /\ MultiMetric' = Range(complete') \cup Range(mmm')
  BY DEF MultiMetric, ToSet, Range
<1>7. /\ \A i \in DOMAIN mmm : IsObject(mmm[i], i, hecMetrics, n + 1)
      /\ \A o \in Range(complete) : IsObject(o, Id(o), hecMetrics, n + 1)
  BY <1>1, <1>3, ObjectStays
<1> HIDE DEF n, x, id
\* The size of open and of closed objects.
<1>8. /\ maxMetrics \in Nat /\ maxMetrics >= 1
      /\ \A o \in Range(complete) : Cardinality(DOMAIN o.measurements) = maxMetrics + 1
      /\ \A i \in DOMAIN mmm : Cardinality(DOMAIN mmm[i].measurements) \in 1..maxMetrics
  BY <1>3, <1>4, MaxMetricsAssumption DEF SizeWithinLimit, Range
<1>9. ASSUME mmm' = [i \in DOMAIN mmm' |-> mmm'[i]], NEW T, complete' \in Seq(T),
             \A i \in DOMAIN mmm' :
               /\ IsObject(mmm'[i], i, hecMetrics, n + 1)
               /\ Cardinality(DOMAIN mmm'[i].measurements) \in 1..maxMetrics,
             \A o \in Range(complete') :
               /\ IsObject(o, Id(o), hecMetrics, n + 1)
               /\ Cardinality(DOMAIN o.measurements) = maxMetrics + 1,
             Merged(MultiMetric', hecMetrics, n + 1)
      PROVE  CollapseInv'
  <2>1. SizeWithinLimit'
    <3>1. \A i \in 1..Len(complete') : complete'[i] \in Range(complete')
      BY <1>9 DEF Range
    <3> QED BY <1>9, <3>1 DEF SizeWithinLimit
  <2>2. \E T1 : complete' \in Seq(T1)
    BY <1>9
  <2>3. /\ collapsed' \in Nat /\ (outcome' # "parsed" => collapsed' = 0)
        /\ collapsed' = 0 => mmm' = <<>> /\ complete' = <<>>
    BY <1>1, <1>2, <1>5
  <2>4. /\ \A i \in DOMAIN mmm' : IsObject(mmm'[i], i, hecMetrics', collapsed')
        /\ \A o \in Range(complete') : IsObject(o, Id(o), hecMetrics', collapsed')
        /\ Merged(MultiMetric', hecMetrics', collapsed')
    BY <1>1, <1>2, <1>9
  <2> HIDE DEF CollapseInv
  <2> QED BY <1>9, <2>1, <2>2, <2>3, <2>4, Zenon DEF CollapseInv
<1>10. CASE id \notin DOMAIN mmm /\ mmm' = Put(mmm, id, MultiMetricOf(x)) /\ complete' = complete
  <2>1. PICK o : o = MultiMetricOf(x)
    OBVIOUS
  <2>2. /\ IsObject(o, id, hecMetrics, n + 1) /\ Gave(x, o)
        /\ Cardinality(DOMAIN o.measurements) = 1
    BY <1>1, <2>1, ObjectOpens DEF x, id
  <2>3. /\ DOMAIN mmm' = DOMAIN mmm \cup {id} /\ mmm'[id] = o
        /\ \A i \in DOMAIN mmm : mmm'[i] = mmm[i]
        /\ mmm' = [i \in DOMAIN mmm' |-> mmm'[i]]
    BY <1>10, <2>1 DEF Put
  <2>4. MultiMetric \subseteq MultiMetric' /\ o \in MultiMetric'
    BY <1>6, <1>10, <2>3 DEF Range
  <2>5. Merged(MultiMetric', hecMetrics, n + 1)
    BY <1>1, <1>3, <1>5, <2>2, <2>4, MergedStays DEF x
  <2> QED BY <1>4, <1>7, <1>8, <1>9, <1>10, <2>2, <2>3, <2>5
<1>11. CASE /\ id \in DOMAIN mmm /\ x.name \in DOMAIN mmm[id].measurements
            /\ mmm' = mmm /\ complete' = complete
  <2>1. PICK k \in 1..n : /\ hecMetrics[k].name = x.name /\ Id(hecMetrics[k]) = id
                          /\ mmm[id].measurements[x.name] = hecMetrics[k].value
    BY <1>3, <1>11 DEF IsObject
  <2>2. Gave(hecMetrics[k], mmm[id])
    BY <1>3, <1>11, <2>1 DEF IsObject, Gave
  <2>3. MultiMetric' = MultiMetric /\ mmm[id] \in MultiMetric
    BY <1>6, <1>11 DEF Range
  <2>4. k \in 1..(n + 1)
    BY <1>1, <2>1
  <2>5. Merged(MultiMetric', hecMetrics, n + 1)
    BY <1>1, <1>3, <2>1, <2>2, <2>3, <2>4, MergedStays DEF x, id
  <2> QED BY <1>3, <1>4, <1>7, <1>8, <1>9, <1>11, <2>5
<1>12. CASE /\ id \in DOMAIN mmm /\ x.name \notin DOMAIN mmm[id].measurements
            /\ CollapseInto(x, id)
  <2>1. PICK p : p = [mmm[id] EXCEPT !.measurements = Put(mmm[id].measurements, x.name, x.value)]
    OBVIOUS
  <2>2. /\ IsObject(p, id, hecMetrics, n + 1) /\ Gave(x, p)
        /\ Cardinality(DOMAIN mmm[id].measurements) \in Nat
        /\ Cardinality(DOMAIN p.measurements) = Cardinality(DOMAIN mmm[id].measurements) + 1
        /\ \A y : Gave(y, mmm[id]) => Gave(y, p)
    <3>1. IsObject(mmm[id], id, hecMetrics, n)
      BY <1>3, <1>12
    <3>2. x = hecMetrics[n + 1] /\ id = Id(x) /\ n \in Nat
      BY <1>1 DEF x, id
    <3>3. PICK o : o = mmm[id]
      OBVIOUS
    <3>4. IsObject(o, Id(x), hecMetrics, n) /\ x.name \notin DOMAIN o.measurements
      BY <1>12, <3>1, <3>2, <3>3, Zenon
    <3>5. /\ p = [fields |-> p.fields, measurements |-> p.measurements]
          /\ p.fields = o.fields /\ p.measurements = Put(o.measurements, x.name, x.value)
      <4>1. PICK f, g, h : f = o.fields /\ g = o.measurements
                           /\ h = Put(o.measurements, x.name, x.value)
        OBVIOUS
      <4>2. o = [fields |-> f, measurements |-> g]
        BY <3>4, <4>1 DEF IsObject
      <4>3. p = [o EXCEPT !.measurements = h]
        BY <2>1, <3>3, <4>1, Zenon
      <4>4. p = [fields |-> f, measurements |-> h]
        BY ONLY <4>2, <4>3
      <4>5. p.fields = f /\ p.measurements = h
        BY ONLY <4>4
      <4> QED BY ONLY <4>1, <4>4, <4>5, Zenon
    <3>6. /\ IsObject(p, Id(x), hecMetrics, n + 1) /\ Gave(x, p)
          /\ Cardinality(DOMAIN o.measurements) \in Nat
          /\ Cardinality(DOMAIN p.measurements) = Cardinality(DOMAIN o.measurements) + 1
          /\ \A y : Gave(y, o) => Gave(y, p)
      BY ONLY <3>2, <3>4, <3>5, ObjectGrows
    <3> QED BY <3>2, <3>3, <3>6, Zenon
  <2>3. /\ complete' = IF Cardinality(DOMAIN p.measurements) > maxMetrics
                       THEN Append(complete, p) ELSE complete
        /\ mmm' = IF Cardinality(DOMAIN p.measurements) > maxMetrics
                  THEN Restrict(mmm, DOMAIN mmm \ {id}) ELSE [mmm EXCEPT ![id] = p]
    BY <1>12, <2>1, Zenon DEF CollapseInto
  <2>4. ASSUME p \in MultiMetric', \A o \in MultiMetric : o \in MultiMetric' \/ o = mmm[id]
        PROVE  Merged(MultiMetric', hecMetrics, n + 1)
    BY <1>1, <1>3, <1>5, <2>2, <2>4, MergedStays DEF x
  <2>5. \A o \in MultiMetric : o \in Range(complete) \/ \E i \in DOMAIN mmm : o = mmm[i]
    BY <1>6 DEF Range
  <2>6. CASE Cardinality(DOMAIN p.measurements) > maxMetrics
    <3>1. Cardinality(DOMAIN p.measurements) = maxMetrics + 1
      BY <1>8, <1>12, <2>2, <2>6
    <3>2. /\ complete' = Append(complete, p) /\ complete' \in Seq(S \cup {p})
          /\ Range(complete') = Range(complete) \cup {p}
      <4>1. complete' = Append(complete, p)
        BY <2>3, <2>6
      <4>2. complete \in Seq(S \cup {p}) /\ p \in S \cup {p}
        BY <1>4
      <4>3. /\ complete' \in Seq(S \cup {p}) /\ Len(complete') = Len(complete) + 1
            /\ Len(complete) \in Nat /\ complete'[Len(complete) + 1] = p
            /\ \A i \in 1..Len(complete) : complete'[i] = complete[i]
            /\ DOMAIN complete = 1..Len(complete) /\ DOMAIN complete' = 1..Len(complete')
        BY <4>1, <4>2
      <4>4. Range(complete') \subseteq Range(complete) \cup {p}
        BY <4>3 DEF Range
      <4>5. Range(complete) \cup {p} \subseteq Range(complete')
        BY <4>3 DEF Range
      <4> QED BY <4>1, <4>3, <4>4, <4>5
    <3>3. /\ DOMAIN mmm' = DOMAIN mmm \ {id} /\ \A i \in DOMAIN mmm' : mmm'[i] = mmm[i]
          /\ mmm' = [i \in DOMAIN mmm' |-> mmm'[i]]
      BY <2>3, <2>6 DEF Restrict
    <3>4. p \in MultiMetric' /\ \A o \in MultiMetric : o \in MultiMetric' \/ o = mmm[id]
      BY <1>6, <2>5, <3>2, <3>3 DEF Range
    <3>5. Merged(MultiMetric', hecMetrics, n + 1)
      BY <2>4, <3>4
    <3>6. Id(p) = id
      BY <2>2 DEF IsObject
    <3> QED BY <1>7, <1>8, <1>9, <2>2, <3>1, <3>2, <3>3, <3>5, <3>6
  <2>7. CASE ~(Cardinality(DOMAIN p.measurements) > maxMetrics)
    <3>1. Cardinality(DOMAIN p.measurements) \in 1..maxMetrics
      BY <1>8, <2>2, <2>7
    <3>2. complete' = complete /\ mmm' = [mmm EXCEPT ![id] = p]
      BY <2>3, <2>7
    <3>3. /\ DOMAIN mmm' = DOMAIN mmm /\ mmm'[id] = p
          /\ \A i \in DOMAIN mmm : i # id => mmm'[i] = mmm[i]
          /\ mmm' = [i \in DOMAIN mmm' |-> mmm'[i]]
      BY <1>3, <1>12, <3>2
    <3>4. p \in MultiMetric' /\ \A o \in MultiMetric : o \in MultiMetric' \/ o = mmm[id]
      BY <1>6, <1>12, <2>5, <3>2, <3>3 DEF Range
    <3>5. Merged(MultiMetric', hecMetrics, n + 1)
      BY <2>4, <3>4
    <3> QED BY <1>4, <1>7, <1>8, <1>9, <2>2, <3>1, <3>2, <3>3, <3>5
  <2> QED BY <2>6, <2>7
<1> QED BY <1>1, <1>10, <1>11, <1>12 DEF n, x, id
------------------------------------------------------------------------------
(***************************************************************************)
(* Messages                                                                *)
(***************************************************************************)
SentInv ==
  sent # Null =>
    /\ outcome = "parsed" /\ collapsed = Len(hecMetrics)
    /\ multipleMetricFormatEnabled \in BOOLEAN
    /\ sent = UNION {pushMetrics(o, multipleMetricFormatEnabled) : o \in MultiMetric}

\* The messages of an object have its measurements, all or one each, and its fields.
LEMMA PushedMessages ==
  ASSUME NEW o, NEW multiple \in BOOLEAN
  PROVE  /\ \A m \in pushMetrics(o, multiple) :
              /\ DOMAIN m.measurements \subseteq DOMAIN o.measurements
              /\ \A name \in DOMAIN m.measurements :
                   m.measurements[name] = o.measurements[name]
              /\ m.fields = IF multiple THEN WithDefaults(o.fields)
                                        ELSE Unreserved(WithDefaults(o.fields))
              /\ multiple => m.measurements = o.measurements
              /\ ~multiple => Cardinality(DOMAIN m.measurements) = 1
         /\ \A name \in DOMAIN o.measurements : \E m \in pushMetrics(o, multiple) :
              name \in DOMAIN m.measurements
<1>1. CASE multiple
  <2>1. pushMetrics(o, multiple) = {serializeMetrics(o)}
    BY <1>1 DEF pushMetrics
  <2>2. /\ serializeMetrics(o).measurements = o.measurements
        /\ serializeMetrics(o).fields = WithDefaults(o.fields)
    BY DEF serializeMetrics, Message
  <2> QED BY <1>1, <2>1, <2>2
<1>2. CASE ~multiple
  <2> DEFINE M(name) == serializeMetric(name, o.measurements[name], o.fields)
  <2>1. pushMetrics(o, multiple) = {M(name) : name \in DOMAIN o.measurements}
    BY <1>2 DEF pushMetrics
  <2>2. \A name : /\ DOMAIN M(name).measurements = {name}
                  /\ M(name).measurements[name] = o.measurements[name]
                  /\ M(name).fields = Unreserved(WithDefaults(o.fields))
    BY DEF serializeMetric, Message
  <2> HIDE DEF M
  <2>3. ASSUME NEW m \in pushMetrics(o, multiple)
        PROVE  /\ DOMAIN m.measurements \subseteq DOMAIN o.measurements
               /\ \A name \in DOMAIN m.measurements :
                    m.measurements[name] = o.measurements[name]
               /\ m.fields = Unreserved(WithDefaults(o.fields))
               /\ Cardinality(DOMAIN m.measurements) = 1
    <3>1. PICK name \in DOMAIN o.measurements : m = M(name)
      BY <2>1
    <3>2. /\ DOMAIN m.measurements = {name} /\ m.measurements[name] = o.measurements[name]
          /\ m.fields = Unreserved(WithDefaults(o.fields))
      BY <2>2, <3>1
    <3>3. Cardinality({name}) = 1
      BY FS_Singleton
    <3> QED BY <3>2, <3>3
  <2>4. \A name \in DOMAIN o.measurements : M(name) \in pushMetrics(o, multiple)
                                            /\ name \in DOMAIN M(name).measurements
    BY <2>1, <2>2
  <2> QED BY <1>2, <2>3, <2>4
<1> QED BY <1>1, <1>2

\* The objects when all metrics are merged.
LEMMA ObjectsOfMetrics ==
  ASSUME CollapseInv, collapsed = Len(hecMetrics)
  PROVE  /\ Len(hecMetrics) \in Nat
         /\ \A o \in MultiMetric :
              /\ IsObject(o, Id(o), hecMetrics, Len(hecMetrics))
              /\ Cardinality(DOMAIN o.measurements) <= maxMetrics + 1
<1> DEFINE metrics == hecMetrics  n == Len(hecMetrics)
<1>1. collapsed = n /\ n \in Nat
  BY DEF CollapseInv
<1>2. PICK S : complete \in Seq(S)
  BY DEF CollapseInv
<1>3. \A o \in Range(complete) :
        Cardinality(DOMAIN o.measurements) = maxMetrics + 1
  BY <1>2 DEF CollapseInv, SizeWithinLimit, Range
<1>4. \A o \in Range(complete) : IsObject(o, Id(o), metrics, n)
  BY <1>1 DEF CollapseInv
<1>5. \A id \in DOMAIN mmm : /\ IsObject(mmm[id], id, metrics, n)
                             /\ Cardinality(DOMAIN mmm[id].measurements) \in 1..maxMetrics
  BY <1>1 DEF CollapseInv, SizeWithinLimit
<1>6. \A o \in MultiMetric : o \in Range(complete) \/ \E id \in DOMAIN mmm : o = mmm[id]
  BY DEF MultiMetric, ToSet, Range
<1> HIDE DEF metrics, n
<1>7. \A id \in DOMAIN mmm : Id(mmm[id]) = id
  BY <1>5 DEF IsObject
<1>8. \A k : k = maxMetrics + 1 \/ k \in 1..maxMetrics => k <= maxMetrics + 1
  BY MaxMetricsAssumption
<1>9. \A o \in MultiMetric : /\ IsObject(o, Id(o), metrics, n)
                             /\ Cardinality(DOMAIN o.measurements) <= maxMetrics + 1
  BY <1>3, <1>4, <1>5, <1>6, <1>7, <1>8
<1> QED BY <1>1, <1>9 DEF metrics, n

LEMMA MessagesOfMetrics ==
  ASSUME CollapseInv, SentInv, sent # Null, NEW S, hecMetrics \in Seq(S)
  PROVE  /\ MetricsArrive
         /\ \A m \in sent : Cardinality(DOMAIN m.measurements) <=
              IF multipleMetricFormatEnabled THEN maxMetrics + 1 ELSE 1
<1> DEFINE metrics == hecMetrics  n == Len(hecMetrics)  multiple == multipleMetricFormatEnabled
<1>1. /\ collapsed = n /\ multiple \in BOOLEAN
      /\ sent = UNION {pushMetrics(o, multiple) : o \in MultiMetric}
  BY DEF SentInv
<1>2. /\ n \in Nat
      /\ \A o \in MultiMetric : /\ IsObject(o, Id(o), metrics, n)
                                /\ Cardinality(DOMAIN o.measurements) <= maxMetrics + 1
  BY <1>1, ObjectsOfMetrics
<1>3. Merged(MultiMetric, metrics, n)
  BY <1>1 DEF CollapseInv
<1>4. \A k \in 1..n : metrics[k] \in Range(metrics)
  BY DEF Range
<1>5. ASSUME NEW o \in MultiMetric, NEW m \in pushMetrics(o, multiple), NEW k \in 1..n,
             Gave(metrics[k], o), metrics[k].name \in DOMAIN m.measurements
      PROVE  Carries(m, metrics[k], metrics)
  <2>1. PICK j \in 1..n : o.fields = metrics[j].fields
    BY <1>2 DEF IsObject
  <2>2. m.measurements[metrics[k].name] = metrics[k].value
    BY <1>1, <1>5, PushedMessages DEF Gave
  <2>3. m.fields = MessageFields(WithDefaults(metrics[j].fields))
    <3>1. m.fields = IF multiple THEN WithDefaults(o.fields) ELSE Unreserved(WithDefaults(o.fields))
      BY <1>1, PushedMessages
    <3> HIDE DEF metrics
    <3> QED BY <2>1, <3>1 DEF MessageFields
  <2>4. encodeMultiMetricId(metrics[j].fields) = encodeMultiMetricId(metrics[k].fields)
    <3> HIDE DEF metrics
    <3> QED BY <1>5, <2>1 DEF Gave, Id
  <2> HIDE DEF metrics, n
  <2> QED BY <1>4, <1>5, <2>2, <2>3, <2>4 DEF Carries
<1> HIDE DEF metrics, n, multiple
<1>6. ASSUME NEW i \in 1..n
      PROVE  \E k \in 1..i :
               /\ metrics[k].name = metrics[i].name
               /\ encodeMultiMetricId(metrics[k].fields) = encodeMultiMetricId(metrics[i].fields)
               /\ \E m \in sent : Carries(m, metrics[k], metrics)
  <2>1. PICK k \in 1..i, o \in MultiMetric :
          /\ metrics[k].name = metrics[i].name /\ Id(metrics[k]) = Id(metrics[i])
          /\ Gave(metrics[k], o)
    BY <1>3 DEF Merged
  <2>2. PICK m \in pushMetrics(o, multiple) : metrics[k].name \in DOMAIN m.measurements
    BY <1>1, <2>1, PushedMessages DEF Gave
  <2>3. k \in 1..n
    BY <1>2
  <2>4. Carries(m, metrics[k], metrics) /\ m \in sent
    BY <1>1, <1>5, <2>1, <2>2, <2>3
  <2> QED BY <2>1, <2>4 DEF Id
<1>7. ASSUME NEW m \in sent, NEW name \in DOMAIN m.measurements
      PROVE  \E metric \in Range(metrics) :
               metric.name = name /\ Carries(m, metric, metrics)
  <2>1. PICK o \in MultiMetric : m \in pushMetrics(o, multiple)
    BY <1>1
  <2>2. name \in DOMAIN o.measurements
    BY <1>1, <2>1, PushedMessages
  <2>3. PICK k \in 1..n : /\ metrics[k].name = name /\ Id(metrics[k]) = Id(o)
                          /\ o.measurements[name] = metrics[k].value
    BY <1>2, <2>2 DEF IsObject
  <2>4. Gave(metrics[k], o)
    BY <2>2, <2>3 DEF Gave
  <2>5. Carries(m, metrics[k], metrics)
    BY <1>5, <2>1, <2>3, <2>4
  <2> QED BY <1>4, <2>3, <2>5
<1>8. MetricsArrive
  BY <1>6, <1>7 DEF MetricsArrive, metrics, n
<1>9. ASSUME NEW m \in sent
      PROVE  Cardinality(DOMAIN m.measurements) <= IF multiple THEN maxMetrics + 1 ELSE 1
  <2>1. PICK o \in MultiMetric : m \in pushMetrics(o, multiple)
    BY <1>1
  <2>2. CASE multiple
    <3>1. m.measurements = o.measurements
      BY <1>1, <2>1, <2>2, PushedMessages
    <3> QED BY <1>2, <2>2, <3>1
  <2>3. CASE ~multiple
    <3>1. Cardinality(DOMAIN m.measurements) = 1
      BY <1>1, <2>1, <2>3, PushedMessages
    <3> QED BY <2>3, <3>1
  <2> QED BY <1>1, <2>2, <2>3
<1> QED BY <1>8, <1>9 DEF multiple

\* The fields of messages, but for the quantile.
LEMMA SameDimensions ==
  ASSUME NEW F, NEW L, Without(F, "quantile") = Without(L, "quantile")
  PROVE  Without(MessageFields(WithDefaults(F)), "quantile") = Dimensions(L)
<1> DEFINE q == "quantile"
<1>1. \A M : /\ DOMAIN Without(M, q) = DOMAIN M \ {q}
             /\ \A y \in DOMAIN M \ {q} : Without(M, q)[y] = M[y]
             /\ Without(M, q) = [y \in DOMAIN M \ {q} |-> M[y]]
  BY DEF Without, Restrict
<1>2. \A M : /\ DOMAIN Unreserved(M) = DOMAIN M \ Reserved
             /\ \A y \in DOMAIN M \ Reserved : Unreserved(M)[y] = M[y]
             /\ Unreserved(M) = [y \in DOMAIN M \ Reserved |-> M[y]]
  BY DEF Unreserved, Restrict
<1>3. DOMAIN F \ {q} = DOMAIN L \ {q} /\ \A y \in DOMAIN L \ {q} : F[y] = L[y]
  BY <1>1
<1>4. PICK A, B : A = Spread(defaultFields, F) /\ B = Spread(defaultFields, L)
  OBVIOUS
<1>5. DOMAIN A \ {q} = DOMAIN B \ {q} /\ \A y \in DOMAIN B \ {q} : A[y] = B[y]
  <2>1. /\ DOMAIN A = DOMAIN defaultFields \cup DOMAIN F
        /\ DOMAIN B = DOMAIN defaultFields \cup DOMAIN L
        /\ \A y \in DOMAIN A : A[y] = IF y \in DOMAIN F THEN F[y] ELSE defaultFields[y]
        /\ \A y \in DOMAIN B : B[y] = IF y \in DOMAIN L THEN L[y] ELSE defaultFields[y]
    BY <1>4 DEF Spread
  <2>2. \A y : y # q => (y \in DOMAIN F <=> y \in DOMAIN L)
    BY <1>3
  <2>3. \A y : y # q => (y \in DOMAIN A <=> y \in DOMAIN B)
    BY <2>1, <2>2
  <2> QED BY <1>3, <2>1, <2>2, <2>3
<1>6. Without(A, q) = Without(B, q)
  BY <1>5, WithoutSame
<1>7. Without(Unreserved(A), q) = Unreserved(Without(B, q))
  <2>1. PICK C, D : C = Unreserved(A) /\ D = Without(B, q)
    OBVIOUS
  <2>2. /\ DOMAIN C = DOMAIN A \ Reserved /\ \A y \in DOMAIN C : C[y] = A[y]
        /\ DOMAIN D = DOMAIN B \ {q} /\ \A y \in DOMAIN D : D[y] = B[y]
    BY <1>1, <1>2, <2>1
  <2>3. DOMAIN C \ {q} = DOMAIN D \ Reserved /\ \A y \in DOMAIN D \ Reserved : C[y] = D[y]
    BY <1>5, <2>2
  <2>4. Without(C, q) = [y \in DOMAIN C \ {q} |-> C[y]] /\ Unreserved(D) = [y \in DOMAIN D \ Reserved |-> D[y]]
    BY <1>1, <1>2
  <2>5. Without(C, q) = Unreserved(D)
    BY <2>3, <2>4
  <2> QED BY <2>1, <2>5
<1> QED BY <1>4, <1>6, <1>7, Zenon DEF Dimensions, MessageFields, WithDefaults

\* Where the text is not ambiguous, the way of a sample into its message is followed back.
LEMMA SamplesArriveApart ==
  ASSUME ParserInv, FaithfulInv, MetricsArrive, SeriesStayApart
  PROVE  SamplesArrive
<1> SUFFICES ASSUME options.failOnDuplicateTypeInfo, NEW n \in Numbers
             PROVE  \E k \in Numbers :
                      /\ k <= n /\ text[k].name = text[n].name /\ text[k].labels = text[n].labels
                      /\ \E m \in sent :
                           /\ k \in Range(m.measurements)
                           /\ Without(m.fields, "quantile") = Dimensions(text[k].labels)
  BY DEF SamplesArrive
<1> DEFINE metrics == hecMetrics
<1>1. result \in Seq(Metric) /\ FoundLines \subseteq Nat \ {NaN}
  BY FoundLinesAreLines DEF NaN
<1>2. /\ \E S : metrics \in Seq(S)
      /\ {metric.value : metric \in Range(metrics)} = Numbers
  BY <1>1, HecMetricsAreSamples
<1>3. /\ \A h \in Range(metrics) : LabelsOfLine(h, text)
      /\ \E S : InOrder(metrics, Earlier(S, text))
  BY HecMetricsFaithful DEF SeriesStayApart, NoBucketLabel
<1>4. \A i, j \in 1..Len(metrics) : Id(metrics[i]) = Id(metrics[j]) =>
        /\ metrics[i].fields = metrics[j].fields
        /\ metrics[i].name = metrics[j].name =>
             /\ text[metrics[i].value].name = text[metrics[j].value].name
             /\ text[metrics[i].value].labels = text[metrics[j].value].labels
  BY DEF SeriesStayApart, Id
<1>5. \A i \in 1..Len(metrics) : \E k \in 1..i :
        /\ metrics[k].name = metrics[i].name /\ Id(metrics[k]) = Id(metrics[i])
        /\ \E m \in sent : Carries(m, metrics[k], metrics)
  BY DEF MetricsArrive, Id
<1> HIDE DEF metrics
<1>6. /\ Len(metrics) \in Nat /\ Range(metrics) = {metrics[i] : i \in 1..Len(metrics)}
      /\ \A i \in 1..Len(metrics) : metrics[i] \in Range(metrics) /\ metrics[i].value \in Numbers
  BY <1>2 DEF Range
<1>7. PICK i \in 1..Len(metrics) : metrics[i].value = n
  BY <1>2, <1>6
<1>8. PICK k \in 1..i, m \in sent :
        /\ metrics[k].name = metrics[i].name /\ Id(metrics[k]) = Id(metrics[i])
        /\ Carries(m, metrics[k], metrics)
  BY <1>5
<1>9. PICK v \in Numbers : v = metrics[k].value
  BY <1>6, <1>8
<1>10. k \in 1..Len(metrics) /\ k <= i
  BY <1>6
<1>11. text[v].name = text[n].name /\ text[v].labels = text[n].labels
  BY <1>4, <1>7, <1>8, <1>9, <1>10
<1>12. v <= n
  <2>1. PICK S : InOrder(metrics, Earlier(S, text))
    BY <1>3
  <2>2. <<metrics[k], metrics[i]>> \in Earlier(S, text)
    BY <1>10, <2>1 DEF InOrder
  <2>3. isValid(metrics[k]) /\ isValid(metrics[i])
    BY <1>1, <1>7, <1>9 DEF isValid, Numbers
  <2> QED BY <1>7, <1>9, <1>11, <2>2, <2>3 DEF Earlier
<1>13. v \in Range(m.measurements)
  BY <1>8, <1>9 DEF Carries, Range
<1>14. Without(m.fields, "quantile") = Dimensions(text[v].labels)
  <2>1. PICK other \in Range(metrics) :
          /\ m.fields = MessageFields(WithDefaults(other.fields))
          /\ encodeMultiMetricId(other.fields) = encodeMultiMetricId(metrics[k].fields)
    BY <1>8 DEF Carries
  <2>2. PICK j \in 1..Len(metrics) : other = metrics[j]
    BY <1>6
  <2>3. other.fields = metrics[k].fields
    BY <1>4, <1>10, <2>1, <2>2 DEF Id
  <2>4. Without(other.fields, "quantile") = Without(text[v].labels, "quantile")
    BY <1>3, <1>6, <1>9, <1>10, <2>3 DEF LabelsOfLine
  <2> QED BY <2>1, <2>4, SameDimensions
<1> QED BY <1>11, <1>12, <1>13, <1>14

LEMMA ParsingSteps ==
  ASSUME Parse
  PROVE  outcome = "parsing" /\ UNCHANGED <<collapsed, mmm, complete>>
<1>1. CASE \E line \in Lines : ProcessLine(line)
  BY <1>1 DEF Parse, ProcessLine, InvalidLine, TypeInfo, Help, SampleWithoutType, ScalarSample,
              MultiSample, Read
<1>2. CASE Done
  BY <1>2 DEF Parse, Done
<1> QED BY <1>1, <1>2 DEF Parse

LEMMA PipelineInductive ==
  PipelineSpec => [](CollapseInv /\ SentInv)
<1>1. PipelineInit => CollapseInv /\ SentInv
  <2> SUFFICES ASSUME PipelineInit PROVE CollapseInv /\ SentInv
    OBVIOUS
  <2>1. collapsed = 0 /\ mmm = <<>> /\ complete = <<>> /\ outcome = "parsing" /\ sent = Null
    BY DEF PipelineInit, Init, ParserInit
  <2>2. mmm = [id \in DOMAIN mmm |-> mmm[id]] /\ complete \in Seq({}) /\ Range(<<>>) = {}
    BY <2>1 DEF Range
  <2>3. SizeWithinLimit
    BY <2>1 DEF SizeWithinLimit
  <2>4. Merged(MultiMetric, hecMetrics, collapsed)
    BY <2>1 DEF Merged
  <2> QED BY <2>1, <2>2, <2>3, <2>4 DEF CollapseInv, SentInv
<1>2. CollapseInv /\ SentInv /\ [PipelineNext]_<<vars, messageVars>> => (CollapseInv /\ SentInv)'
  <2> SUFFICES ASSUME CollapseInv, SentInv, [PipelineNext]_<<vars, messageVars>>
               PROVE  CollapseInv' /\ SentInv'
    OBVIOUS
  <2>1. CASE Parse /\ UNCHANGED messageVars
    <3>1. outcome = "parsing" /\ UNCHANGED <<collapsed, mmm, complete>> /\ UNCHANGED sent
      BY <2>1, ParsingSteps DEF messageVars
    <3>2. CollapseInv'
      BY <3>1, CollapseWaits
    <3>3. sent' = Null
      BY <3>1 DEF SentInv
    <3> QED BY <3>2, <3>3 DEF SentInv
  <2>2. CASE Collapse /\ UNCHANGED messageVars
    <3>1. sent = Null
      BY <2>2 DEF Collapse, SentInv, CollapseInv
    <3>2. CollapseInv'
      BY <2>2, CollapseStep
    <3> QED BY <2>2, <3>1, <3>2 DEF SentInv, messageVars
  <2>3. CASE PushAll \/ UNCHANGED <<vars, messageVars>>
    <3>1. UNCHANGED <<text, result, outcome, collapsed, mmm, complete>>
      BY <2>3 DEF PushAll, vars, parserVars
    <3>2. hecMetrics' = hecMetrics /\ MultiMetric' = MultiMetric
      BY <3>1, HecMetricsStay DEF MultiMetric
    <3>3. SizeWithinLimit' = SizeWithinLimit
      BY <3>1 DEF SizeWithinLimit
    <3>4. CollapseInv'
      BY <3>1, <3>2, <3>3 DEF CollapseInv
    <3>5. SentInv'
      BY <2>3, <3>1, <3>2 DEF SentInv, PushAll, messageVars
    <3> QED BY <3>4, <3>5
  <2> QED BY <2>1, <2>2, <2>3 DEF PipelineNext, Next
<1> QED BY <1>1, <1>2, PTL DEF PipelineSpec

\* What the parser is doing, and how far the merging may be.
ProgressInv ==
  /\ options \in OptionSets
  /\ outcome \in {"parsing", "parsed", "failed"}
  /\ outcome = "parsed" => currentMultiSample = Null
  /\ collapsed = 0 \/ (outcome = "parsed" /\ collapsed <= Len(hecMetrics))

LEMMA HecMetricsAreCounted ==
  ASSUME ParserInv
  PROVE  Len(hecMetrics) \in Nat
<1>1. result \in Seq(Metric) /\ FoundLines \subseteq Nat \ {NaN}
  BY FoundLinesAreLines DEF NaN
<1>2. PICK S : hecMetrics \in Seq(S)
  BY <1>1, HecMetricsAreSamples
<1> QED BY <1>2

LEMMA ParseKeepsProgress ==
  ASSUME ProgressInv, Parse
  PROVE  ProgressInv'
<1>1. outcome = "parsing" /\ collapsed = 0 /\ collapsed' = 0 /\ options \in OptionSets
  BY ParsingSteps DEF ProgressInv
<1>2. ASSUME NEW line \in Lines, ProcessLine(line)
      PROVE  options' = options /\ outcome' \in {"parsing", "failed"}
  BY <1>1, <1>2 DEF ProcessLine, InvalidLine, TypeInfo, Help, SampleWithoutType, ScalarSample,
                    MultiSample, Read, Throw
<1>3. CASE Done
  BY <1>1, <1>3 DEF Done, ProgressInv
<1> QED BY <1>1, <1>2, <1>3 DEF Parse, ProgressInv

LEMMA ProgressInductive == PipelineSpec => []ProgressInv
<1>1. PipelineInit => ProgressInv
  BY DEF PipelineInit, Init, ParserInit, ProgressInv
<1>2. ProgressInv /\ ParserInv /\ CollapseInv /\ [PipelineNext]_<<vars, messageVars>> => ProgressInv'
  <2> SUFFICES ASSUME ProgressInv, ParserInv, CollapseInv, [PipelineNext]_<<vars, messageVars>>
               PROVE  ProgressInv'
    OBVIOUS
  <2>1. CASE Parse
    BY <2>1, ParseKeepsProgress
  <2>2. CASE Collapse
    <3>1. UNCHANGED <<options, text, outcome, currentMultiSample, result>>
      BY <2>2 DEF Collapse, parserVars
    <3>2. hecMetrics' = hecMetrics
      BY <3>1, HecMetricsStay
    <3>3. collapsed \in Nat
      BY DEF CollapseInv
    <3>4. collapsed < Len(hecMetrics) /\ collapsed' = collapsed + 1 /\ outcome = "parsed"
      BY <2>2 DEF Collapse
    <3>5. Len(hecMetrics) \in Nat
      BY HecMetricsAreCounted
    <3> QED BY <3>1, <3>2, <3>3, <3>4, <3>5 DEF ProgressInv
  <2>3. CASE PushAll \/ UNCHANGED <<vars, messageVars>>
    <3>1. UNCHANGED <<options, text, outcome, currentMultiSample, result, collapsed>>
      BY <2>3 DEF PushAll, vars, parserVars
    <3>2. hecMetrics' = hecMetrics
      BY <3>1, HecMetricsStay
    <3> QED BY <3>1, <3>2 DEF ProgressInv
  <2> QED BY <2>1, <2>2, <2>3 DEF PipelineNext, Next
<1> QED BY <1>1, <1>2, ParserInductive, PipelineInductive, PTL DEF PipelineSpec
------------------------------------------------------------------------------
(***************************************************************************)
(* Theorems                                                                *)
(***************************************************************************)
\* The samples of a histogram or summary that follow each other in the text come to one
\* metric: whatever the text, the current metric is replaced only by a sample that belongs to
\* another one (parser/index.ts:73-80, 126-190, 197-243).
THEOREM GroupsAreTogether == PipelineSpec => []GroupsStayTogether
<1>1. ParserInv => GroupsStayTogether
  BY DEF ParserInv
<1> QED BY <1>1, ParserInductive, PTL

\* Whatever the text and its types, no sample comes to two metrics, and where lines may not be
\* ignored each comes to one, but for a bucket without its threshold and a sum or count that
\* a later one has replaced (parser/index.ts:82-235).
THEOREM SamplesAreCountedOnce == PipelineSpec => []SamplesCountedOnce
<1>1. ParserInv => SamplesCountedOnce
  <2> SUFFICES ASSUME ParserInv, outcome # "failed",
                      NEW n \in 1..Len(text), text[n].kind = "metric"
               PROVE  /\ \A i, j \in Holders(n) : i = j
                      /\ options.failOnInvalidLine /\ ~options.ignoreMetricsWithoutType =>
                           Holders(n) # {} \/ Superseded(n) \/ WithoutThreshold(n)
    BY DEF SamplesCountedOnce
  <2>1. ASSUME NEW i \in Holders(n), NEW j \in Holders(n)
        PROVE  i = j
    <3>1. /\ i \in 1..Len(Found) /\ n \in LinesOf(Found[i])
          /\ j \in 1..Len(Found) /\ n \in LinesOf(Found[j])
      BY DEF Holders
    <3> QED BY <3>1 DEF ParserInv, LinesHeldOnce
  <2>2. options.failOnInvalidLine /\ ~options.ignoreMetricsWithoutType => Accounted(n)
    BY DEF ParserInv, NoneIsLost
  <2> QED BY <2>1, <2>2 DEF Accounted
<1> QED BY <1>1, ParserInductive, PTL

\* Whatever the text, what the metrics hold are lines of it, no metric is left behind when the
\* parser is done, and the objects are made of metrics there are (parser/index.ts:44-56,
\* 243-246, collapse.ts:46-77).
THEOREM PipelineTypeCorrect == PipelineSpec => []TypeOK
<1>1. ParserInv /\ CollapseInv /\ ProgressInv => TypeOK
  <2> SUFFICES ASSUME ParserInv, CollapseInv, ProgressInv PROVE TypeOK
    OBVIOUS
  <2>1. ParserTypes /\ DeclaredByLines /\ LinesHeldOnce
    BY DEF ParserInv
  <2>2. \A name \in DOMAIN typeMap : typeMap[name] \in Scalar \cup Multi
    BY <2>1 DEF DeclaredByLines
  <2>3. \A i \in 1..Len(Found) : Found[i].type \in Scalar \cup Multi
    BY <2>1, FoundMetrics DEF Metric, Single, Gathered
  <2>4. collapsed \in 0..Len(hecMetrics)
    <3>1. Len(hecMetrics) \in Nat
      BY HecMetricsAreCounted
    <3> QED BY <3>1 DEF CollapseInv, ProgressInv
  <2> QED BY <2>1, <2>2, <2>3, <2>4 DEF TypeOK, ParserTypes, LinesHeldOnce, CollapseInv, ProgressInv
<1> QED BY <1>1, ParserInductive, PipelineInductive, ProgressInductive, PTL

\* Objects that are open have up to maxMetrics measurements, closed ones one more, whatever
\* metrics they are made of (convert/collapse.ts:46-77).
THEOREM ObjectsStayWithinLimit == PipelineSpec => []SizeWithinLimit
<1>1. CollapseInv => SizeWithinLimit
  BY DEF CollapseInv
<1> QED BY <1>1, PipelineInductive, PTL

\* Whatever the text, its samples arrive: each HEC metric or an earlier one of the same name and
\* identifier is in a message; what a message carries are values of samples under their names,
\* with fields of their identifier; and it has not more measurements than it may
\* (convert/index.ts:39-53, collapse.ts:46-77, client.ts:105-121, serialize.ts:29-65).
THEOREM MetricsReachHec ==
  PipelineSpec => [](sent # Null => MetricsArrive /\ OnlySamplesArrive)
<1>1. ParserInv /\ CollapseInv /\ SentInv => (sent # Null => MetricsArrive /\ OnlySamplesArrive)
  <2> SUFFICES ASSUME ParserInv, CollapseInv, SentInv, sent # Null
               PROVE  MetricsArrive /\ OnlySamplesArrive
    OBVIOUS
  <2>1. result \in Seq(Metric) /\ FoundLines \subseteq Nat \ {NaN}
    BY FoundLinesAreLines DEF NaN
  <2>2. /\ \E S : hecMetrics \in Seq(S)
        /\ {metric.value : metric \in Range(hecMetrics)} = Numbers
    BY <2>1, HecMetricsAreSamples
  <2>3. /\ MetricsArrive
        /\ \A m \in sent : Cardinality(DOMAIN m.measurements) <=
             IF multipleMetricFormatEnabled THEN maxMetrics + 1 ELSE 1
    BY <2>2, MessagesOfMetrics
  <2>4. \A m \in sent : \A name \in DOMAIN m.measurements : m.measurements[name] \in Numbers
    <3> SUFFICES ASSUME NEW m \in sent, NEW name \in DOMAIN m.measurements
                 PROVE  m.measurements[name] \in Numbers
      OBVIOUS
    <3>1. PICK metric \in Range(hecMetrics) :
            metric.name = name /\ Carries(m, metric, hecMetrics)
      BY <2>3 DEF MetricsArrive
    <3>2. m.measurements[name] = metric.value
      BY <3>1 DEF Carries
    <3> QED BY <2>2, <3>2
  <2> QED BY <2>3, <2>4 DEF OnlySamplesArrive, Range
<1> QED BY <1>1, ParserInductive, PipelineInductive, PTL

\* Whatever the text, every number of a sample found arrives with the labels of its sample,
\* or an earlier one of its series does, unless the text is ambiguous to this code: where
\* SeriesStayApart is false, a sum or count has a label le, which is dropped, or two series
\* come to one identifier or to one name and fields, as a gauge x_p50 and the median of a
\* summary x do; then what is converted still arrives as MetricsReachHec says
\* (parser/index.ts:73-80, 197-243, convert/index.ts:17, 39-53, histogram.ts:7-25,
\* summary.ts:12-38, collapse.ts:19-77, client.ts:105-121, serialize.ts:29-65).
THEOREM EverySampleReachesHec == PipelineSpec => []SamplesReachHec
<1>1. ParserInv /\ FaithfulInv /\ (sent # Null => MetricsArrive /\ OnlySamplesArrive)
        => SamplesReachHec
  BY SamplesArriveApart DEF SamplesReachHec
<1> QED BY <1>1, ParserInductive, MetricsAreFaithful, MetricsReachHec, PTL
==============================================================================
