---------------------------- MODULE MCHecMessages ----------------------------
(* Short texts for TLC: metrics x and y, samples with and without labels.  *)
EXTENDS HecMessages

Defaults ==
  [failOnInvalidLine |-> TRUE, failOnDuplicateHelp |-> FALSE,
   failOnDuplicateTypeInfo |-> FALSE, ignoreExplicitlyUntyped |-> FALSE,
   ignoreMetricsWithoutType |-> FALSE]
Strict ==
  [Defaults EXCEPT !.failOnDuplicateHelp = TRUE, !.failOnDuplicateTypeInfo = TRUE]
Lenient ==
  [failOnInvalidLine |-> FALSE, failOnDuplicateHelp |-> TRUE,
   failOnDuplicateTypeInfo |-> TRUE, ignoreExplicitlyUntyped |-> TRUE,
   ignoreMetricsWithoutType |-> TRUE]
MCOptionSets == {Defaults, Strict, Lenient}

TypeLine(name, type) == [kind |-> "type-info", name |-> name, type |-> type]
HelpLine(name) == [kind |-> "help", name |-> name]
Sample(name, labels) ==
  [kind |-> "metric", name |-> name, labels |-> labels, nan |-> FALSE]
NotANumber(name, labels) == [Sample(name, labels) EXCEPT !.nan = TRUE]

None == <<>>
A    == [a |-> <<"1">>]

MCLines ==
  {[kind |-> "invalid"], HelpLine(<<"x">>),
   TypeLine(<<"x">>, "histogram"), TypeLine(<<"x">>, "summary"),
   TypeLine(<<"x">>, "untyped"), TypeLine(<<"x", "sum">>, "counter"),
   NotANumber(<<"x">>, A), Sample(<<"x">>, [_value |-> <<"1">>]),
   Sample(<<"x">>, [quantile |-> <<"0.5">>]), Sample(<<"x", "p50">>, None),
   Sample(<<"x", "bucket">>, A), Sample(<<"x", "bucket">>, [le |-> <<"1">>]),
   Sample(<<"x", "bucket">>, [a |-> <<"1">>, le |-> <<"1">>]),
   Sample(<<"x", "sum">>, None), Sample(<<"x", "count">>, None)}

MCLabelOrder == <<"_value", "a", "b", "le", "quantile">>

MCPercent == (<<"0.5">> :> 50) @@ (<<"1">> :> 100)

MCDefaultFields == [a |-> <<"2">>, b |-> <<"2">>]

\* Labels whose values contain the signs that join an identifier.
JoinedLines ==
  {Sample(<<"x">>, [a |-> <<"1", ";", "b", "=", "2">>]),
   Sample(<<"y">>, [a |-> <<"1">>, b |-> <<"2">>])}
=============================================================================
