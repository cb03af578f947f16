\* collapse.ts: metrics are combined based on their dimensions.
SPECIFICATION PipelineSpec
CONSTANTS
  Lines <- JoinedLines
  MaxLines = 2
  OptionSets <- MCOptionSets
  Null = Null
  maxMetrics = 1
  LabelOrder <- MCLabelOrder
  Percent <- MCPercent
  defaultFields <- MCDefaultFields
INVARIANT DimensionsKept
CHECK_DEADLOCK FALSE
