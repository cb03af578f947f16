\* Texts of four lines, objects of one measurement and one more.
SPECIFICATION PipelineSpec
CONSTANTS
  Lines <- MCLines
  MaxLines = 4
  OptionSets <- MCOptionSets
  Null = Null
  maxMetrics = 1
  LabelOrder <- MCLabelOrder
  Percent <- MCPercent
  defaultFields <- MCDefaultFields
INVARIANTS
  GroupsStayTogether
  SamplesCountedOnce
  SamplesReachHec
CHECK_DEADLOCK FALSE
