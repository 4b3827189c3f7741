SPECIFICATION BuildSpec
CONSTANTS
  Cases <- MCCases
  AliasOrder <- MCAliasOrder
  MaxNesting = 2
CHECK_DEADLOCK FALSE
INVARIANTS RuntimesAgree FilterMeansConditions ClausesFit ValidatedIsBuilt
