SPECIFICATION FairSpec
CONSTANTS
  c1 = c1 c2 = c2 email = email total = total
  Calls = {c1, c2}
  Columns = {email}
  Aliases = {total}
  RequestsOf <- MCParametersOf
  MaxAttempts = 2
  PipelineAttempts = 3
CHECK_DEADLOCK FALSE
INVARIANTS OnlyOwnAliases
