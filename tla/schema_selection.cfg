SPECIFICATION Spec
CONSTANTS
  Camel <- MCCamel
  CamelCase = TRUE
  Databases <- MCDatabases
  Objects <- MCObjects
  UnqualifiedName <- MCUnqualified
  SchemaOf <- MCSchemaOf
  Schemas = {"main", "api"}
  Profiles = {"dev", "test"}
  Reviewers = {"review"}
  Overrides = {"override"}
  Requests <- MCRequests
  Servers = {"server"}
  Assignments <- MCAssignments
  Documents <- MCDocuments
  Texts = {"", "t"}
  Everything = ""
  Matches <- MCMatches
  MaxChanges = 1
  MaxFaults = 1
CHECK_DEADLOCK FALSE
INVARIANTS ExposedWasChosen UntouchedKept ForeignKeysFaithful
PROPERTIES SaveKeepsOthers PrunedWasConfirmed
