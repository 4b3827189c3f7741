SPECIFICATION JoinFairSpec
CONSTANTS
  t1 = t1 t2 = t2 t3 = t3 t4 = t4 t5 = t5 hidden = hidden
  Tables = {t1, t2, t3, t4}
  Unselected = {hidden}
  Roots = {t1}
  JoinTypes = {"inner"}
  MaxTargets = 3
  MaxJoins = 1
CHECK_DEADLOCK FALSE
INVARIANTS ShortestPathChosen JoinTreeOrdered
