SPECIFICATION FairSpec
CONSTANTS
  r1 = r1 r2 = r2 h1 = h1 h2 = h2 p1 = p1 p2 = p2 s1 = s1 s2 = s2
  Requests = {r1, r2}
  Tagged = {r1}
  Plugins = {p1, p2}
  HasCheck = {p1, p2}
  Subs = {s1, s2}
  PluginOf <- MCPluginOf
  Hooks = {h1}
  MaxConcurrent = 1
  MaxAttempts <- MCMaxAttempts
  CustomRetry = {r1}
  Host = {"midflight", "clear"}
CHECK_DEADLOCK FALSE
INVARIANTS AuthorizationComplete ChecksComplete LifecyclePaired
PROPERTIES NoExecutionAfterClear EveryCallEnds ImplementsAdmission
