CONSTANTS
  Calls = {c1, c2}
  Stoppers = {s1, s2}
  None = None
SPECIFICATION FairSpec
INVARIANTS OnePool RulesFollowRuntime
PROPERTIES ImplementsLease RuntimeReleased RunRetired
