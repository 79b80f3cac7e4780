SPECIFICATION FairSpec
CONSTANTS
  Gens = {0, 1, 2}
  Root = 0
  Kinds = {"traffic", "flow", "stream"}
  MaxObs = 2
  Failures = TRUE
INVARIANTS GeneratorInv NoUseAfterFree RefcountsExact PendingExact
PROPERTIES KeepsPromise WalkContinues
