SPECIFICATION FairSpec
CONSTANTS
  Doc = {d1}
  Text = {t1, t2}
  Job = {j1, j2, j3}
  NoDoc = NoDoc
  NoText = NoText
  RlsEnforced = FALSE
  DbFaults = TRUE
  MaxCrashes = 1
INVARIANTS
  CompletedIsSearchable
  DeletedLeavesNothing
  FreshUnlessContended
  UnfinishedIsOwed
PROPERTIES
  LifeCycleUnlessContended
  Settles
