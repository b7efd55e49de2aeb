SPECIFICATION Spec
CONSTANTS
  Doc = {d1}
  Text = {t1, t2}
  Job = {j1, j2}
  NoDoc = NoDoc
  NoText = NoText
  RlsEnforced = FALSE
  DbFaults = FALSE
  MaxCrashes = 0
SYMMETRY Symmetry
INVARIANT OneChunkSetPerDocument
