SPECIFICATION FairSpec
CONSTANTS
  Mail = {m1, m2, m3, m4}
  MaxRestarts = 2
INVARIANTS
  NoLostWakeup
PROPERTIES
  ImplementsFifo
  AttemptsAll
