SPECIFICATION Spec
CONSTANTS
  Request = {q1, q2, q3, q4}
  Null = Null
  Sizes = {1, 2, 3}
  MaxFileSize = 2
  MaxStorage = 3
  MaxDocuments = 2
  MaxCrashes = 1
SYMMETRY Symmetry
INVARIANTS
  UnracedWithinLimits
  FilesAreStored
  OrphansAreAbandoned
