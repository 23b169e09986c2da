SPECIFICATION ReadSpec
CONSTANTS
  r1 = r1  r2 = r2  r3 = r3
  k1 = k1  c1 = c1  c2 = c2
  ann = ann
  Requests <- ThreeRequests
  Keys <- OneKey
  Contents <- TwoContents
  Citing <- TwoContents
  Faulty <- OneFaulty
  LastDay = 1
  NoKey = NoKey
  NoContent = NoContent
  NoTicket = NoTicket
  Employees <- OneEmployee
  Staff = Staff
  Creator <- CreatorOfThree
  PageSize = 1
SYMMETRY SymmetryOfReads
INVARIANTS
  ReadTypeOK
  PageHoldsTotal
  FullReadComplete
  CreationFirst
  ReportAgrees
CHECK_DEADLOCK FALSE
