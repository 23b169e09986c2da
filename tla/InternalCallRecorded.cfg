SPECIFICATION Spec
CONSTANTS
  r1 = r1  r2 = r2  r3 = r3
  k1 = k1  k2 = k2  c1 = c1  c2 = c2
  Requests <- TwoRequests
  Keys <- OneKey
  Contents <- TwoContents
  Citing <- CitingFirst
  Faulty <- NoneFaulty
  LastDay = 1
  NoKey = NoKey
  NoContent = NoContent
  NoTicket = NoTicket
INVARIANT CallRecorded
