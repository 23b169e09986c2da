SPECIFICATION Spec
CONSTANTS
  r1 = r1  r2 = r2  r3 = r3
  k1 = k1  k2 = k2  c1 = c1  c2 = c2
  Requests <- ThreeRequests
  Keys <- TwoKeys
  Contents <- TwoContents
  Citing <- CitingFirst
  Faulty <- OneFaulty
  LastDay = 2
  NoKey = NoKey
  NoContent = NoContent
  NoTicket = NoTicket
INVARIANTS
  TypeOK
  ExactlyOnce
  AllOrNothing
  RetryHasWinner
  NumbersDense
  TraceTrue
  LocksProgress
PROPERTIES
  Durable
  ConflictNotMasked
  EveryRequestEnds
  KeepsPromise
