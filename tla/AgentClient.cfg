SPECIFICATION AgentSpec
CONSTANTS
  r1 = r1  r2 = r2  r3 = r3
  a1 = a1  a2 = a2
  Requests <- ThreeRequests
  Calls <- TwoCalls
  Actions <- TwoActions
  SessionLength <- Lengths
  Complete <- TwoActions
  Timed <- FirstTimed
  GivenTime = GivenTime
  Keys <- KeysOfCalls
  Contents <- ContentsOfCalls
  Citing <- CitingFirst
  Faulty <- OneFaulty
  LastDay = 2
  NoKey = NoKey
  NoContent = NoContent
  NoTicket = NoTicket
INVARIANTS
  AgentTypeOK
  OneTicketPerAction
  TimedNeverConflicts
  RetryOnlyWhenRacing
PROPERTIES
  CallTakesEffect
  KeepsConfirmation
