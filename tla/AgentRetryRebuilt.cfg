SPECIFICATION AgentSpec
CONSTANTS
  r1 = r1  r2 = r2  r3 = r3
  a1 = a1  a2 = a2
  Requests <- TwoCalls
  Calls <- TwoCalls
  Actions <- OneAction
  SessionLength <- Lengths
  Complete <- OneAction
  Timed <- NoneTimed
  GivenTime = GivenTime
  Keys <- KeysOfCalls
  Contents <- ContentsOfCalls
  Citing <- CitingFirst
  Faulty <- NoneFaulty
  LastDay = 1
  NoKey = NoKey
  NoContent = NoContent
  NoTicket = NoTicket
INVARIANT RepeatedActionReplayed
