SPECIFICATION Spec
CONSTANTS
  w1 = w1  w2 = w2  t1 = t1
  creator = creator  other = other  hr = hr  admin = admin  disabled = disabled
  Workers <- TwoWorkers
  Tickets <- OneTicket
  Users <- FewUsers
  Role <- RolesOfFew
  Active <- FewUsers
  Creator <- CreatorOfOne
  Faulty <- TwoWorkers
  MaxChanges = 5
  NoUser = NoUser
  NoWorker = NoWorker
  Unknown = Unknown
INVARIANTS
  TypeOK
  AuditMatchesHistory
  NothingLeftBehind
  StatusRecorded
  StartsFromPast
  MovesPermitted
  AssignmentAudited
PROPERTIES
  NeverReopened
  EveryRequestEnds
