SPECIFICATION Spec
CONSTANTS
  w1 = w1  w2 = w2  t1 = t1
  creator = creator  other = other  hr = hr  admin = admin  disabled = disabled
  Workers <- TwoWorkers
  Tickets <- OneTicket
  Users <- SomeUsers
  Role <- RolesOfSome
  Active <- SomeUsers
  Creator <- CreatorOfOne
  Faulty <- NoneFaulty
  MaxChanges = 4
  NoUser = NoUser
  NoWorker = NoWorker
  Unknown = Unknown
PROPERTY LegalEdges
