SPECIFICATION Spec
CONSTANTS
  w1 = w1  w2 = w2  t1 = t1
  creator = creator  other = other  hr = hr  admin = admin  disabled = disabled
  Workers <- OneWorker
  Tickets <- OneTicket
  Users <- AllUsers
  Role <- RolesOfAll
  Active <- ActiveUsers
  Creator <- CreatorOfOne
  Faulty <- OneWorker
  MaxChanges = 4
  NoUser = NoUser
  NoWorker = NoWorker
  Unknown = Unknown
INVARIANT RulesAsDocumented
PROPERTY FollowsLifecycle
