SPECIFICATION Spec
CONSTANTS
  r1 = r1  r2 = r2  client = client
  lower = lower  capital = capital
  short = short  long = long  different = different
  employee = employee  hr = hr
  Registrations <- TwoRegistrations
  Sessions <- OneSession
  Spellings <- TwoSpellings
  Normal <- NormalOfTwo
  Passwords <- ThreePasswords
  Significant <- SignificantOfThree
  Roles <- TwoRoles
  RequestedRole <- RequestedRoles
  Faulty <- OneFaulty
  TokenMinutes = 0
  LastMinute = 1
  NoEmail = NoEmail
  NoUser = NoUser
INVARIANTS
  TypeOK
  OneUserPerEmail
  AccountOpens
  TokenIsOwners
PROPERTIES
  RevocationHolds
  EveryRegistrationEnds
  RegistersAsPromised
CHECK_DEADLOCK FALSE
