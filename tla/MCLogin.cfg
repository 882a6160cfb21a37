CONSTANTS
  s1 = s1
  s2 = s2
  alice = alice
  NoUser = NoUser
  k1 = k1
  k2 = k2
  code = code
  NoCode = NoCode
  q1 = q1
  q2 = q2
  SessionIds <- MCSessionIds
  Users <- MCUsers
  Credentials <- MCCredentials
  Codes <- MCCodes
  Requests <- MCRequests
  Threshold = 2
  LockoutWindow = 1
  StateTtl = 0
  CodeTtl = 1
  MaxClock = 1
  MaxGrants = 2
SYMMETRY MCSymmetry
SPECIFICATION Spec
INVARIANTS
  TypeOK
  LockoutBound
  EnrolledHasPasskey
  CeremoniesHaveGrants
PROPERTIES
  UsesSecureChannel
CHECK_DEADLOCK FALSE
