CONSTANTS
  s1 = s1
  s2 = s2
  alice = alice
  bob = bob
  NoUser = NoUser
  n1 = n1
  revoke = revoke
  transfer = transfer
  SessionIds <- MCSessionIds
  Users <- MCUsers
  Nonces <- MCNonces
  Timestamps <- MCTimestamps
  IdleTtl = 1
  HardTtl = 1
  NonceWindow = 1
  HandshakeTtl = 1
  MaxSessions = 1
  MaxHandshakes = 1
  MaxNonces = 1
  MaxClock = 2
  MaxDelivered = 1
  Requests <- MCRequests
  ActionOf <- MCActionOf
  NeedsOtp <- MCNeedsOtp
  OtpTtl = 1
  Cooldown = 1
  MaxAttempts = 1
  TokenTtl = 1
  MaxLiveTokens = 0
  Minute = 2
  PerMinuteMax = 1
  Day = 3
  PerDayMax = 2
  MaxTokens = 2
SYMMETRY MCSymmetry
SPECIFICATION StepUpSpec
INVARIANTS
  StepUpTypeOK
  TokensAcceptedOnce
  GuessesBounded
  VelocityBound
PROPERTIES
  ImplementsSecureChannel
CHECK_DEADLOCK FALSE
