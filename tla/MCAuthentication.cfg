SPECIFICATION Spec
CONSTANTS
  Session = {1, 2}
  Owner = {ann}
  Request = {1, 2, 3}
  MaxGeneration = 2
  Nobody = Nobody
  NoSession = NoSession
  Challenge = {c}
  MaxAttempts = 2
  NoChallenge = NoChallenge
CHECK_DEADLOCK FALSE
INVARIANTS
  AuthenticationTypeOK
  OneLiveToken
  ReuseEndsTheSession
  ExchangedOnce
  ChallengeSpentOnce
PROPERTIES
  ImplementsChain
  EveryRequestEnds
