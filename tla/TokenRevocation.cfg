SPECIFICATION Spec
CONSTANTS
  Replicas = {r1, r2}
  Revokers = {a1, a2}
  Spread = 1
  Skew = 1
  Lag = 1
  Life = 6
  MarkerTTL = 6
  MaxTokens = 1
  Horizon = 9
CHECK_DEADLOCK FALSE
INVARIANTS
  IInv
  RevokedStaysRevoked
  LaterTokensLive
