SPECIFICATION FairSpec
CONSTANTS
  Browsers = {phone, desktop}
  Lifetime = 1
  Idle = 2
  Absolute = 3
  MaxSessions = 1
  MaxPending = 1
  Tokens = {1, 2, 3}
  Codes = {1}
  Asks = {1}
  Sessions = {1, 2}
  Environments = {{"restart"}, {"crash", "fail"}, {"overlap"}}
INVARIANTS TypeOK AdmittedOnce OrderlyTokenIsKept
PROPERTY SessionsEnd
