CONSTANTS
  Redirect = {r}
  Allowed = {r}
  Challenge = {c1, c2}
  Transport = {t1, t2, t3}
  Key = Key
  MAX_SESSIONS = 2
  MAX_DASHBOARD_SESSIONS = 2
  CodeTTL = 0
  TokenTTL = 1
  LoginTTL = 1
  SessionTTL = 1
  MaxClock = 2
  MaxCodes = 1
  MaxTokens = 2
  MaxLogins = 3
  MaxForms = 1
  MaxStarts = 1
SPECIFICATION HttpSpec
SYMMETRY TransportSymmetry
INVARIANTS
  OneTokenPerCode
  ApprovedOnly
  SessionsCounted
PROPERTIES
  ActiveSessionsStay
  CodeWaitsForHolder
CHECK_DEADLOCK FALSE
