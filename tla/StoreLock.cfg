CONSTANTS
  p = p
  q = q
  r = r
  here = here
  there = there
  Process = {p, q, r}
  PidSpace <- TwoHosts
  Takeover = {r}
  Nobody = Nobody
  Heartbeat = 2
  StaleAfter = 4
  UnwrittenGrace = 0
  TakeoverGrace = 3
  ForeignWait = 5
  RetryPeriod = 3
  MaxReclaims = 2
  MaxExits = 1
  MaxPauses = 1
SPECIFICATION FairLockSpec
INVARIANTS
  DisplacedHasStopped
PROPERTY PrimaryIsReplaced
CHECK_DEADLOCK FALSE
