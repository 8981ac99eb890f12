SPECIFICATION Spec
CONSTANTS
  b1 = b1
  b2 = b2
  s1 = s1
  p1 = p1
  p2 = p2
  env = env
  gui = gui
  none = none
  Browsers <- TwoBrowsers
  Strangers = {}
  ProxyAddrs <- TwoAddrs
  Passwords <- TwoPasswords
  Env = env
  None = none
  Window = 1
  MaxAttempts = 4
  LockoutSteps <- TwoSteps
  Memory = 2
  MaxTracked = 2
  LookupAge = 1
  Ttl = 0
  MaxTime = 1
  Limits <- SessionLimits
INVARIANTS OldPasswordIsOut
PROPERTIES ProxyIsFoundAgain
CHECK_DEADLOCK FALSE
