SPECIFICATION Spec
CONSTANTS
  b1 = b1
  b2 = b2
  s1 = s1
  p1 = p1
  p2 = p2
  env = env
  gui = gui
  none = none
  Browsers <- OneBrowser
  Strangers <- OneStranger
  ProxyAddrs <- OneAddr
  Passwords <- OnePassword
  Env = env
  None = none
  Window = 1
  MaxAttempts = 2
  LockoutSteps <- TwoSteps
  Memory = 2
  MaxTracked = 1
  LookupAge = 1
  Ttl = 0
  MaxTime = 5
  Limits <- ThrottleLimits
PROPERTIES ThrottleHolds
CHECK_DEADLOCK FALSE
