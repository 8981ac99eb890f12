SPECIFICATION Spec
CONSTANTS
  Instances = {i1}
  NoInstance = NoInstance
  Templates = {t1,t2}
  NoTemplate = NoTemplate
  Admins = {a1,a2}
  Monitor = Monitor
  Requests = {"start","stop","toggle","rename","delete","edit","create","detach","restart"}
  Limits <- FailureLimits
INVARIANT TypeOK
INVARIANT SettledAgree
INVARIANT SeenRanThisBoot
INVARIANT NoDanglingTemplate
PROPERTY RebootIsNotACrash
SYMMETRY Symmetry
CHECK_DEADLOCK FALSE
