SPECIFICATION FairSpec
CONSTANTS
  Instances = {i1}
  NoInstance = NoInstance
  Templates = {t1,t2}
  NoTemplate = NoTemplate
  Admins = {a1}
  Monitor = Monitor
  Requests = {"start","stop","edit"}
  Limits <- RecoveryLimits
PROPERTY WantedComesBack
CHECK_DEADLOCK FALSE
