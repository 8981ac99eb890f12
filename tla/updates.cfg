SPECIFICATION Spec
CONSTANTS
  stable = stable
  a1 = a1
  none = none
  Branches <- OneBranch
  Admins <- OneAdmin
  MaxJobs = 2
  MaxBuild = 2
  NoJob = none
  Limits <- UpdateLimits
INVARIANTS OneWriter JobsLeaveNothing
PROPERTIES SuccessIsInstalled RestartsOntoTheUpdate UpdatesEnd
CHECK_DEADLOCK FALSE
