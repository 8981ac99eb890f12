SPECIFICATION Spec
CONSTANTS
  Servers = {s1, s2}
  NoServer = NoServer
  PortKinds <- OneKind
  Range <- TwoPorts
  OldPorts = {99}
  Threads = {t1, t2}
  Schedules <- TwoTimesOrNone
  Day = 3
  Grace = 1
  Horizon = 4
  Limits <- FleetLimits
SYMMETRY Alike
INVARIANT PortsApart
PROPERTY FirstPassOnly
PROPERTY NothingLeftDue
CHECK_DEADLOCK FALSE
