SPECIFICATION Spec
CONSTANTS
  MaxId = 2
  Contents = {c1, c2}
  Servers = {s1}
  NoTab = NoTab
  Tabs = {a, b}
  Workers = {w1}
  Limits <- ReleaseLimits
INVARIANT VersionsRunOn
INVARIANT HeadIsLatest
INVARIANT OriginsAreProd
INVARIANT ServersHaveTargets
PROPERTY VersionsStay
PROPERTY PinnedServersStay
PROPERTY LockProtects
SYMMETRY Symmetry
CHECK_DEADLOCK FALSE
