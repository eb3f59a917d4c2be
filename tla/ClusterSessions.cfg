SPECIFICATION Spec
CONSTANTS
  Name = {s1, k1}
  StaticName = {s1}
  Discoverable = {s1, k1}
  K8sConfig = {g1}
  StaticConfig = StaticConfig
  NoConfig = NoConfig
  StaleThreshold = 1
  Conn = {c1, c2}
  Request = {r1, r2}
  Discoverer = Discoverer
  Free = Free
  NoConn = NoConn
  NoName = NoName
SYMMETRY Symmetric
INVARIANTS TypeOK SessionUsesRegisteredConfig NothingOpenAtExit ReadOnlyUnlessEvicted
PROPERTY ClosedOnlyAfterMisses
\* The server stops for good after its shutdown event.
CHECK_DEADLOCK FALSE
