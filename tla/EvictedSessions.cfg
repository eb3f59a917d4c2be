SPECIFICATION Spec
CONSTANTS
  Name = {s1}
  StaticName = {s1}
  Discoverable = {s1}
  K8sConfig = {g1}
  StaticConfig = StaticConfig
  NoConfig = NoConfig
  StaleThreshold = 2
  Conn = {c1, c2, c3}
  Request = {r1, r2}
  Discoverer = Discoverer
  Free = Free
  NoConn = NoConn
  NoName = NoName
SYMMETRY Symmetric
INVARIANT EvictedSessionsClosed
\* The server stops for good after its shutdown event.
CHECK_DEADLOCK FALSE
