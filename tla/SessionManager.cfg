SPECIFICATION FairSpec
CONSTANTS
  Name = {n1, n2}
  Config = {g1}
  Conn = {c1, c2}
  Thread = {t1, t2, t3}
  Free = Free
  NoConn = NoConn
  NoName = NoName
  NoConfig = NoConfig
INVARIANTS TypeOK StoredIsOpen OrphansOnlyFromFailedConnect
PROPERTIES ImplementsSharedConnections LockReleased
