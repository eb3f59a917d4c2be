SPECIFICATION FairSpec
CONSTANTS
  Name = {s1, s2, k1}
  StaticName = {s1, s2}
  Discoverable = {s2, k1}
  K8sConfig = {g1, g2}
  StaticConfig = StaticConfig
  NoConfig = NoConfig
  StaleThreshold = 3
INVARIANTS TypeOK RegistryAgrees
PROPERTIES EvictedOnlyAfterMisses ConfigStable RegistryCatchesUp
