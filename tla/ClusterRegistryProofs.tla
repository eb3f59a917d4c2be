------------------------- MODULE ClusterRegistryProofs -------------------------
(***************************************************************************)
(* Theorems about ClusterRegistry, for every set of names and              *)
(* configurations and every threshold.  The invariant relates the two      *)
(* dictionaries, the discovery thread's copies of them, and the last scans.*)
(***************************************************************************)
EXTENDS ClusterRegistry, TLAPS

Publishing == pass.step \in {"evict", "publishMetadata"}

(* The dictionaries, and the copies about to replace them, list the same   *)
(* clusters; after the first assignment the registry is the copy.          *)
Agreement ==
  /\ RegistryAgrees
  /\ Publishing => \A n \in Name :
       pass.clusters[n] # NoConfig <=> pass.metadata[n].source # "none"
  /\ pass.step = "publishMetadata" => clusters = pass.clusters

(* Static clusters no scan can find are as configured, in the copies too. *)
StaticKept ==
  /\ StaticUntouched
  /\ Publishing => \A n \in StaticName \ Discoverable :
       pass.clusters[n] = StaticConfig /\ pass.metadata[n] = StaticMeta

(* A miss count of m says that the last m scans did not find the cluster.  *)
(* Once a scan has succeeded, the counts that go with it are the copy's.   *)
CountsMisses(meta) ==
  \A n \in Name : meta[n].source = "k8s" =>
    \A i \in 1..StaleThreshold : i <= meta[n].miss => n \notin recent[i]

MissesCounted ==
  /\ ~Publishing => CountsMisses(metadata)
  /\ Publishing => CountsMisses(pass.metadata)

(* What the copy removes was missed StaleThreshold times; what it keeps is *)
(* as it was.                                                              *)
CopyIsJustified ==
  pass.step = "evict" => \A n \in Name : Registered(n) =>
    IF pass.clusters[n] = NoConfig THEN \A i \in 1..StaleThreshold : n \notin recent[i]
                                   ELSE pass.clusters[n] = clusters[n]

IInv == TypeOK /\ Agreement /\ StaticKept /\ MissesCounted /\ CopyIsJustified

-------------------------------------------------------------------------------
LEMMA ScanTypes ==
  ASSUME TypeOK, NEW d \in Discovery
  PROVE  /\ MergedClusters(d) \in Clusters
         /\ MergedMetadata(d) \in Metadata
         /\ Stale(d) \subseteq Missed(d) /\ Missed(d) \subseteq Name /\ Found(d) \subseteq Name
  BY ThresholdAssumption
     DEF TypeOK, Discovery, MergedClusters, MergedMetadata, Stale, Missed, Found,
         Clusters, Metadata, Config, FoundMeta, Source

(* What ScanSucceeds leaves in the copies and in the history, name by name. *)
LEMMA ScanCopies ==
  ASSUME TypeOK, NEW d \in Discovery, ScanSucceeds(d)
  PROVE  /\ pass' \in Pass /\ pass'.step = "evict" /\ pass'.evict = Stale(d)
         /\ recent' \in [1..StaleThreshold -> SUBSET Name]
         /\ \A i \in 1..StaleThreshold :
              recent'[i] = IF i = 1 THEN Found(d) ELSE recent[i - 1]
         /\ \A n \in Name :
              /\ pass'.clusters[n] = IF n \in Stale(d) THEN NoConfig ELSE MergedClusters(d)[n]
              /\ pass'.metadata[n] = IF n \in Stale(d) THEN NoMeta
                                     ELSE IF n \in Missed(d)
                                     THEN [metadata[n] EXCEPT !.miss = @ + 1]
                                     ELSE MergedMetadata(d)[n]
<1>1. /\ MergedClusters(d) \in Clusters /\ MergedMetadata(d) \in Metadata
      /\ Stale(d) \subseteq Name /\ Found(d) \subseteq Name
  BY ScanTypes
<1> DEFINE newClusters == [n \in Name |-> IF n \in Stale(d) THEN NoConfig
                                          ELSE MergedClusters(d)[n]]
           newMetadata == [n \in Name |-> IF n \in Stale(d) THEN NoMeta
                                          ELSE IF n \in Missed(d)
                                          THEN [metadata[n] EXCEPT !.miss = @ + 1]
                                          ELSE MergedMetadata(d)[n]]
<1>2. newClusters \in Clusters
  BY <1>1 DEF Clusters
<1>3. newMetadata \in Metadata
  <2> DEFINE entry == [source : Source, miss : 0..StaleThreshold - 1]
  <2> SUFFICES ASSUME NEW n \in Name PROVE newMetadata[n] \in entry
    BY Zenon DEF Metadata
  <2>1. metadata[n] \in entry /\ MergedMetadata(d)[n] \in entry
    BY <1>1 DEF TypeOK, Metadata
  <2>2. NoMeta \in entry
    BY ThresholdAssumption DEF NoMeta, Source
  <2>3. n \in Missed(d) /\ n \notin Stale(d) => metadata[n].miss + 1 \in 0..StaleThreshold - 1
    BY <2>1, ThresholdAssumption DEF Stale
  <2>4. n \in Missed(d) /\ n \notin Stale(d)
          => [metadata[n] EXCEPT !.miss = @ + 1] \in entry
    BY <2>1, <2>3
  <2> HIDE DEF entry
  <2> QED
    BY <2>1, <2>2, <2>4
<1>4. pass' = [step |-> "evict", clusters |-> newClusters, metadata |-> newMetadata,
               evict |-> Stale(d)]
  BY DEF ScanSucceeds
<1>5. recent' = [i \in 1..StaleThreshold |-> IF i = 1 THEN Found(d) ELSE recent[i - 1]]
  BY DEF ScanSucceeds
<1>6. recent' \in [1..StaleThreshold -> SUBSET Name]
  BY <1>1, <1>5, ThresholdAssumption DEF TypeOK
<1> QED
  BY <1>1, <1>2, <1>3, <1>4, <1>5, <1>6 DEF Pass, Step

LEMMA InitInvariant == Init => IInv
<1> SUFFICES ASSUME Init PROVE IInv
  OBVIOUS
<1> USE NameAssumption, ConfigAssumption, ThresholdAssumption
        DEF Init, Resting, NoClusters, NoMetadata, StaticMeta, NoMeta
<1>1. TypeOK
  BY DEF TypeOK, Clusters, Config, Metadata, Source, Pass, Step
<1>2. Agreement /\ StaticKept
  BY DEF Agreement, RegistryAgrees, Registered, StaticKept, StaticUntouched, Publishing
<1>3. MissesCounted /\ CopyIsJustified
  BY DEF MissesCounted, CountsMisses, CopyIsJustified, Publishing
<1> QED
  BY <1>1, <1>2, <1>3 DEF IInv

(* A successful scan: the copies agree, what they count is what the scans  *)
(* missed, and every removal is justified by StaleThreshold misses.        *)
LEMMA ScanInvariant ==
  ASSUME IInv, NEW d \in Discovery, ScanSucceeds(d)
  PROVE  IInv'
<1> USE NameAssumption, ConfigAssumption, ThresholdAssumption
<1>1. TypeOK /\ pass.step = "scan" /\ ~Publishing
  BY DEF IInv, ScanSucceeds, Publishing
<1>2. /\ pass' \in Pass /\ pass'.step = "evict" /\ pass'.evict = Stale(d)
      /\ recent' \in [1..StaleThreshold -> SUBSET Name]
      /\ \A i \in 1..StaleThreshold :
           recent'[i] = IF i = 1 THEN Found(d) ELSE recent[i - 1]
      /\ \A n \in Name :
           /\ pass'.clusters[n] = IF n \in Stale(d) THEN NoConfig ELSE MergedClusters(d)[n]
           /\ pass'.metadata[n] = IF n \in Stale(d) THEN NoMeta
                                  ELSE IF n \in Missed(d)
                                  THEN [metadata[n] EXCEPT !.miss = @ + 1]
                                  ELSE MergedMetadata(d)[n]
  BY <1>1, ScanCopies
<1>3. UNCHANGED <<clusters, metadata>>
  BY DEF ScanSucceeds
<1>4. \A n \in Name : metadata[n] \in [source : Source, miss : Nat]
  BY <1>1 DEF TypeOK, Metadata
<1>5. TypeOK'
  BY <1>1, <1>2, <1>3 DEF TypeOK
<1>6. \A n \in Name : Registered(n) <=> metadata[n].source # "none"
  BY <1>1 DEF IInv, Agreement, RegistryAgrees
<1>7. Agreement'
  <2>1. ASSUME NEW n \in Name
        PROVE  pass'.clusters[n] # NoConfig <=> pass'.metadata[n].source # "none"
    <3>1. CASE n \in Stale(d)
      <4>1. pass'.clusters[n] = NoConfig /\ pass'.metadata[n] = NoMeta
        BY <1>2, <3>1
      <4> QED
        BY <4>1 DEF NoMeta
    <3>2. CASE n \notin Stale(d) /\ n \in Missed(d)
      <4>1. /\ pass'.clusters[n] = MergedClusters(d)[n]
            /\ pass'.metadata[n] = [metadata[n] EXCEPT !.miss = @ + 1]
        BY <1>2, <3>2
      <4>2. pass'.metadata[n].source = "k8s" /\ MergedClusters(d)[n] = clusters[n]
        BY <1>4, <3>2, <4>1 DEF Missed, MergedClusters
      <4> QED
        BY <1>6, <3>2, <4>1, <4>2 DEF Missed, Registered
    <3>3. CASE n \notin Missed(d)
      <4>1. /\ pass'.clusters[n] = MergedClusters(d)[n]
            /\ pass'.metadata[n] = MergedMetadata(d)[n]
        BY <1>2, <3>3 DEF Stale
      <4>2. CASE n \in Found(d)
        <5>1. pass'.metadata[n] = FoundMeta /\ pass'.clusters[n] # NoConfig
          BY <4>1, <4>2 DEF MergedClusters, MergedMetadata, Found
        <5> QED
          BY <5>1 DEF FoundMeta
      <4>3. CASE n \notin Found(d)
        BY <1>6, <4>1, <4>3 DEF MergedClusters, MergedMetadata, Registered
      <4> QED
        BY <4>2, <4>3
    <3> QED
      BY <3>1, <3>2, <3>3
  <2>2. RegistryAgrees'
    BY <1>3, <1>6 DEF RegistryAgrees, Registered
  <2> QED
    BY <1>2, <2>1, <2>2 DEF Agreement, Publishing
<1>8. StaticKept'
  <2>1. ASSUME NEW n \in StaticName \ Discoverable
        PROVE  /\ clusters[n] = StaticConfig /\ metadata[n] = StaticMeta
               /\ pass'.clusters[n] = StaticConfig /\ pass'.metadata[n] = StaticMeta
    <3>1. clusters[n] = StaticConfig /\ metadata[n] = StaticMeta
      BY DEF IInv, StaticKept, StaticUntouched
    <3>2. n \notin Found(d) /\ n \notin Missed(d) /\ n \notin Stale(d)
      BY <3>1 DEF Found, Discovery, Missed, Stale, StaticMeta
    <3> QED
      BY <1>2, <3>1, <3>2 DEF MergedClusters, MergedMetadata
  <2> QED
    BY <1>2, <1>3, <2>1 DEF StaticKept, StaticUntouched, Publishing
<1>9. CountsMisses(metadata)
  BY <1>1 DEF IInv, MissesCounted
<1>10. MissesCounted'
  <2>1. ASSUME NEW n \in Name, pass'.metadata[n].source = "k8s",
               NEW i \in 1..StaleThreshold, i <= pass'.metadata[n].miss
        PROVE  n \notin recent'[i]
    <3>1. n \notin Stale(d)
      <4>1. n \in Stale(d) => pass'.metadata[n] = NoMeta
        BY <1>2
      <4> QED
        BY <2>1, <4>1 DEF NoMeta
    <3>2. CASE n \in Missed(d)
      <4>1. pass'.metadata[n].miss = metadata[n].miss + 1 /\ metadata[n].source = "k8s"
        BY <1>2, <1>4, <3>1, <3>2 DEF Missed
      <4>2. CASE i = 1
        BY <1>2, <3>2, <4>2 DEF Missed
      <4>3. CASE i # 1
        BY <1>2, <1>4, <1>9, <2>1, <4>1, <4>3 DEF CountsMisses
      <4> QED
        BY <4>2, <4>3
    <3>3. CASE n \notin Missed(d)
      <4>1. n \in Found(d)
        BY <1>2, <2>1, <3>1, <3>3 DEF MergedMetadata, Missed
      <4>2. pass'.metadata[n] = FoundMeta
        BY <1>2, <3>1, <3>3, <4>1 DEF MergedMetadata
      <4> QED
        BY <2>1, <4>2 DEF FoundMeta
    <3> QED
      BY <3>2, <3>3
  <2> QED
    BY <1>2, <2>1 DEF MissesCounted, CountsMisses, Publishing
<1>11. CopyIsJustified'
  <2>1. ASSUME NEW n \in Name, Registered(n), pass'.clusters[n] = NoConfig,
               NEW i \in 1..StaleThreshold
        PROVE  n \notin recent'[i]
    <3>1. n \in Stale(d)
      BY <1>2, <2>1 DEF MergedClusters, Found, Registered
    <3>2. n \in Missed(d) /\ metadata[n].miss + 1 >= StaleThreshold
      BY <3>1 DEF Stale
    <3>3. CASE i = 1
      BY <1>2, <3>2, <3>3 DEF Missed
    <3>4. CASE i # 1
      BY <1>2, <1>4, <1>9, <3>2, <3>4 DEF CountsMisses, Missed
    <3> QED
      BY <3>3, <3>4
  <2>2. ASSUME NEW n \in Name, Registered(n), pass'.clusters[n] # NoConfig
        PROVE  pass'.clusters[n] = clusters[n]
    BY <1>2, <2>2 DEF MergedClusters, Registered
  <2> QED
    BY <1>3, <2>1, <2>2 DEF CopyIsJustified, Registered
<1> QED
  BY <1>5, <1>7, <1>8, <1>10, <1>11 DEF IInv

(* Startup, before which there is nothing to count. *)
LEMMA BootInvariant ==
  ASSUME IInv, Boot
  PROVE  IInv'
<1> USE NameAssumption, ConfigAssumption, ThresholdAssumption
        DEF IInv, Resting, Publishing
<1>1. CASE BootWithout
  <2>1. TypeOK'
    BY <1>1 DEF BootWithout, TypeOK, Pass, Step, NoClusters, NoMetadata, Clusters, Metadata,
                NoMeta, Source
  <2>2. Agreement' /\ StaticKept' /\ MissesCounted' /\ CopyIsJustified'
    BY <1>1 DEF BootWithout, Agreement, RegistryAgrees, Registered, StaticKept,
                StaticUntouched, MissesCounted, CountsMisses, CopyIsJustified
  <2> QED
    BY <2>1, <2>2
<1>2. ASSUME NEW d \in Discovery, BootDiscovers(d) PROVE IInv'
  <2>1. /\ pass.step = "boot" /\ pass' = Resting("sleep") /\ recent' = recent
        /\ clusters' = [n \in Name |-> IF n \in Found(d) THEN d[n] ELSE clusters[n]]
        /\ metadata' = MergedMetadata(d)
    BY <1>2 DEF BootDiscovers, MergedMetadata
  <2>2. TypeOK'
    <3>1. clusters' \in Clusters
      BY <2>1 DEF TypeOK, Clusters, Discovery, Found, Config
    <3>2. metadata' \in Metadata
      BY <2>1, ScanTypes
    <3> QED
      BY <2>1, <3>1, <3>2 DEF TypeOK, Pass, Step, NoClusters, NoMetadata, Clusters, Metadata,
                              NoMeta, Source
  <2>3. Agreement'
    BY <2>1 DEF Agreement, RegistryAgrees, Registered, MergedMetadata, Found, FoundMeta
  <2>4. StaticKept'
    BY <2>1 DEF StaticKept, StaticUntouched, MergedMetadata, Found, Discovery
  <2>5. MissesCounted' /\ CopyIsJustified'
    BY <2>1 DEF MissesCounted, CountsMisses, CopyIsJustified, MergedMetadata, FoundMeta
  <2> QED
    BY <2>2, <2>3, <2>4, <2>5
<1> QED
  BY <1>1, <1>2 DEF Boot

LEMMA StepInvariant == IInv /\ [Next]_vars => IInv'
<1> SUFFICES ASSUME IInv, [Next]_vars PROVE IInv'
  OBVIOUS
<1> USE NameAssumption, ConfigAssumption, ThresholdAssumption
<1>0. \A s \in Step : Resting(s) \in Pass /\ Resting(s).step = s
  BY DEF Resting, Pass, NoClusters, NoMetadata, Clusters, Metadata, NoMeta, Source
<1>1. CASE Boot
  BY <1>1, BootInvariant
<1>2. CASE WakeUp \/ ScanFails
  <2>1. /\ pass.step \in {"sleep", "scan"} /\ pass'.step \in {"sleep", "scan"} /\ pass' \in Pass
        /\ UNCHANGED <<clusters, metadata, recent>>
    BY <1>0, <1>2 DEF WakeUp, ScanFails, Step
  <2> QED
    BY <2>1 DEF IInv, TypeOK, Agreement, RegistryAgrees, Registered, StaticKept,
                StaticUntouched, MissesCounted, CountsMisses, CopyIsJustified, Publishing
<1>3. ASSUME NEW d \in Discovery, ScanSucceeds(d) PROVE IInv'
  BY <1>3, ScanInvariant
<1>4. ASSUME NEW n \in Name, Evict(n) PROVE IInv'
  <2>1. /\ pass.step = "evict" /\ pass'.step = "evict" /\ pass' \in Pass
        /\ pass'.clusters = pass.clusters /\ pass'.metadata = pass.metadata
        /\ UNCHANGED <<clusters, metadata, recent>>
    BY <1>4 DEF Evict, IInv, TypeOK, Pass
  <2> QED
    BY <2>1 DEF IInv, TypeOK, Agreement, RegistryAgrees, Registered, StaticKept,
                StaticUntouched, MissesCounted, CountsMisses, CopyIsJustified, Publishing
<1>5. CASE PublishClusters
  <2>1. /\ pass.step = "evict" /\ pass'.step = "publishMetadata" /\ pass' \in Pass
        /\ pass'.clusters = pass.clusters /\ pass'.metadata = pass.metadata
        /\ pass.clusters \in Clusters /\ clusters' = pass.clusters
        /\ UNCHANGED <<metadata, recent>>
    BY <1>5 DEF PublishClusters, IInv, TypeOK, Pass, Step
  <2>2. metadata'= metadata /\ \A n \in StaticName \ Discoverable : metadata[n] = StaticMeta
    BY <2>1 DEF IInv, StaticKept, StaticUntouched
  <2> QED
    BY <2>1, <2>2 DEF IInv, TypeOK, Agreement, RegistryAgrees, StaticKept,
                StaticUntouched, MissesCounted, CountsMisses, CopyIsJustified, Publishing
<1>6. CASE PublishMetadata
  <2>1. /\ pass.step = "publishMetadata" /\ pass'.step = "sleep" /\ pass' \in Pass
        /\ pass.metadata \in Metadata /\ metadata' = pass.metadata
        /\ UNCHANGED <<clusters, recent>>
    BY <1>0, <1>6 DEF PublishMetadata, IInv, TypeOK, Pass, Step
  <2> QED
    BY <2>1 DEF IInv, TypeOK, Agreement, RegistryAgrees, Registered, StaticKept,
                StaticUntouched, MissesCounted, CountsMisses, CopyIsJustified, Publishing
<1>7. CASE UNCHANGED vars
  BY <1>7 DEF vars, IInv, TypeOK, Agreement, RegistryAgrees, Registered, StaticKept,
              StaticUntouched, MissesCounted, CountsMisses, CopyIsJustified, Publishing
<1> QED
  BY <1>1, <1>2, <1>3, <1>4, <1>5, <1>6, <1>7 DEF Next, Publish

-------------------------------------------------------------------------------
(* The invariant holds in every reachable state. *)
THEOREM Invariance == Spec => []IInv
  BY InitInvariant, StepInvariant, PTL DEF Spec

(* The registry, the pass's copies and the history keep their types. *)
THEOREM TypeCorrect == Spec => []TypeOK
<1>1. IInv => TypeOK
  BY DEF IInv
<1> QED
  BY Invariance, <1>1, PTL

(* The two dictionaries list the same clusters, except between the two     *)
(* assignments that publish a pass.                                        *)
THEOREM RegistryAlwaysAgrees == Spec => []RegistryAgrees
<1>1. IInv => RegistryAgrees
  BY DEF IInv, Agreement
<1> QED
  BY Invariance, <1>1, PTL

(* A static cluster whose name no scan can find is never touched. *)
THEOREM StaticAlwaysUntouched == Spec => []StaticUntouched
<1>1. IInv => StaticUntouched
  BY DEF IInv, StaticKept
<1> QED
  BY Invariance, <1>1, PTL

(* Only a scan's publication removes a cluster, or changes the registry of *)
(* a running system at all.                                                *)
LEMMA OnlyPublicationWrites ==
  ASSUME [Next]_vars
  PROVE  \/ UNCHANGED clusters
         \/ Boot
         \/ pass.step = "evict" /\ clusters' = pass.clusters
  BY DEF vars, Next, Publish, WakeUp, ScanFails, ScanSucceeds, Evict, PublishClusters,
         PublishMetadata

(* No cluster is removed before StaleThreshold successful scans in a row   *)
(* missed it.                                                              *)
THEOREM EvictionIsJustified == Spec => EvictedOnlyAfterMisses
<1> DEFINE Justified == \A n \in Name : Registered(n) /\ ~Registered(n)' =>
                          \A i \in 1..StaleThreshold : n \notin recent[i]
<1>1. IInv /\ [Next]_vars => [Justified]_vars
  <2> SUFFICES ASSUME IInv, [Next]_vars PROVE Justified
    OBVIOUS
  <2>1. CASE UNCHANGED clusters
    BY <2>1 DEF Registered
  <2>2. CASE Boot
    BY <2>2 DEF Boot, BootWithout, BootDiscovers, Found, Discovery, Registered
  <2>3. CASE pass.step = "evict" /\ clusters' = pass.clusters
    BY <2>3 DEF IInv, CopyIsJustified, Registered
  <2> QED
    BY <2>1, <2>2, <2>3, OnlyPublicationWrites
<1> QED
  BY Invariance, <1>1, PTL DEF Spec, EvictedOnlyAfterMisses

(* Once the system has started, a registered cluster keeps its connection  *)
(* configuration for as long as it is registered.                          *)
THEOREM ConfigIsStable == Spec => ConfigStable
<1> DEFINE Stable == pass.step # "boot" =>
                       \A n \in Name : Registered(n) /\ Registered(n)' => clusters'[n] = clusters[n]
<1>1. IInv /\ [Next]_vars => [Stable]_vars
  <2> SUFFICES ASSUME IInv, [Next]_vars, pass.step # "boot",
                      NEW n \in Name, Registered(n), Registered(n)'
               PROVE  clusters'[n] = clusters[n]
    OBVIOUS
  <2>1. CASE UNCHANGED clusters
    BY <2>1
  <2>2. CASE Boot
    BY <2>2 DEF Boot, BootWithout, BootDiscovers
  <2>3. CASE pass.step = "evict" /\ clusters' = pass.clusters
    BY <2>3 DEF IInv, CopyIsJustified, Registered
  <2> QED
    BY <2>1, <2>2, <2>3, OnlyPublicationWrites
<1> QED
  BY Invariance, <1>1, PTL DEF Spec, ConfigStable
===============================================================================
