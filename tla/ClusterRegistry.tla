---------------------------- MODULE ClusterRegistry ----------------------------
(***************************************************************************)
(* The registry of clusters, CassanovaConfig.clusters and                  *)
(* CassanovaConfig.cluster_metadata, and everything that writes it: the    *)
(* startup of config/cassanova_config.py and the periodic discovery pass   *)
(* of api/bootstrap.py.  Passes run one at a time (the loop awaits each);  *)
(* request threads read the two dictionaries at any moment.                *)
(*                                                                         *)
(* What a scan of the Kubernetes API finds is any set of the discoverable  *)
(* names, each with any of the configurations it may have at that time.    *)
(***************************************************************************)
EXTENDS Naturals

CONSTANTS Name,            \* cluster names
          StaticName,      \* the clusters of the configuration file
          Discoverable,    \* the names a scan can find
          K8sConfig,       \* connection configurations a scan can build
          StaticConfig,    \* the configuration a static cluster was given
          NoConfig,        \* an absent entry of clusters
          StaleThreshold   \* K8sConfig.stale_threshold, at least 1

ASSUME NameAssumption == StaticName \subseteq Name /\ Discoverable \subseteq Name
ASSUME ConfigAssumption == StaticConfig \notin K8sConfig /\ NoConfig \notin K8sConfig \cup {StaticConfig}
ASSUME ThresholdAssumption == StaleThreshold \in Nat /\ StaleThreshold >= 1

VARIABLES clusters,   \* config.clusters, NoConfig for an absent key
          metadata,   \* config.cluster_metadata: source and miss_count
          pass,       \* the discovery thread: where it is, and its local dictionaries
          recent      \* history: what the last StaleThreshold successful scans found

vars == <<clusters, metadata, pass, recent>>

Config == K8sConfig \cup {StaticConfig}
Clusters == [Name -> Config \cup {NoConfig}]
Source == {"none", "static", "k8s"}
Metadata == [Name -> [source : Source, miss : 0..StaleThreshold - 1]]
NoMeta == [source |-> "none", miss |-> 0]
StaticMeta == [source |-> "static", miss |-> 0]
FoundMeta == [source |-> "k8s", miss |-> 0]

Step == {"boot", "sleep", "scan", "evict", "publishMetadata"}
Pass == [step : Step, clusters : Clusters, metadata : Metadata, evict : SUBSET Name]

NoClusters == [n \in Name |-> NoConfig]
NoMetadata == [n \in Name |-> NoMeta]
Resting(step) == [step |-> step, clusters |-> NoClusters, metadata |-> NoMetadata, evict |-> {}]

(* A scan's result: the discovered names with their configurations. *)
Discovery == {d \in [Name -> K8sConfig \cup {NoConfig}] :
                \A n \in Name \ Discoverable : d[n] = NoConfig}
Found(d) == {n \in Name : d[n] # NoConfig}

TypeOK ==
  /\ clusters \in Clusters
  /\ metadata \in Metadata
  /\ pass \in Pass
  /\ recent \in [1..StaleThreshold -> SUBSET Name]

(* The configuration file is loaded: every cluster of it is static. *)
Init ==
  /\ clusters = [n \in Name |-> IF n \in StaticName THEN StaticConfig ELSE NoConfig]
  /\ metadata = [n \in Name |-> IF n \in StaticName THEN StaticMeta ELSE NoMeta]
  /\ pass = Resting("boot")
  /\ recent = [i \in 1..StaleThreshold |-> Name]

-------------------------------------------------------------------------------
(* The discovery at startup, before any request: what it found replaces    *)
(* the entries of the same name, static ones included.                     *)
BootDiscovers(d) ==
  /\ pass.step = "boot"
  /\ clusters' = [n \in Name |-> IF n \in Found(d) THEN d[n] ELSE clusters[n]]
  /\ metadata' = [n \in Name |-> IF n \in Found(d) THEN FoundMeta ELSE metadata[n]]
  /\ pass' = Resting("sleep")
  /\ UNCHANGED recent

(* It is disabled, raised (logged, and startup goes on) or found nothing. *)
BootWithout ==
  /\ pass.step = "boot"
  /\ pass' = Resting("sleep")
  /\ UNCHANGED <<clusters, metadata, recent>>

(* The loop's sleep ends and a pass starts on a worker thread. *)
WakeUp ==
  /\ pass.step = "sleep"
  /\ pass' = Resting("scan")
  /\ UNCHANGED <<clusters, metadata, recent>>

(* discover_k8s_clusters raised: the pass ends without miss accounting. *)
ScanFails ==
  /\ pass.step = "scan"
  /\ pass' = Resting("sleep")
  /\ UNCHANGED <<clusters, metadata, recent>>

(* As MergedClusters, refreshing the configuration of a known cluster. *)
MergedClustersRefreshing(d) ==
  [n \in Name |-> IF n \in Found(d) THEN d[n] ELSE clusters[n]]

(* _merge_discovered_clusters: a new name is added, a known one keeps the  *)
(* configuration it was added with ...                                     *)
MergedClusters(d) ==
  [n \in Name |-> IF n \in Found(d) /\ clusters[n] = NoConfig THEN d[n] ELSE clusters[n]]

(* As MergedMetadata, keeping the miss count of a cluster that returns. *)
MergedMetadataNoReset(d) ==
  [n \in Name |-> IF n \in Found(d) THEN [metadata[n] EXCEPT !.source = "k8s"] ELSE metadata[n]]

(* ... and either way its metadata is rewritten as a cluster just seen. *)
MergedMetadata(d) ==
  [n \in Name |-> IF n \in Found(d) THEN FoundMeta ELSE metadata[n]]

(* _evict_stale_clusters: the clusters of Kubernetes that this scan missed ... *)
Missed(d) == {n \in Name : metadata[n].source = "k8s" /\ n \notin Found(d)}

(* As Stale, one miss too late. *)
StaleLate(d) == {n \in Missed(d) : metadata[n].miss >= StaleThreshold}

(* ... and those that have now been missed often enough. *)
Stale(d) == {n \in Missed(d) : metadata[n].miss + 1 >= StaleThreshold}

(* As ScanSucceeds, evicting the metadata and keeping the connection entry. *)
ScanSucceedsKeepingClusters(d) ==
  /\ pass.step = "scan"
  /\ pass' = [step |-> "evict",
              clusters |-> MergedClusters(d),
              metadata |-> [n \in Name |-> IF n \in Stale(d) THEN NoMeta
                                           ELSE IF n \in Missed(d)
                                           THEN [metadata[n] EXCEPT !.miss = @ + 1]
                                           ELSE MergedMetadata(d)[n]],
              evict |-> Stale(d)]
  /\ recent' = [i \in 1..StaleThreshold |-> IF i = 1 THEN Found(d) ELSE recent[i - 1]]
  /\ UNCHANGED <<clusters, metadata>>

(* The scan succeeded.  The pass copies both dictionaries, merges what was *)
(* found and counts what was missed in the copies; nobody sees the copies, *)
(* so this is one step, and what is left of the loop over the metadata is  *)
(* the call that shuts down the sessions of each evicted cluster.          *)
ScanSucceeds(d) ==
  /\ pass.step = "scan"
  /\ pass' = [step |-> "evict",
              clusters |-> [n \in Name |-> IF n \in Stale(d) THEN NoConfig
                                           ELSE MergedClusters(d)[n]],
              metadata |-> [n \in Name |-> IF n \in Stale(d) THEN NoMeta
                                           ELSE IF n \in Missed(d)
                                           THEN [metadata[n] EXCEPT !.miss = @ + 1]
                                           ELSE MergedMetadata(d)[n]],
              evict |-> Stale(d)]
  /\ recent' = [i \in 1..StaleThreshold |-> IF i = 1 THEN Found(d) ELSE recent[i - 1]]
  /\ UNCHANGED <<clusters, metadata>>

(* session_manager.shutdown(n) for one of the evicted, in dictionary order *)
(* (here: any order).                                                      *)
Evict(n) ==
  /\ pass.step = "evict"
  /\ n \in pass.evict
  /\ pass' = [pass EXCEPT !.evict = @ \ {n}]
  /\ UNCHANGED <<clusters, metadata, recent>>

(* The copies become the registry by two assignments a reader can come     *)
(* between.                                                                *)
PublishClusters ==
  /\ pass.step = "evict"
  /\ pass.evict = {}
  /\ clusters' = pass.clusters
  /\ pass' = [pass EXCEPT !.step = "publishMetadata"]
  /\ UNCHANGED <<metadata, recent>>

(* As PublishMetadata, with the assignment forgotten. *)
PublishMetadataLost ==
  /\ pass.step = "publishMetadata"
  /\ pass' = Resting("sleep")
  /\ UNCHANGED <<clusters, metadata, recent>>

PublishMetadata ==
  /\ pass.step = "publishMetadata"
  /\ metadata' = pass.metadata
  /\ pass' = Resting("sleep")
  /\ UNCHANGED <<clusters, recent>>

-------------------------------------------------------------------------------
Boot == BootWithout \/ \E d \in Discovery : BootDiscovers(d)
Publish == PublishClusters \/ PublishMetadata

Next == \/ Boot \/ WakeUp \/ ScanFails \/ Publish
        \/ \E d \in Discovery : ScanSucceeds(d)
        \/ \E n \in Name : Evict(n)

Spec == Init /\ [][Next]_vars

(* The loop keeps running, each of its steps ends, and the Kubernetes API  *)
(* is not unreachable for ever: scans succeed again and again.             *)
Fairness == /\ WF_vars(Boot) /\ WF_vars(WakeUp) /\ WF_vars(Publish)
            /\ WF_vars(\E n \in Name : Evict(n))
            /\ WF_vars(ScanFails \/ \E d \in Discovery : ScanSucceeds(d))
            /\ SF_vars(\E d \in Discovery : ScanSucceeds(d))

FairSpec == Spec /\ Fairness
-------------------------------------------------------------------------------
Registered(n) == clusters[n] # NoConfig

(* Between passes the two dictionaries list the same clusters; only inside *)
(* the window between the two assignments may a reader see them differ.    *)
RegistryAgrees ==
  pass.step # "publishMetadata" =>
    \A n \in Name : Registered(n) <=> metadata[n].source # "none"

(* A static cluster whose name no scan finds keeps its configuration and   *)
(* its source through every pass.                                          *)
StaticUntouched ==
  \A n \in StaticName \ Discoverable :
    clusters[n] = StaticConfig /\ metadata[n] = StaticMeta

(* A cluster that is removed was missing from each of the last             *)
(* StaleThreshold scans that succeeded: no flapping cluster and no failed  *)
(* scan gets one evicted early.                                            *)
EvictedOnlyAfterMisses ==
  [][\A n \in Name : Registered(n) /\ ~Registered(n)' =>
       \A i \in 1..StaleThreshold : n \notin recent[i]]_vars

(* While a cluster stays registered its connection configuration does not  *)
(* change under the sessions opened with it.                               *)
ConfigStable ==
  [][pass.step # "boot" =>
       \A n \in Name : Registered(n) /\ Registered(n)' => clusters'[n] = clusters[n]]_vars

(* What a successful scan found becomes visible. *)
FoundIsRegistered == \A n \in Name : n \in recent[1] /\ pass.step = "evict" ~> Registered(n)

(* A discovered cluster that scans stop finding is evicted for good. *)
GoneIsEvicted ==
  \A n \in Discoverable \ StaticName :
    <>[](n \notin recent[1]) => <>[]~Registered(n)

(* The registry follows the scans, in both directions.                     *)
RegistryCatchesUp == FoundIsRegistered /\ GoneIsEvicted

===============================================================================
