---------------------------- MODULE ClusterSessions ----------------------------
(***************************************************************************)
(* The registry of clusters and the session manager together, with the     *)
(* threads that use them: the discovery thread, whose pass shuts down the  *)
(* sessions of the clusters it evicts, and request threads, which look a   *)
(* cluster up (api/dependencies/db_session.py), get its session, and may   *)
(* write through it (core/cql/_executor.py).  None of these steps hold a   *)
(* lock across the registry and the session table.                         *)
(***************************************************************************)
EXTENDS Naturals

CONSTANTS Name, StaticName, Discoverable, K8sConfig, StaticConfig, NoConfig, StaleThreshold,
          Conn, Free, NoConn, NoName,
          Request,     \* request threads
          Discoverer   \* the thread of the discovery pass

ASSUME NameAssumption == StaticName \subseteq Name /\ Discoverable \subseteq Name
ASSUME ConfigAssumption ==
  StaticConfig \notin K8sConfig /\ NoConfig \notin K8sConfig \cup {StaticConfig}
ASSUME ThresholdAssumption == StaleThreshold \in Nat /\ StaleThreshold >= 1
ASSUME ThreadAssumption == Discoverer \notin Request /\ Free \notin Request \cup {Discoverer}
ASSUME NullAssumption == NoConn \notin Conn /\ NoName \notin Name

VARIABLES clusters, metadata, pass, recent,            \* see ClusterRegistry
          sessions, instances, lock, conn, call,       \* see SessionManager
          down,      \* the application's shutdown event has run
          evicted,   \* history: names evicted since startup
          checked,   \* requests whose mutation has passed the check, and is to be executed
          written    \* history: read-only clusters a checked mutation was executed on

registryVars == <<clusters, metadata, pass, recent>>
sessionVars == <<sessions, instances, lock, conn, call>>
vars == <<registryVars, sessionVars, down, evicted, checked, written>>

Thread == Request \cup {Discoverer}

Registry == INSTANCE ClusterRegistry
Sessions == INSTANCE SessionManager WITH Config <- Registry!Config

TypeOK == /\ Registry!TypeOK
          /\ Sessions!TypeOK
          /\ down \in BOOLEAN
          /\ evicted \subseteq Name
          /\ checked \subseteq Request
          /\ written \subseteq Name

Init == /\ Registry!Init
        /\ Sessions!Init
        /\ down = FALSE
        /\ evicted = {}
        /\ checked = {}
        /\ written = {}

-------------------------------------------------------------------------------
(* A request names a registered cluster and enters the session manager     *)
(* with the configuration it read; get_session(cluster_name).  An unknown  *)
(* name is answered with 404 and changes nothing.                          *)
Lookup(r, n) ==
  /\ ~down
  /\ pass.step # "boot"
  /\ clusters[n] # NoConfig
  /\ Sessions!CallGet(r, n, clusters[n])
  /\ UNCHANGED <<registryVars, down, evicted, checked, written>>

(* The steps of the session manager's own code, whoever called it. *)
ManagerStep(t) ==
  /\ Sessions!Step(t)
  /\ UNCHANGED <<registryVars, down, evicted, checked, written>>

(* The request ends. *)
Respond(r) ==
  /\ r \notin checked
  /\ Sessions!Release(r)
  /\ UNCHANGED <<registryVars, down, evicted, checked, written>>

(* As CheckMutation, whatever the cluster. *)
CheckNothing(r) ==
  /\ call[r].op = "using"
  /\ r \notin checked
  /\ checked' = checked \cup {r}
  /\ UNCHANGED <<registryVars, sessionVars, down, evicted, written>>

(* execute_cql with a statement whose first word is in _MUTATION_PREFIXES: *)
(* the cluster is looked up again; one that is registered and read-only    *)
(* (here: a static one) refuses, any other lets the statement pass ...     *)
(* Any other statement is executed without a check, even if it writes (a   *)
(* batch as text, one after a comment); `written' says nothing of those.   *)
CheckMutation(r) ==
  /\ call[r].op = "using"
  /\ r \notin checked
  /\ clusters[call[r].name] # StaticConfig
  /\ checked' = checked \cup {r}
  /\ UNCHANGED <<registryVars, sessionVars, down, evicted, written>>

(* ... to be executed later, whatever has become of the cluster since.  A  *)
(* closed session refuses.                                                 *)
ExecuteMutation(r) ==
  LET c == call[r].session IN
  /\ r \in checked
  /\ checked' = checked \ {r}
  /\ written' = IF conn[c].session = "open" /\ conn[c].cfg = StaticConfig
                THEN written \cup {conn[c].name} ELSE written
  /\ UNCHANGED <<registryVars, sessionVars, down, evicted>>

(* The discovery thread outside its loop over the evicted clusters. *)
RegistryStep ==
  /\ call[Discoverer].op = "idle"
  /\ \/ Registry!Boot \/ Registry!ScanFails \/ Registry!Publish
     \/ ~down /\ Registry!WakeUp
     \/ \E d \in Registry!Discovery : Registry!ScanSucceeds(d)
  /\ UNCHANGED <<sessionVars, down, evicted, checked, written>>

(* As EvictCluster, shutting down every cluster's sessions. *)
EvictClusterShutsAll(n) ==
  /\ call[Discoverer].op = "idle"
  /\ Registry!Evict(n)
  /\ Sessions!ShutdownAll
  /\ evicted' = evicted \cup {n}
  /\ UNCHANGED <<down, checked, written>>

(* ... and in it: one evicted cluster's sessions are to be shut down, and  *)
(* the pass waits for that before it goes on.                              *)
EvictCluster(n) ==
  /\ Registry!Evict(n)
  /\ Sessions!CallShutdown(Discoverer, n)
  /\ evicted' = evicted \cup {n}
  /\ UNCHANGED <<down, checked, written>>

(* As AppShutdown, while requests are still being answered. *)
AppShutdownEarly ==
  /\ ~down
  /\ pass.step # "boot"
  /\ Sessions!ShutdownAll
  /\ down' = TRUE
  /\ UNCHANGED <<registryVars, evicted, checked, written>>

(* The server stops: it takes no more requests, waits for the ones it has, *)
(* and runs the shutdown event.  The discovery loop is cancelled with the  *)
(* event loop; a pass that is running on its thread still ends.            *)
AppShutdown ==
  /\ ~down
  /\ pass.step # "boot"
  /\ \A r \in Request : call[r].op = "idle"
  /\ Sessions!ShutdownAll
  /\ down' = TRUE
  /\ UNCHANGED <<registryVars, evicted, checked, written>>

-------------------------------------------------------------------------------
Next == \/ \E r \in Request : \/ Respond(r) \/ \E n \in Name : Lookup(r, n)
                             \/ CheckMutation(r) \/ ExecuteMutation(r)
        \/ \E t \in Thread : ManagerStep(t)
        \/ RegistryStep
        \/ \E n \in Name : EvictCluster(n)
        \/ AppShutdown

Spec == Init /\ [][Next]_vars
-------------------------------------------------------------------------------
Opened(c) == conn[c].session = "open"
AtRest == pass.step = "sleep" /\ \A t \in Thread : call[t].op = "idle"

(* A session is closed under the requests that use it only by the          *)
(* application's shutdown, or because the last StaleThreshold scans that   *)
(* succeeded did not find its cluster.                                     *)
ClosedOnlyAfterMisses ==
  [][\A c \in Conn : Opened(c) /\ ~Opened(c)' =>
       down' \/ \A i \in 1..StaleThreshold : conn[c].name \notin recent[i]]_vars

(* A stored session of a registered cluster was opened with the registered *)
(* configuration, unless that name was evicted at some time: only then can *)
(* a request have connected with a configuration it read before.           *)
SessionUsesRegisteredConfig ==
  \A n \in Name :
    sessions[n] # NoConn /\ clusters[n] # NoConfig /\ n \notin evicted
      => conn[sessions[n]].cfg = clusters[n]

(* After the application's shutdown, and once a pass that was running has  *)
(* ended, every connection has been closed or its closing was logged; what *)
(* is still open are the cluster objects of connects that raised.          *)
NothingOpenAtExit ==
  down /\ AtRest =>
    \A c \in Conn : ~Opened(c) /\ (conn[c].cluster = "open" => Sessions!Leaked(c))

(* "Clusters not seen for stale_threshold consecutive scans are evicted    *)
(* and their sessions closed." (README.md:194)                             *)
EvictedSessionsClosed ==
  AtRest => \A n \in Name : sessions[n] # NoConn => clusters[n] # NoConfig

(* A mutation that execute_cql recognises is executed on a read-only       *)
(* cluster only if that cluster was evicted at some time, be it between    *)
(* the check and the execution: the flag is looked up by name, and only    *)
(* then can the name stand for another cluster, or none.                   *)
ReadOnlyUnlessEvicted == written \subseteq evicted
===============================================================================
