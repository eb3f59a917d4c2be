------------------------- MODULE ClusterSessionsProofs -------------------------
(***************************************************************************)
(* Theorems about ClusterSessions, for any clusters, connections and       *)
(* request threads.  Every step of the composition is a step of the        *)
(* registry, or none, and a step of the session manager, or none: what is  *)
(* proved of each alone holds of the two together.  The rest of the        *)
(* invariant is about what crosses between them: the names, the            *)
(* configurations and the evictions.                                       *)
(***************************************************************************)
EXTENDS ClusterSessions, TLAPS

RP == INSTANCE ClusterRegistryProofs
SP == INSTANCE SessionManagerProofs WITH Config <- Registry!Config

(* Requests only get and use sessions, the discovery thread only closes    *)
(* them.                                                                   *)
Roles ==
  /\ \A r \in Request : call[r].op \in {"idle", "get", "connect", "using"}
  /\ call[Discoverer].op \in {"idle", "shutdown", "closeSession", "closeCluster"}

(* The session a request uses, or an eviction closes, is of its cluster. *)
HandsMatch ==
  \A t \in Thread, c \in Conn : call[t].session = c =>
    /\ call[t].op = "using" => conn[c].name = call[t].name /\ conn[c].session # "unused"
    /\ call[t].op = "closeSession" => conn[c].name = call[t].name

Removed(n) == clusters[n] # NoConfig /\ pass.clusters[n] = NoConfig

(* The clusters whose sessions a pass closes are the ones its publication  *)
(* will remove.                                                            *)
EvictedAreRemoved ==
  /\ pass.step = "evict" => \A n \in pass.evict : Removed(n)
  /\ pass.step = "evict" => \A n \in Name : Removed(n) => n \in pass.evict \cup evicted
  /\ call[Discoverer].op # "idle" => pass.step = "evict" /\ Removed(call[Discoverer].name)

(* Nobody has called the manager before the startup is over. *)
BootIsQuiet ==
  pass.step = "boot" => /\ \A t \in Thread : call[t].op = "idle"
                        /\ \A c \in Conn : conn[c].session = "unused"

(* Until a name is evicted, every request and every connection made for it *)
(* has the registered configuration.                                       *)
ConfigsAgree ==
  /\ \A t \in Thread : call[t].op \in {"get", "connect", "using"} /\ call[t].name \notin evicted =>
       call[t].cfg = clusters[call[t].name]
  /\ \A c \in Conn : conn[c].session # "unused" =>
       /\ conn[c].name \in Name /\ conn[c].cfg \in Registry!Config
       /\ conn[c].name \notin evicted => conn[c].cfg = clusters[conn[c].name]

(* The application's shutdown is final. *)
DownIsEmpty ==
  down => /\ \A n \in Name : sessions[n] = NoConn
          /\ \A r \in Request : call[r].op = "idle"

(* A mutation that passed the check while the request uses a read-only     *)
(* connection did so because the name had been evicted before.             *)
WritesAgree ==
  /\ written \subseteq evicted
  /\ \A r \in checked :
       /\ call[r].op = "using"
       /\ conn[call[r].session].cfg = StaticConfig => call[r].name \in evicted

Own == /\ down \in BOOLEAN /\ evicted \subseteq Name /\ checked \subseteq Request
       /\ Roles /\ HandsMatch /\ EvictedAreRemoved /\ BootIsQuiet /\ ConfigsAgree
       /\ DownIsEmpty /\ WritesAgree

IInv == RP!IInv /\ SP!IInv /\ Own

-------------------------------------------------------------------------------
(* What the two components' invariants say of the types. *)
LEMMA Types ==
  ASSUME IInv
  PROVE  /\ clusters \in [Name -> Registry!Config \cup {NoConfig}]
         /\ pass \in RP!Pass /\ pass.evict \subseteq Name
         /\ call \in [Thread -> SP!CallRecord] /\ conn \in [Conn -> SP!ConnRecord]
         /\ sessions \in [Name -> Conn \cup {NoConn}]
         /\ \A t \in Thread : call[t].op # "idle" => call[t].name \in Name
         /\ \A t \in Thread : call[t].op \in {"get", "connect", "using"} =>
              call[t].cfg \in Registry!Config
         /\ Request \subseteq Thread /\ Discoverer \in Thread /\ Discoverer \notin Request
  BY ThreadAssumption
     DEF IInv, RP!IInv, RP!TypeOK, RP!Clusters, RP!Config, RP!Pass, Registry!Config, SP!IInv,
         SP!TypeOK, SP!CallsAreNamed, Thread

LEMMA InitInvariant == Init => IInv
<1> SUFFICES ASSUME Init PROVE IInv
  OBVIOUS
<1>1. RP!IInv
  <2>1. RP!Init
    BY DEF Init, Registry!Init, RP!Init, Registry!StaticMeta, RP!StaticMeta, Registry!NoMeta,
           RP!NoMeta, Registry!Resting, RP!Resting, Registry!NoClusters, RP!NoClusters,
           Registry!NoMetadata, RP!NoMetadata
  <2> QED
    BY <2>1, RP!InitInvariant, NameAssumption, ConfigAssumption, ThresholdAssumption
<1>2. SP!IInv
  <2>1. SP!Init
    BY DEF Init, Sessions!Init, SP!Init, Sessions!Idle, SP!Idle
  <2> QED
    BY <2>1, SP!InitInvariant, NullAssumption, ThreadAssumption, ConfigAssumption
       DEF Thread, Registry!Config
<1>3. /\ pass.step = "boot" /\ \A t \in Thread : call[t].op = "idle"
      /\ \A c \in Conn : conn[c].session = "unused"
      /\ down = FALSE /\ evicted = {} /\ checked = {} /\ written = {}
  BY DEF Init, Registry!Init, Registry!Resting, Sessions!Init, Sessions!Idle
<1> QED
  BY <1>1, <1>2, <1>3
     DEF IInv, Own, Roles, HandsMatch, EvictedAreRemoved, BootIsQuiet, ConfigsAgree,
         DownIsEmpty, WritesAgree, Thread

-------------------------------------------------------------------------------
(* The composition's steps are the components'. *)
LEMMA RegistryStepIsOne ==
  ASSUME RegistryStep \/ \E n \in Name : Registry!Evict(n)
  PROVE  RP!Next
<1>1. /\ \A d : d \in Registry!Discovery <=> d \in RP!Discovery
      /\ \A d : Registry!Found(d) = RP!Found(d)
  BY DEF Registry!Discovery, RP!Discovery, Registry!Found, RP!Found
<1>2. CASE \E n \in Name : Registry!Evict(n)
  BY <1>2 DEF Registry!Evict, RP!Evict, RP!Next
<1>3. CASE Registry!Boot
  <2>1. Registry!BootWithout => RP!BootWithout
    BY DEF Registry!BootWithout, RP!BootWithout, Registry!Resting, RP!Resting,
           Registry!NoClusters, RP!NoClusters, Registry!NoMetadata, RP!NoMetadata,
           Registry!NoMeta, RP!NoMeta
  <2>2. ASSUME NEW d \in Registry!Discovery, Registry!BootDiscovers(d) PROVE RP!BootDiscovers(d)
    BY <1>1, <2>2
       DEF Registry!BootDiscovers, RP!BootDiscovers, Registry!Resting, RP!Resting,
           Registry!NoClusters, RP!NoClusters, Registry!NoMetadata, RP!NoMetadata,
           Registry!NoMeta, RP!NoMeta, Registry!FoundMeta, RP!FoundMeta
  <2> QED
    BY <1>1, <1>3, <2>1, <2>2 DEF Registry!Boot, RP!Boot, RP!Next
<1>4. CASE Registry!ScanFails \/ Registry!WakeUp \/ Registry!Publish
  BY <1>4
     DEF Registry!ScanFails, RP!ScanFails, Registry!WakeUp, RP!WakeUp, Registry!Publish,
         RP!Publish, Registry!PublishClusters, RP!PublishClusters, Registry!PublishMetadata,
         RP!PublishMetadata, Registry!Resting, RP!Resting, Registry!NoClusters, RP!NoClusters,
         Registry!NoMetadata, RP!NoMetadata, Registry!NoMeta, RP!NoMeta, RP!Next
<1>5. ASSUME NEW d \in Registry!Discovery, Registry!ScanSucceeds(d) PROVE RP!Next
  <2>1. /\ Registry!Missed(d) = RP!Missed(d) /\ Registry!Stale(d) = RP!Stale(d)
        /\ Registry!MergedClusters(d) = RP!MergedClusters(d)
        /\ Registry!MergedMetadata(d) = RP!MergedMetadata(d)
    BY <1>1 DEF Registry!Missed, RP!Missed, Registry!Stale, RP!Stale, Registry!MergedClusters,
                RP!MergedClusters, Registry!MergedMetadata, RP!MergedMetadata,
                Registry!FoundMeta, RP!FoundMeta
  <2>2. RP!ScanSucceeds(d)
    BY <1>1, <1>5, <2>1 DEF Registry!ScanSucceeds, RP!ScanSucceeds, Registry!NoMeta, RP!NoMeta
  <2> QED
    BY <1>1, <2>2 DEF RP!Next
<1> QED
  BY <1>2, <1>3, <1>4, <1>5 DEF RegistryStep

LEMMA ManagerStepIsOne ==
  ASSUME NEW t \in Thread
  PROVE  /\ Sessions!Step(t) => SP!Step(t)
         /\ \A n, cfg : Sessions!CallGet(t, n, cfg) => SP!CallGet(t, n, cfg)
         /\ \A n : Sessions!CallShutdown(t, n) => SP!CallShutdown(t, n)
         /\ Sessions!Release(t) => SP!Release(t)
         /\ Sessions!ShutdownAll => SP!ShutdownAll
<1>1. Sessions!Idle = SP!Idle
  BY DEF Sessions!Idle, SP!Idle
<1>2. Sessions!ShutdownAll => SP!ShutdownAll
  BY DEF Sessions!ShutdownAll, SP!ShutdownAll, Sessions!Listed, SP!Listed
<1>3. /\ \A n, cfg : Sessions!CallGet(t, n, cfg) => SP!CallGet(t, n, cfg)
      /\ \A n : Sessions!CallShutdown(t, n) => SP!CallShutdown(t, n)
      /\ Sessions!Release(t) => SP!Release(t)
  BY <1>1 DEF Sessions!CallGet, SP!CallGet, Sessions!CallShutdown, SP!CallShutdown,
              Sessions!Release, SP!Release
<1>4. /\ Sessions!GetStored(t) => SP!GetStored(t)
      /\ Sessions!StartConnect(t) => SP!StartConnect(t)
      /\ Sessions!Connected(t) => SP!Connected(t)
      /\ Sessions!ConnectFailed(t) => SP!ConnectFailed(t)
      /\ Sessions!ConnectLeaks(t) => SP!ConnectLeaks(t)
  BY <1>1 DEF Sessions!GetStored, SP!GetStored, Sessions!StartConnect, SP!StartConnect,
              Sessions!Connected, SP!Connected, Sessions!ConnectFailed, SP!ConnectFailed,
              Sessions!ConnectLeaks, SP!ConnectLeaks, Sessions!Raises, SP!Raises,
              Sessions!Fresh, SP!Fresh
<1>5. /\ Sessions!PopEntries(t) => SP!PopEntries(t)
      /\ Sessions!CloseSession(t) => SP!CloseSession(t)
      /\ Sessions!CloseCluster(t) => SP!CloseCluster(t)
  BY <1>1 DEF Sessions!PopEntries, SP!PopEntries, Sessions!CloseSession, SP!CloseSession,
              Sessions!CloseCluster, SP!CloseCluster
<1> QED
  BY <1>2, <1>3, <1>4, <1>5 DEF Sessions!Step, SP!Step

(* A step of the whole is a step, or none, of either part. *)
LEMMA StepsAreTheirs ==
  ASSUME IInv, [Next]_vars
  PROVE  [RP!Next]_RP!vars /\ [SP!Next]_SP!vars
<1> SUFFICES /\ RP!Next \/ UNCHANGED registryVars
             /\ SP!Next \/ UNCHANGED sessionVars
  BY DEF RP!vars, SP!vars, registryVars, sessionVars
<1>1. CASE UNCHANGED vars
  BY <1>1 DEF vars
<1>2. ASSUME NEW r \in Request, NEW n \in Name, Lookup(r, n)
      PROVE  UNCHANGED registryVars /\ SP!Next
  <2>1. clusters[n] \in Registry!Config
    BY <1>2, Types DEF Lookup
  <2>2. Sessions!CallGet(r, n, clusters[n]) /\ r \in Thread
    BY <1>2, Types DEF Lookup
  <2>3. SP!CallGet(r, n, clusters[n])
    BY <2>2, ManagerStepIsOne
  <2> QED
    BY <1>2, <2>1, <2>2, <2>3 DEF Lookup, SP!Next
<1>3. ASSUME NEW r \in Request, Respond(r) PROVE UNCHANGED registryVars /\ SP!Next
  <2>1. SP!Release(r) /\ r \in Thread
    BY <1>3, Types, ManagerStepIsOne DEF Respond
  <2> QED
    BY <1>3, <2>1 DEF Respond, SP!Next
<1>4. ASSUME NEW r \in Request, CheckMutation(r) \/ ExecuteMutation(r)
      PROVE  UNCHANGED <<registryVars, sessionVars>>
  BY <1>4 DEF CheckMutation, ExecuteMutation
<1>5. ASSUME NEW t \in Thread, ManagerStep(t) PROVE UNCHANGED registryVars /\ SP!Next
  <2>1. SP!Step(t)
    BY <1>5, ManagerStepIsOne DEF ManagerStep
  <2> QED
    BY <1>5, <2>1 DEF ManagerStep, SP!Next
<1>6. CASE RegistryStep
  BY <1>6, RegistryStepIsOne DEF RegistryStep
<1>7. ASSUME NEW n \in Name, EvictCluster(n) PROVE RP!Next /\ SP!Next
  <2>1. RP!Next
    BY <1>7, RegistryStepIsOne DEF EvictCluster
  <2>2. SP!CallShutdown(Discoverer, n) /\ Discoverer \in Thread
    BY <1>7, Types, ManagerStepIsOne DEF EvictCluster
  <2> QED
    BY <2>1, <2>2 DEF SP!Next
<1>8. CASE AppShutdown
  <2>1. SP!ShutdownAll
    BY <1>8, Types, ManagerStepIsOne DEF AppShutdown
  <2> QED
    BY <1>8, <2>1 DEF AppShutdown, SP!Next
<1> QED
  BY <1>1, <1>2, <1>3, <1>4, <1>5, <1>6, <1>7, <1>8 DEF Next

LEMMA PartsInvariant == ASSUME IInv, [Next]_vars PROVE RP!IInv' /\ SP!IInv'
<1>1. RP!IInv'
  BY StepsAreTheirs, RP!StepInvariant, NameAssumption, ConfigAssumption, ThresholdAssumption
     DEF IInv
<1>2. SP!IInv'
  BY StepsAreTheirs, SP!StepInvariant, NullAssumption, ThreadAssumption, ConfigAssumption
     DEF IInv, Thread, Registry!Config
<1> QED
  BY <1>1, <1>2

-------------------------------------------------------------------------------
(* What a step of the manager's own code does, as far as the rest of the   *)
(* invariant can see.                                                      *)
Moves(t) == <<call[t].op, call'[t].op>> \in
  {<<"get", "using">>, <<"get", "connect">>, <<"connect", "using">>, <<"connect", "idle">>,
   <<"shutdown", "closeSession">>, <<"closeSession", "closeCluster">>, <<"closeCluster", "idle">>}

ConnsStay ==
  \A c \in Conn : conn[c].session # "unused" =>
    conn'[c].session # "unused" /\ conn'[c].name = conn[c].name /\ conn'[c].cfg = conn[c].cfg

MadeFor(t) ==
  \A c \in Conn : conn'[c].session # "unused" =>
    \/ conn[c].session # "unused"
    \/ call[t].op = "connect" /\ conn'[c].name = call[t].name /\ conn'[c].cfg = call[t].cfg

Handed(t) ==
  \A c \in Conn : call'[t].session = c =>
    /\ call'[t].op = "using" => conn'[c].name = call[t].name /\ conn'[c].session # "unused"
    /\ call'[t].op = "closeSession" => conn'[c].name = call[t].name

LEMMA ManagerEffect ==
  ASSUME IInv, NEW t \in Thread, ManagerStep(t)
  PROVE  /\ Moves(t) /\ ConnsStay /\ MadeFor(t) /\ Handed(t)
         /\ \A u \in Thread \ {t} : call'[u] = call[u]
         /\ call'[t].op # "idle" => call'[t].name = call[t].name /\ call'[t].cfg = call[t].cfg
         /\ call[t].op # "connect" => \A n \in Name : sessions'[n] \in {sessions[n], NoConn}
<1> USE Types
<1>0. \A n \in Name : sessions[n] # NoConn =>
        /\ sessions[n] \in Conn
        /\ conn[sessions[n]].session = "open" /\ conn[sessions[n]].name = n
  BY DEF IInv, SP!IInv, SP!StoredIsOpen
<1>1. CASE Sessions!GetStored(t) \/ Sessions!StartConnect(t) \/ Sessions!ConnectFailed(t)
  <2>1. UNCHANGED conn /\ call[t].op \in {"get", "connect"} /\ call[t].name \in Name
    BY <1>1 DEF Sessions!GetStored, Sessions!StartConnect, Sessions!ConnectFailed, Sessions!Raises
  <2>2. ConnsStay /\ MadeFor(t)
    BY <2>1 DEF ConnsStay, MadeFor
  <2>3. CASE Sessions!GetStored(t)
    BY <1>0, <2>1, <2>2, <2>3 DEF Sessions!GetStored, Moves, Handed, SP!CallRecord
  <2>4. CASE Sessions!StartConnect(t)
    BY <2>1, <2>2, <2>4 DEF Sessions!StartConnect, Moves, Handed, SP!CallRecord
  <2>5. CASE Sessions!ConnectFailed(t)
    BY <2>1, <2>2, <2>5
       DEF Sessions!ConnectFailed, Sessions!Raises, Sessions!Idle, Moves, Handed, SP!CallRecord
  <2> QED
    BY <1>1, <2>3, <2>4, <2>5
<1>2. CASE Sessions!Connected(t)
  <2>1. PICK c \in Conn :
          /\ call[t].op = "connect" /\ conn[c].session = "unused"
          /\ conn' = [conn EXCEPT ![c] = [name |-> call[t].name, cfg |-> call[t].cfg,
                                          session |-> "open", cluster |-> "open"]]
          /\ call' = [call EXCEPT ![t].op = "using", ![t].session = c]
    BY <1>2 DEF Sessions!Connected, Sessions!Fresh
  <2>2. /\ \A d \in Conn \ {c} : conn'[d] = conn[d]
        /\ conn'[c].name = call[t].name /\ conn'[c].cfg = call[t].cfg
        /\ conn'[c].session = "open"
    BY <2>1
  <2>3. /\ \A u \in Thread \ {t} : call'[u] = call[u]
        /\ call'[t].op = "using" /\ call'[t].session = c
        /\ call'[t].name = call[t].name /\ call'[t].cfg = call[t].cfg
    BY <2>1 DEF SP!CallRecord
  <2> QED
    BY <2>1, <2>2, <2>3 DEF Moves, ConnsStay, MadeFor, Handed
<1>3. CASE Sessions!PopEntries(t)
  <2>1. /\ UNCHANGED conn /\ call[t].op = "shutdown" /\ call[t].name \in Name
        /\ call' = [call EXCEPT ![t].op = "closeSession", ![t].session = sessions[call[t].name],
                                ![t].cluster = instances[call[t].name]]
        /\ sessions' = [sessions EXCEPT ![call[t].name] = NoConn]
    BY <1>3 DEF Sessions!PopEntries
  <2>2. /\ \A u \in Thread \ {t} : call'[u] = call[u]
        /\ call'[t].op = "closeSession" /\ call'[t].session = sessions[call[t].name]
        /\ call'[t].name = call[t].name /\ call'[t].cfg = call[t].cfg
    BY <2>1 DEF SP!CallRecord
  <2>3. \A c \in Conn : sessions[call[t].name] = c => conn[c].name = call[t].name
    BY <1>0, <2>1, NullAssumption
  <2> QED
    BY <2>1, <2>2, <2>3 DEF Moves, ConnsStay, MadeFor, Handed
<1>4. CASE Sessions!CloseSession(t)
  <2>1. PICK outcome \in {"closed", "failed"} :
          conn' = [c \in Conn |-> IF c = call[t].session
                                  THEN [conn[c] EXCEPT !.session = outcome] ELSE conn[c]]
    BY <1>4 DEF Sessions!CloseSession
  <2>2. /\ call[t].op = "closeSession" /\ call' = [call EXCEPT ![t].op = "closeCluster"]
        /\ UNCHANGED sessions
    BY <1>4 DEF Sessions!CloseSession
  <2>3. /\ \A u \in Thread \ {t} : call'[u] = call[u]
        /\ call'[t].op = "closeCluster"
        /\ call'[t].name = call[t].name /\ call'[t].cfg = call[t].cfg
    BY <2>2 DEF SP!CallRecord
  <2>4. \A c \in Conn : /\ conn'[c].name = conn[c].name /\ conn'[c].cfg = conn[c].cfg
                        /\ c # call[t].session => conn'[c].session = conn[c].session
                        /\ c = call[t].session => conn'[c].session = outcome
    BY <2>1 DEF SP!ConnRecord
  <2>5. \A c \in Conn : c = call[t].session => conn[c].session # "unused"
    BY <2>2 DEF IInv, SP!IInv, SP!ClosingBoth, SP!ClosingCluster
  <2> QED
    BY <2>2, <2>3, <2>4, <2>5 DEF Moves, ConnsStay, MadeFor, Handed
<1>5. CASE Sessions!CloseCluster(t)
  <2>1. PICK outcome \in {"closed", "failed"} :
          conn' = [c \in Conn |-> IF c = call[t].cluster
                                  THEN [conn[c] EXCEPT !.cluster = outcome] ELSE conn[c]]
    BY <1>5 DEF Sessions!CloseCluster
  <2>2. /\ call[t].op = "closeCluster" /\ call' = [call EXCEPT ![t] = Sessions!Idle]
        /\ UNCHANGED sessions
    BY <1>5 DEF Sessions!CloseCluster
  <2>3. (\A u \in Thread \ {t} : call'[u] = call[u]) /\ call'[t].op = "idle"
    BY <2>2 DEF Sessions!Idle
  <2>4. \A c \in Conn : /\ conn'[c].name = conn[c].name /\ conn'[c].cfg = conn[c].cfg
                        /\ conn'[c].session = conn[c].session
    BY <2>1 DEF SP!ConnRecord
  <2> QED
    BY <2>2, <2>3, <2>4 DEF Moves, ConnsStay, MadeFor, Handed
<1>6. CASE Sessions!ConnectLeaks(t)
  <2>1. /\ call[t].op = "connect" /\ call' = [call EXCEPT ![t] = Sessions!Idle]
        /\ UNCHANGED sessions
    BY <1>6 DEF Sessions!ConnectLeaks, Sessions!Raises
  <2>2. (\A u \in Thread \ {t} : call'[u] = call[u]) /\ call'[t].op = "idle"
    BY <2>1 DEF Sessions!Idle
  <2>3. PICK c \in Conn :
          /\ conn[c].session = "unused"
          /\ conn' = [conn EXCEPT ![c] = [name |-> call[t].name, cfg |-> call[t].cfg,
                                          session |-> "unused", cluster |-> "open"]]
    BY <1>6 DEF Sessions!ConnectLeaks, Sessions!Fresh
  <2>4. conn'[c].session = "unused" /\ \A d \in Conn \ {c} : conn'[d] = conn[d]
    BY <2>3
  <2>5. ConnsStay /\ MadeFor(t)
    BY <2>3, <2>4 DEF ConnsStay, MadeFor
  <2> QED
    BY <2>1, <2>2, <2>5 DEF Moves, Handed
<1> QED
  BY <1>1, <1>2, <1>3, <1>4, <1>5, <1>6 DEF ManagerStep, Sessions!Step

LEMMA ManagerInvariant == ASSUME IInv, NEW t \in Thread, ManagerStep(t) PROVE Own'
<1> USE Types, ManagerEffect
<1>0. UNCHANGED <<clusters, pass, down, evicted, checked, written>>
  BY DEF ManagerStep, registryVars
<1>1. Roles'
  BY DEF IInv, Own, Roles, Moves, Thread
<1>2. HandsMatch'
  <2> SUFFICES ASSUME NEW u \in Thread, NEW c \in Conn, call'[u].session = c
               PROVE  /\ call'[u].op = "using" =>
                           conn'[c].name = call'[u].name /\ conn'[c].session # "unused"
                      /\ call'[u].op = "closeSession" => conn'[c].name = call'[u].name
    BY DEF HandsMatch
  <2>1. CASE u = t
    BY <2>1 DEF Handed
  <2>2. CASE u # t
    <3>1. call'[u] = call[u]
      BY <2>2
    <3>2. call[u].op = "closeSession" => conn[c].session # "unused"
      BY <3>1 DEF IInv, SP!IInv, SP!ClosingBoth, SP!ClosingCluster
    <3> QED
      BY <3>1, <3>2 DEF IInv, Own, HandsMatch, ConnsStay
  <2> QED
    BY <2>1, <2>2
<1>3. EvictedAreRemoved'
  BY <1>0 DEF IInv, Own, EvictedAreRemoved, Removed, Moves
<1>4. BootIsQuiet'
  BY <1>0 DEF IInv, Own, BootIsQuiet, Moves
<1>5. ConfigsAgree'
  <2>1. ASSUME NEW u \in Thread, call'[u].op \in {"get", "connect", "using"},
               call'[u].name \notin evicted
        PROVE  call'[u].cfg = clusters[call'[u].name]
    BY <2>1 DEF IInv, Own, ConfigsAgree, Moves
  <2>2. ASSUME NEW c \in Conn, conn'[c].session # "unused"
        PROVE  /\ conn'[c].name \in Name /\ conn'[c].cfg \in Registry!Config
               /\ conn'[c].name \notin evicted => conn'[c].cfg = clusters[conn'[c].name]
    BY <2>2 DEF IInv, Own, ConfigsAgree, ConnsStay, MadeFor
  <2> QED
    BY <1>0, <2>1, <2>2 DEF ConfigsAgree
<1>6. DownIsEmpty'
  <2> SUFFICES ASSUME down
               PROVE  /\ \A n \in Name : sessions'[n] = NoConn
                      /\ \A r \in Request : call'[r].op = "idle"
    BY <1>0 DEF DownIsEmpty
  <2>1. t \notin Request
    BY DEF IInv, Own, DownIsEmpty, Moves
  <2>2. call[t].op # "connect"
    BY <2>1 DEF IInv, Own, Roles, Thread
  <2> QED
    BY <2>1, <2>2 DEF IInv, Own, DownIsEmpty
<1>7. WritesAgree'
  <2> SUFFICES ASSUME NEW r \in checked
               PROVE  /\ call'[r].op = "using"
                      /\ conn'[call'[r].session].cfg = StaticConfig => call'[r].name \in evicted
    BY <1>0 DEF IInv, Own, WritesAgree
  <2>1. r \in Thread /\ call[r].op = "using"
    BY DEF IInv, Own, WritesAgree
  <2>2. call'[r] = call[r]
    BY <2>1 DEF Moves
  <2>3. call[r].session \in Conn /\ conn[call[r].session].session # "unused"
    BY <2>1 DEF IInv, Own, HandsMatch, SP!IInv, SP!CallsAreNamed
  <2> QED
    BY <2>2, <2>3 DEF IInv, Own, WritesAgree, ConnsStay
<1> QED
  BY <1>0, <1>1, <1>2, <1>3, <1>4, <1>5, <1>6, <1>7 DEF IInv, Own

-------------------------------------------------------------------------------
LEMMA RequestInvariant ==
  ASSUME IInv, NEW r \in Request,
         \/ CheckMutation(r) \/ ExecuteMutation(r)
         \/ Respond(r) \/ \E n \in Name : Lookup(r, n)
  PROVE  Own'
<1> USE Types
<1>0. UNCHANGED <<clusters, pass, down, evicted, sessions, conn>>
  BY DEF Respond, CheckMutation, ExecuteMutation, Lookup, registryVars, sessionVars,
         Sessions!Release, Sessions!CallGet
<1>1. CASE CheckMutation(r) \/ ExecuteMutation(r)
  <2>1. UNCHANGED call
    BY <1>1 DEF CheckMutation, ExecuteMutation, sessionVars
  <2>2. ASSUME CheckMutation(r) PROVE WritesAgree' /\ checked' \subseteq Request
    <3> DEFINE c == call[r].session
    <3>1. c \in Conn /\ call[r].op = "using" /\ clusters[call[r].name] # StaticConfig
      BY <2>2 DEF CheckMutation, IInv, SP!IInv, SP!CallsAreNamed
    <3>2. conn[c].name = call[r].name /\ conn[c].session # "unused"
      BY <3>1 DEF IInv, Own, HandsMatch
    <3>3. conn[c].cfg = StaticConfig => call[r].name \in evicted
      BY <3>1, <3>2 DEF IInv, Own, ConfigsAgree
    <3>4. checked' = checked \cup {r} /\ UNCHANGED written
      BY <2>2 DEF CheckMutation
    <3> QED
      BY <1>0, <2>1, <3>1, <3>3, <3>4 DEF IInv, Own, WritesAgree
  <2>3. ASSUME ExecuteMutation(r) PROVE WritesAgree' /\ checked' \subseteq Request
    <3> DEFINE c == call[r].session
    <3>1. r \in checked /\ checked' = checked \ {r}
      BY <2>3 DEF ExecuteMutation
    <3>2. call[r].op = "using" /\ conn[c].cfg = StaticConfig => call[r].name \in evicted
      BY <3>1 DEF IInv, Own, WritesAgree
    <3>3. call[r].op = "using"
      BY <3>1 DEF IInv, Own, WritesAgree
    <3>4. c \in Conn /\ conn[c].name = call[r].name
      BY <3>3 DEF IInv, Own, HandsMatch, SP!IInv, SP!CallsAreNamed
    <3>5. \/ UNCHANGED written
          \/ written' = written \cup {conn[c].name} /\ conn[c].cfg = StaticConfig
      BY <2>3 DEF ExecuteMutation
    <3> QED
      BY <1>0, <2>1, <3>1, <3>2, <3>3, <3>4, <3>5 DEF IInv, Own, WritesAgree
  <2> QED
    BY <1>0, <1>1, <2>1, <2>2, <2>3
       DEF IInv, Own, Roles, HandsMatch, EvictedAreRemoved, Removed, BootIsQuiet, ConfigsAgree,
           DownIsEmpty
<1>2. CASE Respond(r) \/ \E n \in Name : Lookup(r, n)
  <2>1. /\ \A u \in Thread \ {r} : call'[u] = call[u]
        /\ UNCHANGED <<checked, written>> /\ r \notin checked
        /\ \/ call'[r].op = "idle"
           \/ /\ call'[r].op = "get" /\ call'[r].name \in Name
              /\ call'[r].cfg = clusters[call'[r].name] /\ pass.step # "boot" /\ ~down
    <3>1. CASE Respond(r)
      BY <1>2, <3>1 DEF Respond, Sessions!Release, Sessions!Idle
    <3>2. ASSUME NEW n \in Name, Lookup(r, n)
          PROVE  /\ \A u \in Thread \ {r} : call'[u] = call[u]
                 /\ UNCHANGED <<checked, written>> /\ r \notin checked
                 /\ pass.step # "boot" /\ ~down
                 /\ call'[r].op = "get" /\ call'[r].name = n /\ call'[r].cfg = clusters[n]
      BY <3>2 DEF Lookup, Sessions!CallGet, Sessions!Idle, IInv, Own, WritesAgree
    <3> QED
      BY <1>2, <3>1, <3>2
  <2>2. Roles' /\ HandsMatch'
    BY <1>0, <2>1 DEF IInv, Own, Roles, HandsMatch
  <2>3. EvictedAreRemoved' /\ BootIsQuiet' /\ DownIsEmpty' /\ WritesAgree'
    BY <1>0, <2>1
       DEF IInv, Own, EvictedAreRemoved, Removed, BootIsQuiet, DownIsEmpty, WritesAgree
  <2>4. ConfigsAgree'
    <3>1. ASSUME NEW u \in Thread, call'[u].op \in {"get", "connect", "using"},
                 call'[u].name \notin evicted
          PROVE  call'[u].cfg = clusters[call'[u].name]
      BY <2>1, <3>1 DEF IInv, Own, ConfigsAgree
    <3> QED
      BY <1>0, <3>1 DEF IInv, Own, ConfigsAgree
  <2> QED
    BY <1>0, <2>1, <2>2, <2>3, <2>4 DEF IInv, Own
<1> QED
  BY <1>1, <1>2

(* What the discovery thread's other steps do to the pass and the registry. *)
LEMMA RegistryEffect ==
  ASSUME IInv, RegistryStep
  PROVE  \/ /\ pass.step = "boot" /\ pass'.step # "evict"
         \/ /\ pass.step # "boot" /\ pass'.step \notin {"boot", "evict"} /\ UNCHANGED clusters
         \/ /\ pass.step = "evict" /\ pass.evict = {} /\ clusters' = pass.clusters
            /\ pass'.step \notin {"boot", "evict"}
         \/ /\ pass.step = "scan" /\ UNCHANGED clusters /\ pass'.step = "evict"
            /\ pass'.evict \subseteq Name
            /\ \A n \in Name : clusters[n] # NoConfig =>
                 (pass'.clusters[n] = NoConfig <=> n \in pass'.evict)
            /\ \A n \in pass'.evict : clusters[n] # NoConfig
<1> USE Types
<1>1. CASE Registry!Boot
  BY <1>1 DEF Registry!Boot, Registry!BootWithout, Registry!BootDiscovers, Registry!Resting
<1>2. CASE Registry!ScanFails \/ Registry!WakeUp
  BY <1>2 DEF Registry!ScanFails, Registry!WakeUp, Registry!Resting
<1>3. CASE Registry!Publish
  BY <1>3 DEF Registry!Publish, Registry!PublishClusters, Registry!PublishMetadata,
              Registry!Resting, RP!Pass
<1>4. ASSUME NEW d \in Registry!Discovery, Registry!ScanSucceeds(d)
      PROVE  /\ pass.step = "scan" /\ UNCHANGED clusters /\ pass'.step = "evict"
             /\ pass'.evict \subseteq Name
             /\ \A n \in Name : clusters[n] # NoConfig =>
                  (pass'.clusters[n] = NoConfig <=> n \in pass'.evict)
             /\ \A n \in pass'.evict : clusters[n] # NoConfig
  <2>1. /\ pass.step = "scan" /\ UNCHANGED clusters /\ pass'.step = "evict"
        /\ pass'.evict = Registry!Stale(d)
        /\ \A n \in Name : pass'.clusters[n] = IF n \in Registry!Stale(d) THEN NoConfig
                                               ELSE Registry!MergedClusters(d)[n]
    BY <1>4 DEF Registry!ScanSucceeds
  <2>2. \A n \in Name : clusters[n] # NoConfig => Registry!MergedClusters(d)[n] = clusters[n]
    BY DEF Registry!MergedClusters
  <2>3. \A n \in Registry!Stale(d) : n \in Name /\ metadata[n].source = "k8s"
    BY DEF Registry!Stale, Registry!Missed
  <2>4. \A n \in Name : metadata[n].source = "k8s" => clusters[n] # NoConfig
    BY <2>1 DEF IInv, RP!IInv, RP!Agreement, RP!RegistryAgrees, RP!Registered
  <2> QED
    BY <2>1, <2>2, <2>3, <2>4
<1> QED
  BY <1>1, <1>2, <1>3, <1>4 DEF RegistryStep

LEMMA RegistryInvariant == ASSUME IInv, RegistryStep PROVE Own'
<1> USE Types
<1>0. call[Discoverer].op = "idle" /\ UNCHANGED <<sessions, conn, call, down, evicted, checked, written>>
  BY DEF RegistryStep, sessionVars
<1>1. Roles' /\ HandsMatch' /\ DownIsEmpty' /\ WritesAgree'
  BY <1>0 DEF IInv, Own, Roles, HandsMatch, DownIsEmpty, WritesAgree
<1>2. EvictedAreRemoved'
  BY <1>0, RegistryEffect DEF EvictedAreRemoved, Removed
<1>3. BootIsQuiet'
  BY <1>0, RegistryEffect DEF IInv, Own, BootIsQuiet, RegistryStep, Registry!Boot
<1>4. ConfigsAgree'
  <2>1. CASE pass.step = "boot"
    BY <1>0, <2>1 DEF IInv, Own, BootIsQuiet, ConfigsAgree
  <2>2. CASE UNCHANGED clusters
    BY <1>0, <2>2 DEF IInv, Own, ConfigsAgree
  <2>3. CASE pass.step = "evict" /\ pass.evict = {} /\ clusters' = pass.clusters
    <3>1. \A n \in Name \ evicted : clusters[n] # NoConfig => clusters'[n] = clusters[n]
      <4>1. \A n \in Name : clusters[n] # NoConfig =>
              pass.clusters[n] = NoConfig \/ pass.clusters[n] = clusters[n]
        BY <2>3 DEF IInv, RP!IInv, RP!CopyIsJustified, RP!Registered
      <4> QED
        BY <2>3, <4>1 DEF IInv, Own, EvictedAreRemoved, Removed
    <3>2. NoConfig \notin Registry!Config
      BY ConfigAssumption DEF Registry!Config
    <3> QED
      BY <1>0, <3>1, <3>2 DEF IInv, Own, ConfigsAgree
  <2> QED
    BY <2>1, <2>2, <2>3, RegistryEffect
<1> QED
  BY <1>0, <1>1, <1>2, <1>3, <1>4 DEF IInv, Own

LEMMA EvictInvariant == ASSUME IInv, NEW n \in Name, EvictCluster(n) PROVE Own'
<1> USE Types
<1>0. /\ call[Discoverer].op = "idle" /\ pass.step = "evict" /\ n \in pass.evict
      /\ pass' = [pass EXCEPT !.evict = @ \ {n}] /\ evicted' = evicted \cup {n}
      /\ \A u \in Thread \ {Discoverer} : call'[u] = call[u]
      /\ call'[Discoverer].op = "shutdown" /\ call'[Discoverer].name = n
      /\ UNCHANGED <<clusters, sessions, conn, down, checked, written>>
  BY DEF EvictCluster, Registry!Evict, Sessions!CallShutdown, Sessions!Idle
<1>1. pass'.step = "evict" /\ pass'.clusters = pass.clusters /\ pass'.evict = pass.evict \ {n}
  BY <1>0 DEF RP!Pass
<1>2. Roles' /\ HandsMatch' /\ BootIsQuiet'
  BY <1>0, <1>1 DEF IInv, Own, Roles, HandsMatch, BootIsQuiet
<1>3. EvictedAreRemoved'
  BY <1>0, <1>1 DEF IInv, Own, EvictedAreRemoved, Removed
<1>4. ConfigsAgree' /\ DownIsEmpty' /\ WritesAgree'
  BY <1>0 DEF IInv, Own, ConfigsAgree, DownIsEmpty, WritesAgree
<1> QED
  BY <1>0, <1>2, <1>3, <1>4 DEF IInv, Own

LEMMA ShutdownInvariant == ASSUME IInv, AppShutdown PROVE Own'
<1> USE Types
<1>0. /\ \A r \in Request : call[r].op = "idle"
      /\ down' = TRUE /\ \A n \in Name : sessions'[n] = NoConn
      /\ UNCHANGED <<clusters, pass, call, evicted, checked, written>> /\ pass.step # "boot"
  BY DEF AppShutdown, Sessions!ShutdownAll, registryVars
<1>1. SP!ShutdownAll
  BY ManagerStepIsOne DEF AppShutdown
<1>2. \A c \in Conn : /\ conn'[c].name = conn[c].name /\ conn'[c].cfg = conn[c].cfg
                      /\ conn[c].session = "unused" <=> conn'[c].session = "unused"
  <2>1. PICK failing \in SUBSET Sessions!Listed(sessions),
             failingCluster \in SUBSET Sessions!Listed(instances) :
          conn' = [c \in Conn |->
            [conn[c] EXCEPT
               !.session = IF c \notin Sessions!Listed(sessions) THEN @
                           ELSE IF c \in failing THEN "failed" ELSE "closed",
               !.cluster = IF c \notin Sessions!Listed(instances) THEN @
                           ELSE IF c \in failingCluster THEN "failed" ELSE "closed"]]
    BY DEF AppShutdown, Sessions!ShutdownAll
  <2>2. \A c \in Sessions!Listed(sessions) : c \in Conn /\ conn[c].session # "unused"
    BY NullAssumption DEF IInv, SP!IInv, SP!StoredIsOpen, Sessions!Listed
  <2>3. \A c \in Conn : conn[c] \in SP!ConnRecord
    OBVIOUS
  <2> QED
    BY <2>1, <2>2, <2>3 DEF SP!ConnRecord
<1>3. Roles' /\ HandsMatch' /\ BootIsQuiet'
  BY <1>0, <1>2 DEF IInv, Own, Roles, HandsMatch, BootIsQuiet
<1>4. EvictedAreRemoved' /\ DownIsEmpty'
  BY <1>0 DEF IInv, Own, EvictedAreRemoved, Removed, DownIsEmpty
<1>5. ConfigsAgree' /\ WritesAgree'
  BY <1>0, <1>2 DEF IInv, Own, ConfigsAgree, WritesAgree
<1> QED
  BY <1>0, <1>3, <1>4, <1>5 DEF IInv, Own

LEMMA StepInvariant == IInv /\ [Next]_vars => IInv'
<1> SUFFICES ASSUME IInv, [Next]_vars PROVE Own'
  BY PartsInvariant DEF IInv
<1>1. CASE UNCHANGED vars
  BY <1>1 DEF vars, registryVars, sessionVars, IInv, Own, Roles, HandsMatch, EvictedAreRemoved,
              Removed, BootIsQuiet, ConfigsAgree, DownIsEmpty, WritesAgree
<1>2. CASE Next
  BY <1>2, RequestInvariant, ManagerInvariant, RegistryInvariant, EvictInvariant,
     ShutdownInvariant DEF Next
<1> QED
  BY <1>1, <1>2

-------------------------------------------------------------------------------
(* The composition implements the registry and the session manager, each   *)
(* as it is specified alone: nothing they promise is lost by running them  *)
(* together without a common lock.                                         *)
THEOREM Composes == Spec => Registry!Spec /\ Sessions!Spec
<1>1. Init => Registry!Init /\ Sessions!Init
  BY DEF Init
<1>2. IInv /\ [Next]_vars => [Registry!Next]_Registry!vars /\ [Sessions!Next]_Sessions!vars
  <2> SUFFICES ASSUME IInv, [Next]_vars
               PROVE  /\ Registry!Next \/ UNCHANGED registryVars
                      /\ Sessions!Next \/ UNCHANGED sessionVars
    BY DEF Registry!vars, Sessions!vars, registryVars, sessionVars
  <2>1. ASSUME NEW r \in Request, NEW n \in Name, Lookup(r, n)
        PROVE  UNCHANGED registryVars /\ Sessions!Next
    BY <2>1, Types DEF Lookup, Sessions!Next
  <2>2. ASSUME NEW r \in Request, Respond(r) PROVE UNCHANGED registryVars /\ Sessions!Next
    BY <2>2, Types DEF Respond, Sessions!Next
  <2>3. CASE RegistryStep
    BY <2>3 DEF RegistryStep, Registry!Next
  <2>4. ASSUME NEW n \in Name, EvictCluster(n) PROVE Registry!Next /\ Sessions!Next
    BY <2>4, Types DEF EvictCluster, Registry!Next, Sessions!Next
  <2>5. ASSUME NEW t \in Thread, ManagerStep(t) PROVE UNCHANGED registryVars /\ Sessions!Next
    BY <2>5 DEF ManagerStep, Sessions!Next
  <2>6. CASE AppShutdown
    BY <2>6 DEF AppShutdown, Sessions!Next
  <2>7. ASSUME NEW r \in Request, CheckMutation(r) \/ ExecuteMutation(r)
        PROVE  UNCHANGED <<registryVars, sessionVars>>
    BY <2>7 DEF CheckMutation, ExecuteMutation
  <2>8. CASE UNCHANGED vars
    BY <2>8 DEF vars
  <2> QED
    BY <2>1, <2>2, <2>3, <2>4, <2>5, <2>6, <2>7, <2>8 DEF Next
<1> QED
  BY <1>1, <1>2, InitInvariant, StepInvariant, PTL DEF Spec, Registry!Spec, Sessions!Spec

(* The invariant holds in every reachable state. *)
THEOREM Invariance == Spec => []IInv
  BY InitInvariant, StepInvariant, PTL DEF Spec

(* Both tables, the threads and the histories keep their types. *)
THEOREM TypeCorrect == Spec => []TypeOK
<1>1. IInv => TypeOK
  BY DEF IInv, Own, WritesAgree, RP!IInv, SP!IInv, TypeOK, RP!TypeOK, Registry!TypeOK, SP!TypeOK, Sessions!TypeOK,
         RP!Clusters, Registry!Clusters, RP!Config, Registry!Config, RP!Metadata,
         Registry!Metadata, RP!Source, Registry!Source, RP!Pass, Registry!Pass, RP!Step,
         Registry!Step, SP!ConnRecord, Sessions!ConnRecord, SP!CallRecord, Sessions!CallRecord,
         SP!Status, Sessions!Status, SP!Op, Sessions!Op
<1> QED
  BY Invariance, <1>1, PTL

(* Unless its name was evicted before, a session was opened with the       *)
(* configuration that is registered for its cluster.                       *)
THEOREM SessionsMatchRegistry == Spec => []SessionUsesRegisteredConfig
<1>1. IInv => SessionUsesRegisteredConfig
  <2> SUFFICES ASSUME IInv, NEW n \in Name, sessions[n] # NoConn, n \notin evicted
               PROVE  conn[sessions[n]].cfg = clusters[n]
    BY DEF SessionUsesRegisteredConfig
  <2>1. sessions[n] \in Conn /\ conn[sessions[n]].session = "open" /\ conn[sessions[n]].name = n
    BY Types DEF IInv, SP!IInv, SP!StoredIsOpen
  <2> QED
    BY <2>1 DEF IInv, Own, ConfigsAgree
<1> QED
  BY Invariance, <1>1, PTL

(* No mutation that execute_cql recognises as one is executed on a         *)
(* read-only cluster, unless that cluster was evicted at some time.        *)
THEOREM ReadOnlyHolds == Spec => []ReadOnlyUnlessEvicted
<1>1. IInv => ReadOnlyUnlessEvicted
  BY DEF IInv, Own, WritesAgree, ReadOnlyUnlessEvicted
<1> QED
  BY Invariance, <1>1, PTL

(* The shutdown of the application and the end of a running pass leave no  *)
(* session open, and no cluster object but those of connects that raised.  *)
THEOREM ExitIsClean == Spec => []NothingOpenAtExit
<1>1. IInv => NothingOpenAtExit
  <2> SUFFICES ASSUME IInv, down, AtRest, NEW c \in Conn
               PROVE  ~Opened(c) /\ (conn[c].cluster = "open" => Sessions!Leaked(c))
    BY DEF NothingOpenAtExit
  <2>1. \A n \in Name : sessions[n] # c /\ instances[n] # c
    <3>1. \A n \in Name : sessions[n] = NoConn
      BY DEF IInv, Own, DownIsEmpty
    <3>2. \A n \in Name : instances[n] = sessions[n]
      BY DEF IInv, SP!IInv, SP!StoredIsOpen
    <3> QED
      BY <3>1, <3>2, NullAssumption
  <2>2. \A t \in Thread : call[t].op = "idle"
    BY DEF AtRest
  <2> QED
    BY <2>1, <2>2 DEF IInv, SP!IInv, SP!OrphansOnlyFromFailedConnect, SP!Leaked,
                      Sessions!Leaked, SP!Stored, SP!StoredCluster,
                      SP!ClosingSession, SP!ClosingCluster, Opened
<1> QED
  BY Invariance, <1>1, PTL

(* No session is closed under the requests that use it before the last     *)
(* StaleThreshold successful scans missed its cluster.                     *)
THEOREM ClosingIsJustified == Spec => ClosedOnlyAfterMisses
<1> DEFINE Justified ==
      \A c \in Conn : Opened(c) /\ ~Opened(c)' =>
        down' \/ \A i \in 1..StaleThreshold : conn[c].name \notin recent[i]
<1>1. IInv /\ [Next]_vars => [Justified]_vars
  <2> SUFFICES ASSUME IInv, Next, NEW c \in Conn, Opened(c), ~Opened(c)', ~down'
               PROVE  \A i \in 1..StaleThreshold : conn[c].name \notin recent[i]
    OBVIOUS
  <2>1. PICK t \in Thread : ManagerStep(t)
    <3>1. conn' # conn
      BY DEF Opened
    <3> QED
      BY <3>1 DEF Next, Respond, CheckMutation, ExecuteMutation, Lookup, RegistryStep, EvictCluster, AppShutdown,
                  sessionVars, Sessions!Release, Sessions!CallGet, Sessions!CallShutdown
  <2>2. Sessions!CloseSession(t) /\ call[t].session = c
    <3>1. ~(Sessions!Connected(t) \/ Sessions!ConnectLeaks(t) \/ Sessions!CloseCluster(t))
      BY Types DEF Sessions!Connected, Sessions!ConnectLeaks, Sessions!Fresh, Sessions!CloseCluster, Opened, SP!ConnRecord
    <3>2. Sessions!CloseSession(t)
      BY <2>1, <3>1 DEF ManagerStep, Sessions!Step, Opened, Sessions!GetStored,
           Sessions!StartConnect, Sessions!ConnectFailed, Sessions!PopEntries
    <3> QED
      BY <3>2, Types DEF Sessions!CloseSession, Opened, SP!ConnRecord
  <2>3. t = Discoverer /\ call[t].op = "closeSession"
    BY <2>2 DEF Sessions!CloseSession, IInv, Own, Roles, Thread
  <2>4. conn[c].name = call[t].name /\ call[t].name \in Name
    BY <2>2, <2>3, Types DEF IInv, Own, HandsMatch
  <2>5. pass.step = "evict" /\ Removed(conn[c].name)
    BY <2>3, <2>4 DEF IInv, Own, EvictedAreRemoved
  <2> QED
    BY <2>4, <2>5 DEF Removed, IInv, RP!IInv, RP!CopyIsJustified, RP!Registered
<1> QED
  BY Invariance, <1>1, PTL DEF Spec, ClosedOnlyAfterMisses
===============================================================================
