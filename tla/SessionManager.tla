---------------------------- MODULE SessionManager ----------------------------
(***************************************************************************)
(* cassanova/core/session_manager.py: the process-wide table of driver     *)
(* connections, one per Cassandra cluster, behind one threading.Lock.  The *)
(* callers are request threads (get_session) and the discovery thread      *)
(* (shutdown); the application's shutdown event calls shutdown_all.        *)
(*                                                                         *)
(* A connection c stands for the driver's Cluster object and the Session   *)
(* opened from it.  The dictionaries are total functions, with NoConn for  *)
(* an absent key.                                                          *)
(***************************************************************************)
CONSTANTS Name,       \* cluster names
          Config,     \* connection configurations
          Conn,       \* identities of driver connections; the bound on connects
          Thread,     \* threads calling the manager
          Free,       \* the value of an unheld lock
          NoConn,     \* an absent dictionary entry
          NoName,     \* the owner of a connection not made yet, the argument of no call
          NoConfig    \* likewise, for configurations

ASSUME FreeAssumption == Free \notin Thread
ASSUME NullAssumption == NoConn \notin Conn /\ NoName \notin Name /\ NoConfig \notin Config

VARIABLES sessions,   \* SessionManager._sessions
          instances,  \* SessionManager._instances
          lock,       \* SessionManager._lock: its holder, or Free
          conn,       \* the driver's side: what became of each connection
          call        \* what each thread is doing in, or with, the manager

vars == <<sessions, instances, lock, conn, call>>

Status == {"unused", "open", "closed", "failed"}
Op == {"idle", "get", "connect", "using", "shutdown", "closeSession", "closeCluster"}

ConnRecord == [name : Name \cup {NoName}, cfg : Config \cup {NoConfig},
               session : Status, cluster : Status]
CallRecord == [op : Op, name : Name \cup {NoName}, cfg : Config \cup {NoConfig},
               session : Conn \cup {NoConn}, cluster : Conn \cup {NoConn}]

Idle == [op |-> "idle", name |-> NoName, cfg |-> NoConfig,
         session |-> NoConn, cluster |-> NoConn]

TypeOK ==
  /\ sessions \in [Name -> Conn \cup {NoConn}]
  /\ instances \in [Name -> Conn \cup {NoConn}]
  /\ lock \in Thread \cup {Free}
  /\ conn \in [Conn -> ConnRecord]
  /\ call \in [Thread -> CallRecord]

Init ==
  /\ sessions = [n \in Name |-> NoConn]
  /\ instances = [n \in Name |-> NoConn]
  /\ lock = Free
  /\ conn = [c \in Conn |-> [name |-> NoName, cfg |-> NoConfig,
                             session |-> "unused", cluster |-> "unused"]]
  /\ call = [t \in Thread |-> Idle]

-------------------------------------------------------------------------------
(* A thread enters get_session(cluster_name, cluster_config). *)
CallGet(t, n, cfg) ==
  /\ call[t].op = "idle"
  /\ call' = [call EXCEPT ![t] = [Idle EXCEPT !.op = "get", !.name = n, !.cfg = cfg]]
  /\ UNCHANGED <<sessions, instances, lock, conn>>

(* It takes the lock, finds the session and returns it: one step, since    *)
(* nothing inside blocks or is seen from outside.                          *)
GetStored(t) ==
  /\ call[t].op = "get"
  /\ lock = Free
  /\ sessions[call[t].name] # NoConn
  /\ call' = [call EXCEPT ![t].op = "using", ![t].session = sessions[call[t].name]]
  /\ UNCHANGED <<sessions, instances, lock, conn>>

(* As StartConnect, but without waiting for a connecting thread. *)
StartConnectUnlocked(t) ==
  /\ call[t].op = "get"
  /\ sessions[call[t].name] = NoConn
  /\ lock' = t
  /\ call' = [call EXCEPT ![t].op = "connect"]
  /\ UNCHANGED <<sessions, instances, conn>>

(* It takes the lock, finds no session and starts to connect, keeping the  *)
(* lock until the driver answers.                                          *)
StartConnect(t) ==
  /\ call[t].op = "get"
  /\ lock = Free
  /\ sessions[call[t].name] = NoConn
  /\ lock' = t
  /\ call' = [call EXCEPT ![t].op = "connect"]
  /\ UNCHANGED <<sessions, instances, conn>>

(* A connection no attempt has used yet. *)
Fresh(c) == conn[c].session = "unused" /\ conn[c].cluster = "unused"

(* connect() returned: both objects are stored, the lock is released and   *)
(* the session is returned.                                                *)
Connected(t) ==
  LET n == call[t].name IN
  \E c \in Conn :
    /\ call[t].op = "connect"
    /\ Fresh(c)
    /\ conn' = [conn EXCEPT ![c] = [name |-> n, cfg |-> call[t].cfg,
                                    session |-> "open", cluster |-> "open"]]
    /\ instances' = [instances EXCEPT ![n] = c]
    /\ sessions' = [sessions EXCEPT ![n] = c]
    /\ lock' = Free
    /\ call' = [call EXCEPT ![t].op = "using", ![t].session = c]

(* An exception leaves get_session: nothing is stored. *)
Raises(t) ==
  /\ call[t].op = "connect"
  /\ call' = [call EXCEPT ![t] = Idle]
  /\ UNCHANGED <<sessions, instances>>

(* As ConnectFailed, with the lock left held by the exception. *)
ConnectFailedKeepsLock(t) ==
  /\ Raises(t)
  /\ UNCHANGED <<lock, conn>>

(* Building the Cluster raised, or connect() did and the driver shut the   *)
(* Cluster down itself, as it does when no node answers: the with block    *)
(* releases the lock, and nothing is left.                                 *)
ConnectFailed(t) ==
  /\ Raises(t)
  /\ lock' = Free
  /\ UNCHANGED conn

(* connect() raised later, when the session could not be made of a Cluster *)
(* that is up: the Cluster stays open, and is in no table.                 *)
ConnectLeaks(t) ==
  /\ Raises(t)
  /\ lock' = Free
  /\ \E c \in Conn :
       /\ Fresh(c)
       /\ conn' = [conn EXCEPT ![c] = [name |-> call[t].name, cfg |-> call[t].cfg,
                                       session |-> "unused", cluster |-> "open"]]

(* The caller is done with the session it was handed. *)
Release(t) ==
  /\ call[t].op = "using"
  /\ call' = [call EXCEPT ![t] = Idle]
  /\ UNCHANGED <<sessions, instances, lock, conn>>

-------------------------------------------------------------------------------
(* A thread enters shutdown(name). *)
CallShutdown(t, n) ==
  /\ call[t].op = "idle"
  /\ call' = [call EXCEPT ![t] = [Idle EXCEPT !.op = "shutdown", !.name = n]]
  /\ UNCHANGED <<sessions, instances, lock, conn>>

(* As PopEntries, taking the key of the entry for its value. *)
PopEntriesKey(t) ==
  LET n == call[t].name IN
  /\ call[t].op = "shutdown"
  /\ lock = Free
  /\ call' = [call EXCEPT ![t].op = "closeSession", ![t].session = n, ![t].cluster = n]
  /\ sessions' = [sessions EXCEPT ![n] = NoConn]
  /\ instances' = [instances EXCEPT ![n] = NoConn]
  /\ UNCHANGED <<lock, conn>>

(* Under the lock, both entries are popped; then the lock is released and  *)
(* the objects are closed outside it.                                      *)
PopEntries(t) ==
  LET n == call[t].name IN
  /\ call[t].op = "shutdown"
  /\ lock = Free
  /\ call' = [call EXCEPT ![t].op = "closeSession",
                          ![t].session = sessions[n], ![t].cluster = instances[n]]
  /\ sessions' = [sessions EXCEPT ![n] = NoConn]
  /\ instances' = [instances EXCEPT ![n] = NoConn]
  /\ UNCHANGED <<lock, conn>>

(* session.shutdown(), if there was one; an exception is only logged. *)
CloseSession(t) ==
  /\ call[t].op = "closeSession"
  /\ \E outcome \in {"closed", "failed"} :
       conn' = [c \in Conn |-> IF c = call[t].session
                               THEN [conn[c] EXCEPT !.session = outcome] ELSE conn[c]]
  /\ call' = [call EXCEPT ![t].op = "closeCluster"]
  /\ UNCHANGED <<sessions, instances, lock>>

(* As CloseCluster, giving up when closing the session failed. *)
CloseClusterUnlessFailed(t) ==
  /\ call[t].op = "closeCluster"
  /\ \E outcome \in {"closed", "failed"} :
       conn' = [c \in Conn |-> IF c = call[t].cluster /\ conn[c].session = "closed"
                               THEN [conn[c] EXCEPT !.cluster = outcome] ELSE conn[c]]
  /\ call' = [call EXCEPT ![t] = Idle]
  /\ UNCHANGED <<sessions, instances, lock>>

(* cluster.shutdown(), whatever became of the session; shutdown returns. *)
CloseCluster(t) ==
  /\ call[t].op = "closeCluster"
  /\ \E outcome \in {"closed", "failed"} :
       conn' = [c \in Conn |-> IF c = call[t].cluster
                               THEN [conn[c] EXCEPT !.cluster = outcome] ELSE conn[c]]
  /\ call' = [call EXCEPT ![t] = Idle]
  /\ UNCHANGED <<sessions, instances, lock>>

(* The connections a table lists. *)
Listed(table) == {table[n] : n \in Name} \cap Conn

(* As ShutdownAll, forgetting to clear the sessions. *)
ShutdownAllKeepsSessions ==
  /\ lock = Free
  /\ \E failing \in SUBSET Listed(sessions) :
       conn' = [c \in Conn |->
         [conn[c] EXCEPT
            !.session = IF c \notin Listed(sessions) THEN @
                        ELSE IF c \in failing THEN "failed" ELSE "closed",
            !.cluster = IF c \notin Listed(instances) THEN @ ELSE "closed"]]
  /\ instances' = [n \in Name |-> NoConn]
  /\ UNCHANGED <<sessions, lock, call>>

(* shutdown_all: holding the lock throughout, close every session, then    *)
(* every cluster (an exception is only logged), and empty both tables.     *)
ShutdownAll ==
  /\ lock = Free
  /\ \E failing \in SUBSET Listed(sessions), failingCluster \in SUBSET Listed(instances) :
       conn' = [c \in Conn |->
         [conn[c] EXCEPT
            !.session = IF c \notin Listed(sessions) THEN @
                        ELSE IF c \in failing THEN "failed" ELSE "closed",
            !.cluster = IF c \notin Listed(instances) THEN @
                        ELSE IF c \in failingCluster THEN "failed" ELSE "closed"]]
  /\ sessions' = [n \in Name |-> NoConn]
  /\ instances' = [n \in Name |-> NoConn]
  /\ UNCHANGED <<lock, call>>

-------------------------------------------------------------------------------
(* The steps the manager's own code takes once it has been called. *)
Step(t) == \/ GetStored(t) \/ StartConnect(t)
           \/ Connected(t) \/ ConnectFailed(t) \/ ConnectLeaks(t)
           \/ PopEntries(t) \/ CloseSession(t) \/ CloseCluster(t)

Next ==
  \/ \E t \in Thread : \/ \E n \in Name, cfg \in Config : CallGet(t, n, cfg)
                       \/ \E n \in Name : CallShutdown(t, n)
                       \/ Release(t)
                       \/ Step(t)
  \/ ShutdownAll

Spec == Init /\ [][Next]_vars

(* connect() is bounded by the driver's connect_timeout, so a thread that  *)
(* is connecting goes on; nothing is assumed of who gets a contended lock. *)
Fairness == \A t \in Thread : WF_vars(Connected(t) \/ ConnectFailed(t) \/ ConnectLeaks(t))

FairSpec == Spec /\ Fairness
-------------------------------------------------------------------------------
Stored(c) == \E n \in Name : sessions[n] = c
StoredCluster(c) == \E n \in Name : instances[n] = c
ClosingSession(t, c) == call[t].op = "closeSession" /\ call[t].session = c
ClosingCluster(t, c) == call[t].op \in {"closeSession", "closeCluster"} /\ call[t].cluster = c

(* Only the thread that holds the lock is connecting, and a held lock      *)
(* always has such a thread: no exit of get_session leaves it locked.      *)
LockHeldWhileConnecting == \A t \in Thread : lock = t <=> call[t].op = "connect"

(* What get_session would return is usable: a stored session and its       *)
(* cluster object are open, belong together and were made for that name.   *)
StoredIsOpen ==
  \A n \in Name : LET c == sessions[n] IN
    /\ instances[n] = c
    /\ c # NoConn => conn[c].session = "open" /\ conn[c].cluster = "open" /\ conn[c].name = n

(* The Cluster of a connect that raised: its session was never opened. *)
Leaked(c) == conn[c].session = "unused" /\ conn[c].cluster = "open"

(* No session is lost, and no cluster object but that of a failed connect: *)
(* what is open is either in its table, where shutdown and shutdown_all    *)
(* will find it, or in the hands of a shutdown that is about to close it.  *)
OrphansOnlyFromFailedConnect ==
  \A c \in Conn :
    /\ conn[c].session = "open" => Stored(c) \/ \E t \in Thread : ClosingSession(t, c)
    /\ conn[c].cluster = "open" =>
         Leaked(c) \/ StoredCluster(c) \/ \E t \in Thread : ClosingCluster(t, c)

(* A popped connection has one closer, and nobody can be handed it again. *)
PoppedOnce ==
  \A t \in Thread, c \in Conn :
    ClosingCluster(t, c) =>
      /\ ~Stored(c) /\ ~StoredCluster(c)
      /\ \A u \in Thread \ {t} : ~ClosingCluster(u, c)

(* The lock is always released again: a connect that hangs on an           *)
(* unreachable cluster delays the users of every other one only so long.   *)
LockReleased == lock # Free ~> lock = Free

-------------------------------------------------------------------------------
(* The abstract view: a connection is retired while its cluster object is  *)
(* in the hands of a shutdown; a connect that raised made none.            *)
Life(c) == IF conn[c].session = "unused" THEN "unused"
           ELSE IF Stored(c) THEN "live"
           ELSE IF \E t \in Thread : ClosingCluster(t, c) THEN "retired"
           ELSE "closed"

Abstract == INSTANCE SharedConnections
              WITH live <- sessions,
                   life <- [c \in Conn |-> Life(c)],
                   held <- [t \in Thread |-> IF call[t].op = "using"
                                             THEN call[t].session ELSE NoConn]

(* The manager implements the abstract pool of shared connections. *)
ImplementsSharedConnections == Abstract!Spec
===============================================================================
