-------------------------- MODULE SessionManagerProofs --------------------------
(***************************************************************************)
(* Theorems about SessionManager, for any number of clusters, connections  *)
(* and calling threads: its safety properties, from one inductive          *)
(* invariant, and that it implements SharedConnections.                    *)
(***************************************************************************)
EXTENDS SessionManager, TLAPS

(* A thread inside the manager was called for a cluster, and one that is   *)
(* using a session has one.                                                *)
CallsAreNamed ==
  \A t \in Thread :
    /\ call[t].op # "idle" => call[t].name \in Name
    /\ call[t].op \in {"get", "connect", "using"} => call[t].cfg \in Config
    /\ call[t].op = "using" => call[t].session \in Conn

(* A shutdown holds both objects of one connection, which was made. *)
ClosingBoth ==
  \A t \in Thread :
    /\ call[t].op = "closeSession" => call[t].session = call[t].cluster
    /\ \A c \in Conn : ClosingCluster(t, c) => conn[c].session # "unused"

(* A thread that is connecting saw no session of its cluster, and there    *)
(* still is none: it has held the lock since.                              *)
ConnectingUnstored ==
  \A t \in Thread : call[t].op = "connect" => sessions[call[t].name] = NoConn

IInv == /\ TypeOK /\ LockHeldWhileConnecting /\ StoredIsOpen /\ OrphansOnlyFromFailedConnect
        /\ PoppedOnce /\ CallsAreNamed /\ ClosingBoth /\ ConnectingUnstored

-------------------------------------------------------------------------------
LEMMA InitInvariant == Init => IInv
<1> SUFFICES ASSUME Init PROVE IInv
  OBVIOUS
<1> USE FreeAssumption, NullAssumption DEF Init, Idle
<1>1. TypeOK
  BY DEF TypeOK, ConnRecord, CallRecord, Status, Op
<1>2. LockHeldWhileConnecting /\ StoredIsOpen /\ OrphansOnlyFromFailedConnect
  BY DEF LockHeldWhileConnecting, StoredIsOpen, OrphansOnlyFromFailedConnect
<1>3. PoppedOnce /\ CallsAreNamed /\ ClosingBoth /\ ConnectingUnstored
  BY DEF ConnectingUnstored, PoppedOnce, ClosingCluster, CallsAreNamed, ClosingBoth
<1> QED
  BY <1>1, <1>2, <1>3 DEF IInv

(* A stored connection belongs to one name only, and is not being closed. *)
LEMMA StoredApart ==
  ASSUME IInv
  PROVE  /\ \A n, m \in Name : sessions[n] # NoConn /\ sessions[n] = sessions[m] => n = m
         /\ \A n \in Name, t \in Thread : sessions[n] # NoConn => ~ClosingCluster(t, sessions[n])
         /\ instances = sessions
<1>1. \A n \in Name : sessions[n] \in Conn \cup {NoConn} /\ instances[n] = sessions[n]
  BY DEF IInv, TypeOK, StoredIsOpen
<1>2. ASSUME NEW n \in Name, NEW m \in Name, sessions[n] # NoConn, sessions[n] = sessions[m]
      PROVE  n = m
  <2>1. conn[sessions[n]].name = n
    BY <1>2 DEF IInv, StoredIsOpen
  <2>2. conn[sessions[m]].name = m
    BY <1>2 DEF IInv, StoredIsOpen
  <2> QED
    BY <1>2, <2>1, <2>2
<1>3. \A n \in Name, t \in Thread : sessions[n] # NoConn => ~ClosingCluster(t, sessions[n])
  BY <1>1 DEF IInv, PoppedOnce, Stored
<1> QED
  BY <1>1, <1>2, <1>3 DEF IInv, TypeOK

(* Steps that only move one thread's call, to or from an operation that    *)
(* closes nothing, and the lock with it.                                   *)
LEMMA CallMoves ==
  ASSUME IInv, NEW t \in Thread, NEW record \in CallRecord,
         call' = [call EXCEPT ![t] = record],
         UNCHANGED <<sessions, instances, conn>>,
         call[t].op \notin {"closeSession", "closeCluster"},
         record.op \notin {"closeSession", "closeCluster"},
         record.op # "idle" => record.name \in Name,
         record.op \in {"get", "connect", "using"} => record.cfg \in Config,
         record.op = "using" => record.session \in Conn,
         record.op = "connect" => sessions[record.name] = NoConn,
         lock' \in Thread \cup {Free}, LockHeldWhileConnecting'
  PROVE  IInv'
<1>1. call' \in [Thread -> CallRecord] /\ \A u \in Thread : call'[u] = IF u = t THEN record ELSE call[u]
  BY DEF IInv, TypeOK
<1>2. TypeOK'
  BY <1>1 DEF IInv, TypeOK
<1>3. \A u \in Thread, c \in Conn : /\ ClosingSession(u, c)' <=> ClosingSession(u, c)
                                    /\ ClosingCluster(u, c)' <=> ClosingCluster(u, c)
  BY <1>1 DEF ClosingSession, ClosingCluster
<1>4. \A c \in Conn : (Stored(c)' <=> Stored(c)) /\ (StoredCluster(c)' <=> StoredCluster(c))
  BY DEF Stored, StoredCluster
<1>5. StoredIsOpen' /\ OrphansOnlyFromFailedConnect' /\ PoppedOnce'
  BY <1>3, <1>4 DEF IInv, StoredIsOpen, OrphansOnlyFromFailedConnect, PoppedOnce, Leaked
<1>6. CallsAreNamed' /\ ConnectingUnstored'
  BY <1>1 DEF IInv, CallsAreNamed, ConnectingUnstored
<1>7. ClosingBoth'
  BY <1>1, <1>3 DEF IInv, ClosingBoth
<1> QED
  BY <1>2, <1>5, <1>6, <1>7 DEF IInv

LEMMA IdleIsACall == /\ Idle \in CallRecord
                     /\ Idle.op = "idle" /\ Idle.session = NoConn /\ Idle.cluster = NoConn
  BY DEF Idle, CallRecord, Op

(* The steps that change no table and no connection. *)
LEMMA CallSteps ==
  ASSUME IInv, NEW t \in Thread,
         \/ \E n \in Name, cfg \in Config : CallGet(t, n, cfg)
         \/ \E n \in Name : CallShutdown(t, n)
         \/ GetStored(t) \/ StartConnect(t) \/ ConnectFailed(t) \/ Release(t)
  PROVE  IInv'
<1> USE IdleIsACall, FreeAssumption
<1>0. call[t] \in CallRecord /\ call \in [Thread -> CallRecord] /\ lock \in Thread \cup {Free}
  BY DEF IInv, TypeOK
<1>1. ASSUME NEW n \in Name, NEW cfg \in Config, CallGet(t, n, cfg) PROVE IInv'
  <2> DEFINE record == [Idle EXCEPT !.op = "get", !.name = n, !.cfg = cfg]
  <2>1. record \in CallRecord /\ record.op = "get" /\ record.name = n /\ record.cfg = cfg
    BY DEF Idle, CallRecord, Op
  <2>2. /\ call' = [call EXCEPT ![t] = record] /\ UNCHANGED <<sessions, instances, lock, conn>>
        /\ call[t].op = "idle"
    BY <1>1 DEF CallGet
  <2>3. LockHeldWhileConnecting'
    BY <1>0, <2>1, <2>2 DEF IInv, LockHeldWhileConnecting
  <2> HIDE DEF record
  <2> QED
    BY <1>0, <2>1, <2>2, <2>3, CallMoves
<1>2. ASSUME NEW n \in Name, CallShutdown(t, n) PROVE IInv'
  <2> DEFINE record == [Idle EXCEPT !.op = "shutdown", !.name = n]
  <2>1. record \in CallRecord /\ record.op = "shutdown" /\ record.name = n
    BY DEF Idle, CallRecord, Op
  <2>2. /\ call' = [call EXCEPT ![t] = record] /\ UNCHANGED <<sessions, instances, lock, conn>>
        /\ call[t].op = "idle"
    BY <1>2 DEF CallShutdown
  <2>3. LockHeldWhileConnecting'
    BY <1>0, <2>1, <2>2 DEF IInv, LockHeldWhileConnecting
  <2> HIDE DEF record
  <2> QED
    BY <1>0, <2>1, <2>2, <2>3, CallMoves
<1>3. CASE GetStored(t)
  <2> DEFINE record == [call[t] EXCEPT !.op = "using", !.session = sessions[call[t].name]]
  <2>1. call[t].op = "get" /\ call[t].name \in Name /\ call[t].cfg \in Config
    BY <1>3 DEF GetStored, IInv, CallsAreNamed
  <2>2. sessions[call[t].name] \in Conn
    BY <1>3, <2>1 DEF GetStored, IInv, TypeOK
  <2>3. /\ record \in CallRecord /\ record.op = "using" /\ record.name = call[t].name
        /\ record.cfg = call[t].cfg /\ record.session \in Conn
    BY <1>0, <2>2 DEF CallRecord, Op
  <2>4. call' = [call EXCEPT ![t] = record] /\ UNCHANGED <<sessions, instances, lock, conn>>
    BY <1>3 DEF GetStored
  <2>5. LockHeldWhileConnecting'
    BY <1>0, <2>1, <2>3, <2>4 DEF IInv, LockHeldWhileConnecting
  <2> HIDE DEF record
  <2> QED
    BY <1>0, <2>1, <2>3, <2>4, <2>5, CallMoves
<1>4. CASE StartConnect(t)
  <2> DEFINE record == [call[t] EXCEPT !.op = "connect"]
  <2>1. call[t].op = "get" /\ call[t].name \in Name /\ call[t].cfg \in Config
    BY <1>4 DEF StartConnect, IInv, CallsAreNamed
  <2>2. /\ record \in CallRecord /\ record.op = "connect" /\ record.name = call[t].name
        /\ record.cfg = call[t].cfg
    BY <1>0 DEF CallRecord, Op
  <2>3. /\ call' = [call EXCEPT ![t] = record] /\ lock = Free /\ lock' = t
        /\ UNCHANGED <<sessions, instances, conn>> /\ sessions[call[t].name] = NoConn
    BY <1>4 DEF StartConnect
  <2>4. LockHeldWhileConnecting'
    BY <1>0, <2>1, <2>2, <2>3 DEF IInv, LockHeldWhileConnecting
  <2> HIDE DEF record
  <2> QED
    BY <1>0, <2>1, <2>2, <2>3, <2>4, CallMoves
<1>5. CASE ConnectFailed(t) \/ Release(t)
  <2>1. /\ call' = [call EXCEPT ![t] = Idle] /\ UNCHANGED <<sessions, instances, conn>>
        /\ call[t].op \in {"connect", "using"}
        /\ lock' \in Thread \cup {Free}
    BY <1>0, <1>5 DEF ConnectFailed, Raises, Release
  <2>2. LockHeldWhileConnecting'
    BY <1>0, <1>5 DEF ConnectFailed, Raises, Release, IInv, LockHeldWhileConnecting
  <2> QED
    BY <2>1, <2>2, CallMoves
<1> QED
  BY <1>1, <1>2, <1>3, <1>4, <1>5

(* connect() raised and left its Cluster open: nobody ever sees it. *)
LEMMA ConnectLeaksStep ==
  ASSUME IInv, NEW t \in Thread, ConnectLeaks(t)
  PROVE  IInv'
<1> USE FreeAssumption, NullAssumption, IdleIsACall
<1>0. call \in [Thread -> CallRecord] /\ conn \in [Conn -> ConnRecord]
  BY DEF IInv, TypeOK
<1>1. /\ call[t].op = "connect" /\ call' = [call EXCEPT ![t] = Idle] /\ lock' = Free
      /\ UNCHANGED <<sessions, instances>> /\ call[t].name \in Name /\ call[t].cfg \in Config
  BY DEF ConnectLeaks, Raises, IInv, CallsAreNamed
<1>2. PICK c \in Conn :
        /\ conn[c].session = "unused"
        /\ conn' = [conn EXCEPT ![c] = [name |-> call[t].name, cfg |-> call[t].cfg,
                                        session |-> "unused", cluster |-> "open"]]
  BY DEF ConnectLeaks, Fresh
<1>3. /\ conn' \in [Conn -> ConnRecord] /\ conn'[c].session = "unused"
      /\ \A d \in Conn \ {c} : conn'[d] = conn[d]
  BY <1>0, <1>1, <1>2 DEF ConnRecord, Status
<1>4. /\ call' \in [Thread -> CallRecord] /\ call'[t] = Idle
      /\ \A u \in Thread \ {t} : call'[u] = call[u]
  BY <1>0, <1>1
<1>5. TypeOK' /\ LockHeldWhileConnecting'
  BY <1>1, <1>3, <1>4 DEF IInv, TypeOK, LockHeldWhileConnecting
<1>6. \A u \in Thread, d \in Conn : /\ ClosingSession(u, d)' <=> ClosingSession(u, d)
                                    /\ ClosingCluster(u, d)' <=> ClosingCluster(u, d)
  BY <1>1, <1>4 DEF ClosingSession, ClosingCluster
<1>7. \A d \in Conn : (Stored(d)' <=> Stored(d)) /\ (StoredCluster(d)' <=> StoredCluster(d))
  BY <1>1 DEF Stored, StoredCluster
<1>8. \A n \in Name : sessions[n] # c
  BY <1>2 DEF IInv, StoredIsOpen
<1>9. StoredIsOpen'
  BY <1>1, <1>3, <1>8 DEF IInv, TypeOK, StoredIsOpen
<1>10. OrphansOnlyFromFailedConnect'
  <2>1. \A d \in Conn \ {c} : Leaked(d)' <=> Leaked(d)
    BY <1>3 DEF Leaked
  <2>2. conn'[c].cluster = "open" => Leaked(c)'
    BY <1>3 DEF Leaked
  <2> QED
    BY <1>3, <1>6, <1>7, <2>1, <2>2 DEF IInv, OrphansOnlyFromFailedConnect
<1>11. PoppedOnce'
  BY <1>6, <1>7 DEF IInv, PoppedOnce
<1>12. CallsAreNamed' /\ ConnectingUnstored'
  BY <1>1, <1>4 DEF IInv, CallsAreNamed, ConnectingUnstored
<1>13. ClosingBoth'
  <2>1. \A u \in Thread : ~ClosingCluster(u, c)
    BY <1>2 DEF IInv, ClosingBoth
  <2> QED
    BY <1>3, <1>4, <1>6, <2>1 DEF IInv, ClosingBoth
<1> QED
  BY <1>5, <1>9, <1>10, <1>11, <1>12, <1>13 DEF IInv

(* connect() succeeded: the new connection displaces none. *)
LEMMA ConnectedStep ==
  ASSUME IInv, NEW t \in Thread, Connected(t)
  PROVE  IInv'
<1> USE FreeAssumption, NullAssumption
<1> DEFINE n == call[t].name
<1>0. /\ call \in [Thread -> CallRecord] /\ conn \in [Conn -> ConnRecord]
      /\ sessions \in [Name -> Conn \cup {NoConn}] /\ instances = sessions
  BY StoredApart DEF IInv, TypeOK
<1>1. PICK c \in Conn :
        /\ call[t].op = "connect" /\ Fresh(c) /\ conn[c].session = "unused"
        /\ conn' = [conn EXCEPT ![c] = [name |-> n, cfg |-> call[t].cfg,
                                        session |-> "open", cluster |-> "open"]]
        /\ instances' = [instances EXCEPT ![n] = c] /\ sessions' = [sessions EXCEPT ![n] = c]
        /\ lock' = Free
        /\ call' = [call EXCEPT ![t].op = "using", ![t].session = c]
  BY DEF Connected, Fresh
<1>2. /\ n \in Name /\ call[t].cfg \in Config /\ sessions[n] = NoConn
      /\ lock = t /\ \A u \in Thread : call[u].op = "connect" => u = t
  BY <1>1 DEF IInv, CallsAreNamed, ConnectingUnstored, LockHeldWhileConnecting
<1>3. /\ call' \in [Thread -> CallRecord]
      /\ call'[t].op = "using" /\ call'[t].session = c /\ call'[t].name = n
      /\ call'[t].cfg = call[t].cfg
      /\ \A u \in Thread \ {t} : call'[u] = call[u]
  BY <1>0, <1>1 DEF CallRecord, Op
<1>4. /\ conn' \in [Conn -> ConnRecord]
      /\ conn'[c].name = n /\ conn'[c].session = "open" /\ conn'[c].cluster = "open"
      /\ \A d \in Conn \ {c} : conn'[d] = conn[d]
  BY <1>0, <1>1, <1>2 DEF ConnRecord, Status
<1>5. /\ sessions' \in [Name -> Conn \cup {NoConn}] /\ instances' = sessions'
      /\ sessions'[n] = c /\ \A m \in Name \ {n} : sessions'[m] = sessions[m]
  BY <1>0, <1>1, <1>2
<1>6. TypeOK'
  BY <1>1, <1>3, <1>4, <1>5 DEF TypeOK
<1>7. \A m \in Name : sessions[m] # c
  BY <1>1 DEF IInv, StoredIsOpen
<1>8. \A u \in Thread, d \in Conn : /\ ClosingSession(u, d)' <=> ClosingSession(u, d)
                                    /\ ClosingCluster(u, d)' <=> ClosingCluster(u, d)
  BY <1>1, <1>3 DEF ClosingSession, ClosingCluster
<1>9. \A u \in Thread : ~ClosingCluster(u, c)
  BY <1>1 DEF IInv, ClosingBoth
<1>10. LockHeldWhileConnecting'
  BY <1>1, <1>2, <1>3 DEF LockHeldWhileConnecting
<1>11. StoredIsOpen'
  BY <1>4, <1>5, <1>7 DEF IInv, StoredIsOpen
<1>12. \A d \in Conn \ {c} : (Stored(d)' <=> Stored(d)) /\ (StoredCluster(d)' <=> StoredCluster(d))
  BY <1>0, <1>2, <1>5 DEF Stored, StoredCluster
<1>13. Stored(c)' /\ StoredCluster(c)'
  BY <1>2, <1>5 DEF Stored, StoredCluster
<1>14. OrphansOnlyFromFailedConnect'
  <2>1. ASSUME NEW d \in Conn, conn'[d].session = "open"
        PROVE  Stored(d)' \/ \E u \in Thread : ClosingSession(u, d)'
    BY <1>4, <1>8, <1>12, <1>13, <2>1 DEF IInv, OrphansOnlyFromFailedConnect
  <2>2. ASSUME NEW d \in Conn, conn'[d].cluster = "open", ~Leaked(d)'
        PROVE  StoredCluster(d)' \/ \E u \in Thread : ClosingCluster(u, d)'
    BY <1>4, <1>8, <1>12, <1>13, <2>2 DEF IInv, OrphansOnlyFromFailedConnect, Leaked
  <2> QED
    BY <2>1, <2>2 DEF OrphansOnlyFromFailedConnect
<1>15. PoppedOnce'
  BY <1>8, <1>9, <1>12 DEF IInv, PoppedOnce
<1>16. CallsAreNamed' /\ ConnectingUnstored'
  BY <1>2, <1>3 DEF IInv, CallsAreNamed, ConnectingUnstored
<1>17. ClosingBoth'
  BY <1>3, <1>4, <1>8, <1>9 DEF IInv, ClosingBoth
<1> QED
  BY <1>6, <1>10, <1>11, <1>14, <1>15, <1>16, <1>17 DEF IInv

(* shutdown pops the entries: what was stored is now in its hands. *)
LEMMA PopStep ==
  ASSUME IInv, NEW t \in Thread, PopEntries(t)
  PROVE  IInv'
<1> USE FreeAssumption, NullAssumption
<1> DEFINE n == call[t].name
<1>0. /\ call \in [Thread -> CallRecord] /\ conn \in [Conn -> ConnRecord]
      /\ sessions \in [Name -> Conn \cup {NoConn}] /\ instances = sessions
  BY StoredApart DEF IInv, TypeOK
<1>1. /\ call[t].op = "shutdown" /\ n \in Name /\ UNCHANGED <<lock, conn>>
      /\ call' = [call EXCEPT ![t].op = "closeSession",
                              ![t].session = sessions[n], ![t].cluster = instances[n]]
      /\ sessions' = [sessions EXCEPT ![n] = NoConn]
      /\ instances' = [instances EXCEPT ![n] = NoConn]
  BY DEF PopEntries, IInv, CallsAreNamed
<1>2. /\ call' \in [Thread -> CallRecord]
      /\ call'[t].op = "closeSession" /\ call'[t].name = n
      /\ call'[t].session = sessions[n] /\ call'[t].cluster = sessions[n]
      /\ \A u \in Thread \ {t} : call'[u] = call[u]
  <2>1. sessions[n] \in Conn \cup {NoConn} /\ instances[n] = sessions[n] /\ call[t] \in CallRecord
    BY <1>0, <1>1
  <2> DEFINE record == [call[t] EXCEPT !.op = "closeSession", !.session = sessions[n],
                                       !.cluster = instances[n]]
  <2>2. /\ record \in CallRecord /\ record.op = "closeSession" /\ record.name = n
        /\ record.session = sessions[n] /\ record.cluster = sessions[n]
    BY <2>1 DEF CallRecord, Op
  <2>3. call' = [call EXCEPT ![t] = record]
    BY <1>1
  <2> HIDE DEF record
  <2> QED
    BY <1>0, <2>2, <2>3
<1>3. /\ sessions' \in [Name -> Conn \cup {NoConn}] /\ instances' = sessions'
      /\ sessions'[n] = NoConn /\ \A m \in Name \ {n} : sessions'[m] = sessions[m]
  BY <1>0, <1>1
<1>4. TypeOK' /\ LockHeldWhileConnecting'
  BY <1>1, <1>2, <1>3 DEF IInv, TypeOK, LockHeldWhileConnecting
<1>5. StoredIsOpen'
  BY <1>1, <1>3 DEF IInv, StoredIsOpen
<1>6. \A u \in Thread \ {t}, d \in Conn : /\ ClosingSession(u, d)' <=> ClosingSession(u, d)
                                          /\ ClosingCluster(u, d)' <=> ClosingCluster(u, d)
  BY <1>2 DEF ClosingSession, ClosingCluster
<1>7. \A d \in Conn : /\ ClosingSession(t, d)' <=> sessions[n] = d
                      /\ ClosingCluster(t, d)' <=> sessions[n] = d
                      /\ ~ClosingSession(t, d) /\ ~ClosingCluster(t, d)
  BY <1>1, <1>2 DEF ClosingSession, ClosingCluster
<1>8. \A d \in Conn : /\ Stored(d) => Stored(d)' \/ sessions[n] = d
                      /\ StoredCluster(d) => StoredCluster(d)' \/ sessions[n] = d
                      /\ Stored(d)' => Stored(d) /\ sessions[n] # d
                      /\ StoredCluster(d)' => StoredCluster(d) /\ sessions[n] # d
  BY <1>0, <1>1, <1>3, StoredApart DEF Stored, StoredCluster
<1>9. OrphansOnlyFromFailedConnect'
  BY <1>1, <1>6, <1>7, <1>8 DEF IInv, OrphansOnlyFromFailedConnect, Leaked
<1>10. PoppedOnce'
  <2>1. \A u \in Thread : sessions[n] # NoConn => ~ClosingCluster(u, sessions[n])
    BY <1>1, StoredApart
  <2> QED
    BY <1>6, <1>7, <1>8, <2>1 DEF IInv, PoppedOnce
<1>11. CallsAreNamed'
  BY <1>1, <1>2 DEF IInv, CallsAreNamed
<1>12. ConnectingUnstored'
  BY <1>2, <1>3 DEF IInv, ConnectingUnstored, CallsAreNamed
<1>13. ClosingBoth'
  <2>1. \A d \in Conn : sessions[n] = d => conn[d].session # "unused"
    BY <1>1 DEF IInv, StoredIsOpen
  <2> QED
    BY <1>1, <1>2, <1>6, <1>7, <2>1 DEF IInv, ClosingBoth
<1> QED
  BY <1>4, <1>5, <1>9, <1>10, <1>11, <1>12, <1>13 DEF IInv

(* session.shutdown(), on a connection nobody can be handed any more. *)
LEMMA CloseSessionStep ==
  ASSUME IInv, NEW t \in Thread, CloseSession(t)
  PROVE  IInv'
<1> USE FreeAssumption, NullAssumption
<1>0. call \in [Thread -> CallRecord] /\ conn \in [Conn -> ConnRecord] /\ instances = sessions
  BY StoredApart DEF IInv, TypeOK
<1>1. PICK outcome \in {"closed", "failed"} :
        conn' = [c \in Conn |-> IF c = call[t].session
                                THEN [conn[c] EXCEPT !.session = outcome] ELSE conn[c]]
  BY DEF CloseSession
<1>2. /\ call[t].op = "closeSession" /\ call[t].session = call[t].cluster
      /\ call' = [call EXCEPT ![t].op = "closeCluster"]
      /\ UNCHANGED <<sessions, instances, lock>>
  BY DEF CloseSession, IInv, ClosingBoth
<1>3. /\ call' \in [Thread -> CallRecord]
      /\ call'[t] = [call[t] EXCEPT !.op = "closeCluster"]
      /\ \A u \in Thread \ {t} : call'[u] = call[u]
  BY <1>0, <1>2 DEF CallRecord, Op
<1>4. /\ conn' \in [Conn -> ConnRecord]
      /\ \A c \in Conn : /\ conn'[c].name = conn[c].name /\ conn'[c].cluster = conn[c].cluster
                         /\ c # call[t].session => conn'[c].session = conn[c].session
                         /\ c = call[t].session => conn'[c].session = outcome
  BY <1>0, <1>1 DEF ConnRecord, Status
<1>5. TypeOK' /\ LockHeldWhileConnecting'
  BY <1>0, <1>2, <1>3, <1>4 DEF IInv, TypeOK, LockHeldWhileConnecting, CallRecord
<1>6. \A u \in Thread, c \in Conn : ClosingCluster(u, c)' <=> ClosingCluster(u, c)
  BY <1>0, <1>2, <1>3 DEF ClosingCluster, CallRecord
<1>7. \A c \in Conn : (Stored(c)' <=> Stored(c)) /\ (StoredCluster(c)' <=> StoredCluster(c))
  BY <1>2 DEF Stored, StoredCluster
<1>8. \A n \in Name : sessions[n] # NoConn => sessions[n] \in Conn /\ sessions[n] # call[t].session
  BY <1>2, StoredApart DEF ClosingCluster, IInv, TypeOK
<1>9. StoredIsOpen'
  BY <1>2, <1>4, <1>8 DEF IInv, StoredIsOpen
<1>10. OrphansOnlyFromFailedConnect'
  <2>1. ASSUME NEW c \in Conn, conn'[c].session = "open"
        PROVE  Stored(c)' \/ \E u \in Thread : ClosingSession(u, c)'
    <3>1. c # call[t].session /\ conn[c].session = "open"
      BY <1>4, <2>1
    <3>2. \A u \in Thread : ClosingSession(u, c) => ClosingSession(u, c)'
      BY <1>3, <3>1 DEF ClosingSession
    <3> QED
      BY <1>7, <3>1, <3>2 DEF IInv, OrphansOnlyFromFailedConnect
  <2>2. ASSUME NEW c \in Conn, conn'[c].cluster = "open", ~Leaked(c)'
        PROVE  StoredCluster(c)' \/ \E u \in Thread : ClosingCluster(u, c)'
    <3>1. CASE c = call[t].session
      BY <1>2, <1>6, <3>1 DEF ClosingCluster
    <3>2. CASE c # call[t].session
      BY <1>4, <1>6, <1>7, <2>2, <3>2 DEF IInv, OrphansOnlyFromFailedConnect, Leaked
    <3> QED
      BY <3>1, <3>2
  <2> QED
    BY <2>1, <2>2 DEF OrphansOnlyFromFailedConnect
<1>11. PoppedOnce'
  BY <1>6, <1>7 DEF IInv, PoppedOnce
<1>12. CallsAreNamed' /\ ConnectingUnstored'
  BY <1>0, <1>2, <1>3 DEF IInv, CallsAreNamed, ConnectingUnstored, CallRecord
<1>13. \A c \in Conn : c = call[t].session => conn[c].session # "unused"
  BY <1>2 DEF IInv, ClosingBoth, ClosingCluster
<1>14. ClosingBoth'
  <2>1. \A u \in Thread : call'[u].op = "closeSession" => call'[u].session = call'[u].cluster
    BY <1>0, <1>3 DEF IInv, ClosingBoth, CallRecord
  <2>2. \A u \in Thread, c \in Conn : ClosingCluster(u, c)' => conn'[c].session # "unused"
    BY <1>4, <1>6, <1>13 DEF IInv, ClosingBoth
  <2> QED
    BY <2>1, <2>2 DEF ClosingBoth
<1> QED
  BY <1>5, <1>9, <1>10, <1>11, <1>12, <1>14 DEF IInv

(* cluster.shutdown(), and the end of shutdown. *)
LEMMA CloseClusterStep ==
  ASSUME IInv, NEW t \in Thread, CloseCluster(t)
  PROVE  IInv'
<1> USE FreeAssumption, NullAssumption, IdleIsACall
<1>0. call \in [Thread -> CallRecord] /\ conn \in [Conn -> ConnRecord] /\ instances = sessions
  BY StoredApart DEF IInv, TypeOK
<1>1. PICK outcome \in {"closed", "failed"} :
        conn' = [c \in Conn |-> IF c = call[t].cluster
                                THEN [conn[c] EXCEPT !.cluster = outcome] ELSE conn[c]]
  BY DEF CloseCluster
<1>2. /\ call[t].op = "closeCluster" /\ call' = [call EXCEPT ![t] = Idle]
      /\ UNCHANGED <<sessions, instances, lock>>
  BY DEF CloseCluster
<1>3. /\ call' \in [Thread -> CallRecord] /\ call'[t] = Idle
      /\ \A u \in Thread \ {t} : call'[u] = call[u]
  BY <1>0, <1>2
<1>4. /\ conn' \in [Conn -> ConnRecord]
      /\ \A c \in Conn : /\ conn'[c].name = conn[c].name /\ conn'[c].session = conn[c].session
                         /\ c # call[t].cluster => conn'[c].cluster = conn[c].cluster
                         /\ c = call[t].cluster => conn'[c].cluster = outcome
  BY <1>0, <1>1 DEF ConnRecord, Status
<1>5. TypeOK' /\ LockHeldWhileConnecting'
  BY <1>2, <1>3, <1>4 DEF IInv, TypeOK, LockHeldWhileConnecting
<1>6. \A u \in Thread, c \in Conn : /\ ClosingSession(u, c)' <=> ClosingSession(u, c)
                                    /\ ClosingCluster(u, c)' <=> u # t /\ ClosingCluster(u, c)
  BY <1>2, <1>3 DEF ClosingCluster, ClosingSession
<1>7. \A c \in Conn : ClosingCluster(t, c) <=> c = call[t].cluster
  BY <1>2 DEF ClosingCluster
<1>8. \A c \in Conn : (Stored(c)' <=> Stored(c)) /\ (StoredCluster(c)' <=> StoredCluster(c))
  BY <1>2 DEF Stored, StoredCluster
<1>9. StoredIsOpen'
  <2>1. \A n \in Name : sessions[n] # NoConn => sessions[n] \in Conn /\ sessions[n] # call[t].cluster
    BY <1>7, StoredApart DEF IInv, TypeOK
  <2> QED
    BY <1>2, <1>4, <2>1 DEF IInv, StoredIsOpen
<1>10. OrphansOnlyFromFailedConnect'
  <2>1. ASSUME NEW c \in Conn, conn'[c].session = "open"
        PROVE  Stored(c)' \/ \E u \in Thread : ClosingSession(u, c)'
    <3>1. conn[c].session = "open"
      BY <1>4, <2>1
    <3> QED
      BY <1>6, <1>8, <3>1 DEF IInv, OrphansOnlyFromFailedConnect
  <2>2. ASSUME NEW c \in Conn, conn'[c].cluster = "open", ~Leaked(c)'
        PROVE  StoredCluster(c)' \/ \E u \in Thread : ClosingCluster(u, c)'
    <3>1. c # call[t].cluster /\ conn[c].cluster = "open" /\ ~Leaked(c)
      BY <1>4, <2>2 DEF Leaked
    <3>2. StoredCluster(c) \/ \E u \in Thread : ClosingCluster(u, c)
      BY <3>1 DEF IInv, OrphansOnlyFromFailedConnect, Leaked
    <3> QED
      BY <1>6, <1>7, <1>8, <3>1, <3>2
  <2> QED
    BY <2>1, <2>2 DEF OrphansOnlyFromFailedConnect
<1>11. PoppedOnce'
  <2> SUFFICES ASSUME NEW u \in Thread, NEW c \in Conn, ClosingCluster(u, c)'
               PROVE  /\ ~Stored(c)' /\ ~StoredCluster(c)'
                      /\ \A v \in Thread \ {u} : ~ClosingCluster(v, c)'
    BY DEF PoppedOnce
  <2>1. ClosingCluster(u, c)
    BY <1>6
  <2> QED
    BY <1>6, <1>8, <2>1 DEF IInv, PoppedOnce
<1>12. CallsAreNamed' /\ ConnectingUnstored'
  BY <1>2, <1>3 DEF IInv, CallsAreNamed, ConnectingUnstored
<1>13. \A c \in Conn : c = call[t].cluster => conn[c].session # "unused"
  BY <1>7 DEF IInv, ClosingBoth
<1>14. ClosingBoth'
  <2>1. \A u \in Thread : call'[u].op = "closeSession" => call'[u].session = call'[u].cluster
    BY <1>3 DEF IInv, ClosingBoth
  <2>2. \A u \in Thread, c \in Conn : ClosingCluster(u, c)' => conn'[c].session # "unused"
    BY <1>4, <1>6 DEF IInv, ClosingBoth
  <2> QED
    BY <2>1, <2>2 DEF ClosingBoth
<1> QED
  BY <1>5, <1>9, <1>10, <1>11, <1>12, <1>14 DEF IInv

(* What shutdown_all does to the objects of a connection. *)
LEMMA ShutdownAllCloses ==
  ASSUME IInv, ShutdownAll
  PROVE  /\ conn' \in [Conn -> ConnRecord]
         /\ \A c \in Conn :
           /\ conn'[c] \in ConnRecord /\ conn'[c].name = conn[c].name
           /\ ~Stored(c) => conn'[c].session = conn[c].session /\ conn'[c].cluster = conn[c].cluster
           /\ Stored(c) => conn'[c].session \in {"closed", "failed"}
                           /\ conn'[c].cluster \in {"closed", "failed"}
<1>0. call \in [Thread -> CallRecord] /\ conn \in [Conn -> ConnRecord] /\ instances = sessions
  BY StoredApart DEF IInv, TypeOK
<1>1. PICK failing \in SUBSET Listed(sessions), failingCluster \in SUBSET Listed(instances) :
        conn' = [c \in Conn |->
         [conn[c] EXCEPT
            !.session = IF c \notin Listed(sessions) THEN @
                        ELSE IF c \in failing THEN "failed" ELSE "closed",
            !.cluster = IF c \notin Listed(instances) THEN @
                        ELSE IF c \in failingCluster THEN "failed" ELSE "closed"]]
  BY DEF ShutdownAll
<1>2. \A c \in Conn :
        /\ conn'[c] \in ConnRecord /\ conn'[c].name = conn[c].name
        /\ ~Stored(c) => conn'[c].session = conn[c].session /\ conn'[c].cluster = conn[c].cluster
        /\ Stored(c) => conn'[c].session \in {"closed", "failed"}
                        /\ conn'[c].cluster \in {"closed", "failed"}
  <2> SUFFICES ASSUME NEW c \in Conn
               PROVE  /\ conn'[c] \in ConnRecord /\ conn'[c].name = conn[c].name
                      /\ ~Stored(c) => /\ conn'[c].session = conn[c].session
                                       /\ conn'[c].cluster = conn[c].cluster
                      /\ Stored(c) => /\ conn'[c].session \in {"closed", "failed"}
                                      /\ conn'[c].cluster \in {"closed", "failed"}
    OBVIOUS
  <2> DEFINE session == IF c \notin Listed(sessions) THEN conn[c].session
                        ELSE IF c \in failing THEN "failed" ELSE "closed"
             cluster == IF c \notin Listed(instances) THEN conn[c].cluster
                        ELSE IF c \in failingCluster THEN "failed" ELSE "closed"
  <2>1. conn'[c] = [conn[c] EXCEPT !.session = session, !.cluster = cluster]
    BY <1>1
  <2>2. /\ ~Stored(c) => session = conn[c].session /\ cluster = conn[c].cluster
        /\ Stored(c) => session \in {"closed", "failed"} /\ cluster \in {"closed", "failed"}
    BY <1>0 DEF Stored, Listed
  <2>3. conn[c] \in ConnRecord
    BY <1>0
  <2>4. session \in Status /\ cluster \in Status
    BY <2>2, <2>3 DEF ConnRecord, Status
  <2> HIDE DEF session, cluster
  <2> QED
    BY <2>1, <2>2, <2>3, <2>4 DEF ConnRecord
<1>3. conn' \in [Conn -> ConnRecord]
  BY <1>1, <1>2
<1> QED
  BY <1>2, <1>3

(* shutdown_all: what was stored is closed, what was popped is not its own. *)
LEMMA ShutdownAllStep ==
  ASSUME IInv, ShutdownAll
  PROVE  IInv'
<1> USE FreeAssumption, NullAssumption
<1>0. call \in [Thread -> CallRecord] /\ conn \in [Conn -> ConnRecord] /\ instances = sessions
  BY StoredApart DEF IInv, TypeOK
<1>1. /\ sessions' = [n \in Name |-> NoConn] /\ instances' = [n \in Name |-> NoConn]
      /\ UNCHANGED <<lock, call>>
  BY DEF ShutdownAll
<1>2. conn' \in [Conn -> ConnRecord]
  BY ShutdownAllCloses
<1>3. \A c \in Conn :
        /\ conn'[c] \in ConnRecord /\ conn'[c].name = conn[c].name
        /\ ~Stored(c) => conn'[c].session = conn[c].session /\ conn'[c].cluster = conn[c].cluster
        /\ Stored(c) => conn'[c].session \in {"closed", "failed"}
                        /\ conn'[c].cluster \in {"closed", "failed"}
  BY ShutdownAllCloses
<1>5. TypeOK' /\ LockHeldWhileConnecting' /\ CallsAreNamed'
  BY <1>1, <1>2 DEF IInv, TypeOK, LockHeldWhileConnecting, CallsAreNamed
<1>6. StoredIsOpen'
  BY <1>1 DEF StoredIsOpen
<1>7. \A u \in Thread, c \in Conn : /\ ClosingCluster(u, c)' <=> ClosingCluster(u, c)
                                    /\ ClosingSession(u, c)' <=> ClosingSession(u, c)
  BY <1>1 DEF ClosingCluster, ClosingSession
<1>8. \A c \in Conn : StoredCluster(c) <=> Stored(c)
  BY <1>0 DEF Stored, StoredCluster
<1>9. OrphansOnlyFromFailedConnect'
  BY <1>3, <1>7, <1>8 DEF IInv, OrphansOnlyFromFailedConnect, Leaked
<1>10. PoppedOnce'
  BY <1>1, <1>7 DEF IInv, PoppedOnce, Stored, StoredCluster
<1>11. ConnectingUnstored'
  BY <1>1 DEF ConnectingUnstored, IInv, CallsAreNamed
<1>12. \A c \in Conn : Stored(c) => conn[c].session # "unused"
  BY DEF IInv, StoredIsOpen, Stored
<1>13. ClosingBoth'
  BY <1>1, <1>3, <1>7, <1>12 DEF IInv, ClosingBoth
<1> QED
  BY <1>5, <1>6, <1>9, <1>10, <1>11, <1>13 DEF IInv

LEMMA StepInvariant == IInv /\ [Next]_vars => IInv'
<1> SUFFICES ASSUME IInv, [Next]_vars PROVE IInv'
  OBVIOUS
<1>1. ASSUME NEW t \in Thread, NEW n \in Name, NEW cfg \in Config, CallGet(t, n, cfg)
      PROVE  IInv'
  BY <1>1, CallSteps
<1>2. ASSUME NEW t \in Thread, NEW n \in Name, CallShutdown(t, n) PROVE IInv'
  BY <1>2, CallSteps
<1>3. ASSUME NEW t \in Thread,
             GetStored(t) \/ StartConnect(t) \/ ConnectFailed(t) \/ Release(t)
      PROVE  IInv'
  BY <1>3, CallSteps
<1>4. ASSUME NEW t \in Thread, Connected(t) \/ ConnectLeaks(t) PROVE IInv'
  BY <1>4, ConnectedStep, ConnectLeaksStep
<1>5. ASSUME NEW t \in Thread, PopEntries(t) PROVE IInv'
  BY <1>5, PopStep
<1>6. ASSUME NEW t \in Thread, CloseSession(t) PROVE IInv'
  BY <1>6, CloseSessionStep
<1>7. ASSUME NEW t \in Thread, CloseCluster(t) PROVE IInv'
  BY <1>7, CloseClusterStep
<1>8. CASE ShutdownAll
  BY <1>8, ShutdownAllStep
<1>9. CASE UNCHANGED vars
  BY <1>9 DEF vars, IInv, TypeOK, LockHeldWhileConnecting, StoredIsOpen, PoppedOnce,
              OrphansOnlyFromFailedConnect, Leaked, CallsAreNamed, ClosingBoth, ConnectingUnstored, Stored,
              StoredCluster, ClosingSession, ClosingCluster
<1> QED
  BY <1>1, <1>2, <1>3, <1>4, <1>5, <1>6, <1>7, <1>8, <1>9 DEF Next, Step

-------------------------------------------------------------------------------
(* The invariant holds in every reachable state. *)
THEOREM Invariance == Spec => []IInv
  BY InitInvariant, StepInvariant, PTL DEF Spec

(* The tables, the lock and every call keep their types. *)
THEOREM TypeCorrect == Spec => []TypeOK
<1>1. IInv => TypeOK
  BY DEF IInv
<1> QED
  BY Invariance, <1>1, PTL

(* The lock is held by a connecting thread and by nobody else. *)
THEOREM LockDiscipline == Spec => []LockHeldWhileConnecting
<1>1. IInv => LockHeldWhileConnecting
  BY DEF IInv
<1> QED
  BY Invariance, <1>1, PTL

(* What is stored under a name is an open connection of that cluster. *)
THEOREM StoredAlwaysOpen == Spec => []StoredIsOpen
<1>1. IInv => StoredIsOpen
  BY DEF IInv
<1> QED
  BY Invariance, <1>1, PTL

(* What is open and out of reach of every shutdown is the cluster object   *)
(* of a connect that raised; a session never is.                           *)
THEOREM NothingElseOrphaned == Spec => []OrphansOnlyFromFailedConnect
<1>1. IInv => OrphansOnlyFromFailedConnect
  BY DEF IInv
<1> QED
  BY Invariance, <1>1, PTL

(* No connection is closed by two threads, or handed out once popped. *)
THEOREM PoppedByOne == Spec => []PoppedOnce
<1>1. IInv => PoppedOnce
  BY DEF IInv
<1> QED
  BY Invariance, <1>1, PTL

-------------------------------------------------------------------------------
(***************************************************************************)
(* SessionManager implements SharedConnections: every step of the manager  *)
(* is a step of the abstract pool, or is not seen from outside.            *)
(***************************************************************************)
Held == [t \in Thread |-> IF call[t].op = "using" THEN call[t].session ELSE NoConn]
Lives == [c \in Conn |-> Life(c)]

Used(c) == conn[c].session # "unused"
Closing(c) == \E t \in Thread : ClosingCluster(t, c)

(* A connection's life, by the three things it depends on. *)
LEMMA LifeCases ==
  ASSUME NEW c \in Conn
  PROVE  /\ ~Used(c) => Life(c) = "unused"
         /\ Used(c) /\ Stored(c) => Life(c) = "live"
         /\ Used(c) /\ ~Stored(c) /\ Closing(c) => Life(c) = "retired"
         /\ Used(c) /\ ~Stored(c) /\ ~Closing(c) => Life(c) = "closed"
  BY DEF Life, Used, Closing

LEMMA LifeCasesPrimed ==
  ASSUME NEW c \in Conn
  PROVE  /\ ~Used(c)' => Life(c)' = "unused"
         /\ Used(c)' /\ Stored(c)' => Life(c)' = "live"
         /\ Used(c)' /\ ~Stored(c)' /\ Closing(c)' => Life(c)' = "retired"
         /\ Used(c)' /\ ~Stored(c)' /\ ~Closing(c)' => Life(c)' = "closed"
  BY DEF Life, Used, Closing

(* It changes only with one of the three. *)
LEMMA SameLife ==
  ASSUME NEW c \in Conn,
         Used(c)' <=> Used(c), Stored(c)' <=> Stored(c), Closing(c)' <=> Closing(c)
  PROVE  Life(c)' = Life(c)
  BY DEF Life, Used, Closing

(* Steps of a thread that closes nothing, before and after them. *)
LEMMA QuietCall ==
  ASSUME NEW t \in Thread, UNCHANGED <<sessions, conn>>,
         call[t].op \notin {"closeSession", "closeCluster"},
         call'[t].op \notin {"closeSession", "closeCluster"},
         \A u \in Thread \ {t} : call'[u] = call[u]
  PROVE  Lives' = Lives
<1>1. \A c \in Conn, u \in Thread : ClosingCluster(u, c)' <=> ClosingCluster(u, c)
  BY DEF ClosingCluster
<1>2. \A c \in Conn : Life(c)' = Life(c)
  BY <1>1, SameLife DEF Stored, Used, Closing
<1> QED
  BY <1>2 DEF Lives

(* The steps before a session is handed out, seen from outside. *)
LEMMA CallStepsRefine ==
  ASSUME IInv, NEW t \in Thread,
         \/ \E n \in Name, cfg \in Config : CallGet(t, n, cfg)
         \/ \E n \in Name : CallShutdown(t, n)
         \/ StartConnect(t) \/ ConnectFailed(t) \/ ConnectLeaks(t)
  PROVE  UNCHANGED <<sessions, Lives, Held>>
<1>0. call \in [Thread -> CallRecord] /\ call[t] \in CallRecord
  BY DEF IInv, TypeOK
<1>1. ASSUME NEW n \in Name, NEW cfg \in Config, CallGet(t, n, cfg)
      PROVE  /\ call[t].op = "idle" /\ call'[t].op = "get" /\ UNCHANGED <<sessions, conn>>
             /\ \A u \in Thread \ {t} : call'[u] = call[u]
  BY <1>0, <1>1 DEF CallGet, Idle
<1>2. ASSUME NEW n \in Name, CallShutdown(t, n)
      PROVE  /\ call[t].op = "idle" /\ call'[t].op = "shutdown" /\ UNCHANGED <<sessions, conn>>
             /\ \A u \in Thread \ {t} : call'[u] = call[u]
  BY <1>0, <1>2 DEF CallShutdown, Idle
<1>3. CASE StartConnect(t)
  <2>1. call[t].op = "get" /\ call'[t].op = "connect" /\ UNCHANGED <<sessions, conn>>
    BY <1>0, <1>3 DEF StartConnect, CallRecord
  <2>2. \A u \in Thread \ {t} : call'[u] = call[u]
    BY <1>0, <1>3 DEF StartConnect
  <2> QED
    BY <2>1, <2>2, QuietCall DEF Held
<1>4. CASE ConnectFailed(t)
  <2>1. call[t].op = "connect" /\ call'[t].op = "idle" /\ UNCHANGED <<sessions, conn>>
    BY <1>0, <1>4 DEF ConnectFailed, Raises, Idle
  <2>2. \A u \in Thread \ {t} : call'[u] = call[u]
    BY <1>0, <1>4 DEF ConnectFailed, Raises
  <2> QED
    BY <2>1, <2>2, QuietCall DEF Held
<1>5. ASSUME NEW n \in Name, NEW cfg \in Config, CallGet(t, n, cfg)
      PROVE  UNCHANGED <<sessions, Lives, Held>>
  <2>1. Lives' = Lives
    BY <1>1, <1>5, QuietCall
  <2> QED
    BY <1>1, <1>5, <2>1 DEF Held
<1>6. ASSUME NEW n \in Name, CallShutdown(t, n)
      PROVE  UNCHANGED <<sessions, Lives, Held>>
  <2>1. Lives' = Lives
    BY <1>2, <1>6, QuietCall
  <2> QED
    BY <1>2, <1>6, <2>1 DEF Held
<1>7. CASE ConnectLeaks(t)
  <2>1. /\ call[t].op = "connect" /\ call'[t].op = "idle" /\ UNCHANGED sessions
        /\ \A u \in Thread \ {t} : call'[u] = call[u]
    BY <1>0, <1>7 DEF ConnectLeaks, Raises, Idle
  <2>2. \A c \in Conn : Used(c)' <=> Used(c)
    BY <1>7 DEF ConnectLeaks, Fresh, Used, IInv, TypeOK
  <2>3. \A c \in Conn : (Closing(c)' <=> Closing(c)) /\ (Stored(c)' <=> Stored(c))
    BY <2>1 DEF Closing, ClosingCluster, Stored
  <2>4. Lives' = Lives
    BY <2>2, <2>3, SameLife DEF Lives
  <2> QED
    BY <2>1, <2>4 DEF Held
<1> QED
  BY <1>3, <1>4, <1>5, <1>6, <1>7

LEMMA GetStoredRefines ==
  ASSUME IInv, NEW t \in Thread, GetStored(t)
  PROVE  \E n \in Name : Abstract!Obtain(t, n)
<1>0. PICK n \in Name : n = call[t].name
  BY DEF GetStored, IInv, CallsAreNamed
<1>1. /\ UNCHANGED <<sessions, conn>> /\ call \in [Thread -> CallRecord]
      /\ call[t].op = "get" /\ sessions[n] # NoConn
      /\ call'[t].op = "using" /\ call'[t].session = sessions[n]
      /\ \A u \in Thread \ {t} : call'[u] = call[u]
  BY <1>0 DEF GetStored, IInv, TypeOK, CallRecord
<1>2. Lives' = Lives
  BY <1>1, QuietCall
<1>3. Held' = [Held EXCEPT ![t] = sessions[n]] /\ Held[t] = NoConn
  BY <1>1 DEF Held
<1>4. Abstract!Obtain(t, n)
  BY <1>1, <1>2, <1>3 DEF Abstract!Obtain, Held, Lives
<1> QED
  BY <1>4

LEMMA ReleaseRefines ==
  ASSUME IInv, NEW t \in Thread, Release(t)
  PROVE  Abstract!Release(t)
<1>1. /\ UNCHANGED <<sessions, conn>> /\ call \in [Thread -> CallRecord]
      /\ call[t].op = "using" /\ call[t].session \in Conn /\ call'[t].op = "idle"
      /\ \A u \in Thread \ {t} : call'[u] = call[u]
  BY DEF Release, IInv, TypeOK, CallRecord, CallsAreNamed, Idle
<1>2. Lives' = Lives
  BY <1>1, QuietCall
<1>3. Held' = [Held EXCEPT ![t] = NoConn] /\ Held[t] # NoConn
  BY <1>1, NullAssumption DEF Held
<1> QED
  BY <1>1, <1>2, <1>3 DEF Abstract!Release, Held, Lives

LEMMA ConnectedRefines ==
  ASSUME IInv, NEW t \in Thread, Connected(t)
  PROVE  \E n \in Name, c \in Conn : Abstract!Open(t, n, c)
<1>0. PICK n \in Name : n = call[t].name
  BY DEF Connected, IInv, CallsAreNamed
<1>1. call \in [Thread -> CallRecord] /\ call[t].op = "connect" /\ sessions \in [Name -> Conn \cup {NoConn}]
  BY DEF Connected, IInv, TypeOK
<1>2. sessions[n] = NoConn
  BY <1>0, <1>1 DEF IInv, ConnectingUnstored
<1>3. PICK c \in Conn :
        /\ conn[c].session = "unused" /\ sessions' = [sessions EXCEPT ![n] = c]
        /\ conn' = [conn EXCEPT ![c] = [name |-> n, cfg |-> call[t].cfg,
                                        session |-> "open", cluster |-> "open"]]
        /\ call' = [call EXCEPT ![t].op = "using", ![t].session = c]
  BY <1>0 DEF Connected, Fresh
<1>4. /\ call'[t].op = "using" /\ call'[t].session = c
      /\ \A u \in Thread \ {t} : call'[u] = call[u]
  BY <1>1, <1>3 DEF CallRecord
<1>5. \A d \in Conn : Closing(d)' <=> Closing(d)
  BY <1>1, <1>4 DEF Closing, ClosingCluster
<1>6. Used(c)' /\ Stored(c)' /\ \A d \in Conn \ {c} : Used(d)' <=> Used(d)
  BY <1>1, <1>3 DEF IInv, TypeOK, Used, Stored
<1>7. \A d \in Conn \ {c} : Stored(d)' <=> Stored(d)
  BY <1>1, <1>2, <1>3, NullAssumption DEF Stored
<1>8. Life(c) = "unused" /\ Life(c)' = "live" /\ \A d \in Conn \ {c} : Life(d)' = Life(d)
  BY <1>3, <1>5, <1>6, <1>7, LifeCases, LifeCasesPrimed, SameLife DEF Used
<1>9. Lives' = [Lives EXCEPT ![c] = "live"] /\ Lives[c] = "unused"
  BY <1>8 DEF Lives
<1>10. Held' = [Held EXCEPT ![t] = c] /\ Held[t] = NoConn
  BY <1>1, <1>4 DEF Held
<1>11. Abstract!Open(t, n, c)
  BY <1>2, <1>3, <1>9, <1>10 DEF Abstract!Open, Held, Lives
<1> QED
  BY <1>11

-------------------------------------------------------------------------------
(* Popping the entries retires the connection, if there was one. *)
LEMMA PopRefines ==
  ASSUME IInv, NEW t \in Thread, PopEntries(t)
  PROVE  \/ UNCHANGED <<sessions, Lives, Held>>
         \/ \E n \in Name : Abstract!Retire(n)
<1>0. PICK n \in Name : n = call[t].name
  BY DEF PopEntries, IInv, CallsAreNamed
<1>1. /\ call \in [Thread -> CallRecord] /\ call[t].op = "shutdown" /\ UNCHANGED conn
      /\ sessions \in [Name -> Conn \cup {NoConn}] /\ sessions' = [sessions EXCEPT ![n] = NoConn]
      /\ instances[n] = sessions[n]
  BY <1>0 DEF PopEntries, IInv, TypeOK, StoredIsOpen
<1>2. /\ call'[t].op = "closeSession" /\ call'[t].cluster = sessions[n]
      /\ \A u \in Thread \ {t} : call'[u] = call[u]
  BY <1>0, <1>1 DEF PopEntries, CallRecord
<1>3. Held' = Held
  BY <1>1, <1>2 DEF Held
<1>4. \A d \in Conn : d # sessions[n] => (Closing(d)' <=> Closing(d))
  BY <1>1, <1>2 DEF Closing, ClosingCluster
<1>5. \A d \in Conn : d # sessions[n] => (Stored(d)' <=> Stored(d))
  BY <1>1, NullAssumption DEF Stored
<1>6. \A d \in Conn : d # sessions[n] => Life(d)' = Life(d)
  BY <1>1, <1>4, <1>5, SameLife DEF Used
<1>7. CASE sessions[n] = NoConn
  <2>1. sessions' = sessions
    BY <1>1, <1>7
  <2>2. Lives' = Lives
    BY <1>6, <1>7, NullAssumption DEF Lives
  <2> QED
    BY <1>3, <2>1, <2>2
<1>8. CASE sessions[n] # NoConn
  <2>1. PICK c \in Conn : c = sessions[n]
    BY <1>1, <1>8
  <2>2. Used(c)'
    BY <1>1, <2>1, <1>8 DEF Used, IInv, StoredIsOpen
  <2>3. ~Stored(c)'
    BY <1>1, <1>8, <2>1, StoredApart, NullAssumption DEF Stored
  <2>4. Closing(c)'
    BY <1>2, <2>1 DEF Closing, ClosingCluster
  <2>5. Life(c)' = "retired"
    BY <2>2, <2>3, <2>4, LifeCasesPrimed
  <2>6. Lives' = [Lives EXCEPT ![sessions[n]] = "retired"]
    BY <1>6, <2>1, <2>5 DEF Lives
  <2>7. Abstract!Retire(n)
    BY <1>1, <1>3, <1>8, <2>6 DEF Abstract!Retire, Held, Lives
  <2> QED
    BY <2>7
<1> QED
  BY <1>7, <1>8

(* Closing the session is not seen from outside. *)
LEMMA CloseSessionRefines ==
  ASSUME IInv, NEW t \in Thread, CloseSession(t)
  PROVE  UNCHANGED <<sessions, Lives, Held>>
<1>1. /\ call \in [Thread -> CallRecord] /\ conn \in [Conn -> ConnRecord] /\ UNCHANGED sessions
      /\ call[t].op = "closeSession" /\ call[t].session = call[t].cluster
  BY DEF CloseSession, IInv, TypeOK, ClosingBoth
<1>2. /\ call'[t].op = "closeCluster" /\ call'[t].cluster = call[t].cluster
      /\ \A u \in Thread \ {t} : call'[u] = call[u]
  BY <1>1 DEF CloseSession, CallRecord
<1>3. Held' = Held
  BY <1>1, <1>2 DEF Held
<1>4. \A d \in Conn : Closing(d)' <=> Closing(d)
  BY <1>1, <1>2 DEF Closing, ClosingCluster
<1>5. \A d \in Conn : d = call[t].session => Used(d) /\ Used(d)'
  BY <1>1 DEF CloseSession, IInv, ClosingBoth, ClosingCluster, Used, ConnRecord
<1>6. \A d \in Conn : d # call[t].session => (Used(d)' <=> Used(d))
  BY <1>1 DEF CloseSession, Used
<1>7. \A d \in Conn : Life(d)' = Life(d)
  BY <1>1, <1>4, <1>5, <1>6, SameLife DEF Stored
<1> QED
  BY <1>1, <1>3, <1>7 DEF Lives

(* Closing the cluster object closes the connection, if there was one. *)
LEMMA CloseClusterRefines ==
  ASSUME IInv, NEW t \in Thread, CloseCluster(t)
  PROVE  \/ UNCHANGED <<sessions, Lives, Held>>
         \/ \E c \in Conn : Abstract!Close(c)
<1>1. /\ call \in [Thread -> CallRecord] /\ conn \in [Conn -> ConnRecord] /\ UNCHANGED sessions
      /\ call[t].op = "closeCluster" /\ call[t].cluster \in Conn \cup {NoConn}
  BY DEF CloseCluster, IInv, TypeOK, CallRecord
<1>2. call'[t].op = "idle" /\ \A u \in Thread \ {t} : call'[u] = call[u]
  BY <1>1 DEF CloseCluster, Idle
<1>3. Held' = Held
  BY <1>1, <1>2 DEF Held
<1>4. \A d \in Conn : d # call[t].cluster => (Closing(d)' <=> Closing(d))
  BY <1>1, <1>2 DEF Closing, ClosingCluster
<1>5. \A d \in Conn : conn'[d].session = conn[d].session
  BY <1>1 DEF CloseCluster, ConnRecord
<1>6. \A d \in Conn : d # call[t].cluster => Life(d)' = Life(d)
  BY <1>1, <1>4, <1>5, SameLife DEF Stored, Used
<1>7. CASE call[t].cluster = NoConn
  <2>1. Lives' = Lives
    BY <1>6, <1>7, NullAssumption DEF Lives
  <2> QED
    BY <1>1, <1>3, <2>1
<1>8. CASE call[t].cluster # NoConn
  <2>1. PICK c \in Conn : c = call[t].cluster
    BY <1>1, <1>8
  <2>2. ClosingCluster(t, c)
    BY <1>1, <2>1 DEF ClosingCluster
  <2>3. Used(c) /\ ~Stored(c) /\ Closing(c)
    BY <2>2 DEF IInv, ClosingBoth, PoppedOnce, Used, Closing
  <2>4. \A u \in Thread : ~ClosingCluster(u, c)'
    <3>1. \A u \in Thread \ {t} : ~ClosingCluster(u, c)
      BY <2>2 DEF IInv, PoppedOnce
    <3> QED
      BY <1>2, <3>1 DEF ClosingCluster
  <2>5. Used(c)' /\ ~Stored(c)' /\ ~Closing(c)'
    BY <1>1, <1>5, <2>3, <2>4 DEF Used, Stored, Closing
  <2>6. Life(c) = "retired" /\ Life(c)' = "closed"
    BY <2>3, <2>5, LifeCases, LifeCasesPrimed
  <2>7. Lives' = [Lives EXCEPT ![c] = "closed"] /\ Lives[c] = "retired"
    BY <1>6, <2>1, <2>6 DEF Lives
  <2>8. Abstract!Close(c)
    BY <1>1, <1>3, <2>7 DEF Abstract!Close, Held, Lives
  <2> QED
    BY <2>8
<1> QED
  BY <1>7, <1>8

LEMMA ShutdownAllRefines ==
  ASSUME IInv, ShutdownAll
  PROVE  Abstract!CloseAllLive
<1>1. UNCHANGED call /\ sessions' = [n \in Name |-> NoConn]
  BY DEF ShutdownAll
<1>2. Held' = Held
  BY <1>1 DEF Held
<1>3. \A d \in Conn : ~Stored(d)' /\ (Closing(d)' <=> Closing(d))
  BY <1>1, NullAssumption DEF Stored, Closing, ClosingCluster
<1>4. \A d \in Conn : ~Stored(d) => (Used(d)' <=> Used(d))
  BY ShutdownAllCloses DEF Used
<1>5. \A d \in Conn : Stored(d) => Used(d) /\ ~Closing(d)
  BY StoredApart, NullAssumption DEF IInv, StoredIsOpen, PoppedOnce, Stored, Used, Closing
<1>6. \A d \in Conn : Stored(d) => Used(d)'
  BY ShutdownAllCloses DEF Used
<1>7. \A d \in Conn : Stored(d) => Life(d) = "live" /\ Life(d)' = "closed"
  BY <1>3, <1>5, <1>6, LifeCases, LifeCasesPrimed
<1>8. \A d \in Conn : ~Stored(d) => Life(d)' = Life(d) /\ Life(d) # "live"
  BY <1>3, <1>4, LifeCases, SameLife
<1>9. Lives' = [c \in Conn |-> IF Lives[c] = "live" THEN "closed" ELSE Lives[c]]
  BY <1>7, <1>8 DEF Lives
<1> QED
  BY <1>1, <1>2, <1>9 DEF Abstract!CloseAllLive, Held, Lives

-------------------------------------------------------------------------------
LEMMA InitRefines == Init => Abstract!Init
<1> SUFFICES ASSUME Init PROVE Abstract!Init
  OBVIOUS
<1>1. \A c \in Conn : Life(c) = "unused"
  BY DEF Init, Life
<1> QED
  BY <1>1 DEF Init, Idle, Abstract!Init

LEMMA StepRefines == IInv /\ [Next]_vars => [Abstract!Next]_(Abstract!vars)
<1> SUFFICES ASSUME IInv, [Next]_vars PROVE [Abstract!Next]_(Abstract!vars)
  OBVIOUS
<1>0. UNCHANGED <<sessions, Lives, Held>> => UNCHANGED (Abstract!vars)
  BY DEF Abstract!vars, Lives, Held
<1>1. ASSUME NEW t \in Thread,
             \/ \E n \in Name, cfg \in Config : CallGet(t, n, cfg)
             \/ \E n \in Name : CallShutdown(t, n)
             \/ StartConnect(t) \/ ConnectFailed(t) \/ ConnectLeaks(t)
      PROVE  UNCHANGED (Abstract!vars)
  BY <1>0, <1>1, CallStepsRefine
<1>2. ASSUME NEW t \in Thread, GetStored(t) PROVE Abstract!Next
  BY <1>2, GetStoredRefines DEF Abstract!Next
<1>3. ASSUME NEW t \in Thread, Release(t) PROVE Abstract!Next
  BY <1>3, ReleaseRefines DEF Abstract!Next
<1>4. ASSUME NEW t \in Thread, Connected(t) PROVE Abstract!Next
  BY <1>4, ConnectedRefines DEF Abstract!Next
<1>5. ASSUME NEW t \in Thread, PopEntries(t) PROVE Abstract!Next \/ UNCHANGED (Abstract!vars)
  BY <1>0, <1>5, PopRefines DEF Abstract!Next
<1>6. ASSUME NEW t \in Thread, CloseSession(t) PROVE UNCHANGED (Abstract!vars)
  BY <1>0, <1>6, CloseSessionRefines
<1>7. ASSUME NEW t \in Thread, CloseCluster(t) PROVE Abstract!Next \/ UNCHANGED (Abstract!vars)
  BY <1>0, <1>7, CloseClusterRefines DEF Abstract!Next
<1>8. CASE ShutdownAll
  BY <1>8, ShutdownAllRefines DEF Abstract!Next
<1>9. CASE UNCHANGED vars
  BY <1>0, <1>9 DEF vars, Lives, Held, Life, Stored, ClosingCluster
<1> QED
  BY <1>1, <1>2, <1>3, <1>4, <1>5, <1>6, <1>7, <1>8, <1>9 DEF Next, Step

(* The manager implements the abstract pool: seen from its callers, one    *)
(* shared connection per cluster, made once and never handed out again     *)
(* once it is retired, whatever the threads and however many they are.     *)
THEOREM Implementation == Spec => ImplementsSharedConnections
  BY Invariance, InitRefines, StepRefines, PTL DEF Spec, ImplementsSharedConnections, Abstract!Spec
===============================================================================
