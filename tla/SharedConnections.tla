-------------------------- MODULE SharedConnections --------------------------
(***************************************************************************)
(* What the session manager promises its callers, with no lock and no      *)
(* dictionaries: a cluster has at most one live connection, everybody who  *)
(* asks for the cluster gets that one, a connection is made once, and once *)
(* it is retired it is never handed out or made live again.                *)
(***************************************************************************)
CONSTANTS Name, Conn, Thread, NoConn

VARIABLES live,     \* live[n]: the connection shared by the users of cluster n
          life,     \* life[c]: how far connection c is in its life
          held      \* held[t]: the connection thread t was handed

vars == <<live, life, held>>

Init == /\ live = [n \in Name |-> NoConn]
        /\ life = [c \in Conn |-> "unused"]
        /\ held = [t \in Thread |-> NoConn]

(* Ask for cluster n while it has a live connection. *)
Obtain(t, n) == /\ held[t] = NoConn
                /\ live[n] # NoConn
                /\ held' = [held EXCEPT ![t] = live[n]]
                /\ UNCHANGED <<live, life>>

(* Ask for cluster n while it has none: make it, share it, hand it out. *)
Open(t, n, c) == /\ held[t] = NoConn
                 /\ live[n] = NoConn
                 /\ life[c] = "unused"
                 /\ live' = [live EXCEPT ![n] = c]
                 /\ life' = [life EXCEPT ![c] = "live"]
                 /\ held' = [held EXCEPT ![t] = c]

Release(t) == /\ held[t] # NoConn
              /\ held' = [held EXCEPT ![t] = NoConn]
              /\ UNCHANGED <<live, life>>

(* Take the connection of n away from future callers; it still has to be closed. *)
Retire(n) == /\ live[n] # NoConn
             /\ live' = [live EXCEPT ![n] = NoConn]
             /\ life' = [life EXCEPT ![live[n]] = "retired"]
             /\ UNCHANGED held

Close(c) == /\ life[c] = "retired"
            /\ life' = [life EXCEPT ![c] = "closed"]
            /\ UNCHANGED <<live, held>>

CloseAllLive == /\ live' = [n \in Name |-> NoConn]
                /\ life' = [c \in Conn |-> IF life[c] = "live" THEN "closed" ELSE life[c]]
                /\ UNCHANGED held

Next == \/ \E t \in Thread, n \in Name : Obtain(t, n) \/ \E c \in Conn : Open(t, n, c)
        \/ \E t \in Thread : Release(t)
        \/ \E n \in Name : Retire(n)
        \/ \E c \in Conn : Close(c)
        \/ CloseAllLive

Spec == Init /\ [][Next]_vars
===============================================================================
