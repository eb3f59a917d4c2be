--------------------------- MODULE MCClusterSessions ---------------------------
(* A static cluster that scans can find as well and one that only scans find, *)
(* each evicted by its first miss; two requests, two connects.                *)
EXTENDS ClusterSessions, TLC

Symmetric == Permutations(Conn) \cup Permutations(Request)
===============================================================================
