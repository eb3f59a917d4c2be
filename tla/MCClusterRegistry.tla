--------------------------- MODULE MCClusterRegistry ---------------------------
(* One static cluster of its own, one whose name scans can find as well, and  *)
(* one that only scans find.                                                  *)
EXTENDS ClusterRegistry
===============================================================================
