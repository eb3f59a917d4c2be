--------------------------- MODULE MCSessionManager ---------------------------
(* Two clusters, three callers and two connects: a lost race, a reconnect and *)
(* a shutdown that overtakes another all fit.                                 *)
EXTENDS SessionManager
===============================================================================
