-------------------------- MODULE MCRequestHandlers --------------------------
(* Three shapes, of two columns, of one and of none (an empty JSON object). *)
EXTENDS RequestHandlers

MCArity(s) == CASE s = "ab" -> 2 [] s = "a" -> 1 [] s = "none" -> 0
===============================================================================
