---------------------------- MODULE MCPersistedValue ----------------------------
(* A number and a string over two values. *)
EXTENDS PersistedValue
===============================================================================
