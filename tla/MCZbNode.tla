-------------------------------- MODULE MCZbNode -------------------------------
(* One application task and two handlers for ZbNode and its history. *)
EXTENDS ZbNodeNews
===============================================================================
