------------------------------ MODULE MCButtonTask ------------------------------
(* A button with two polling periods and a threshold of two or four samples. *)
EXTENDS ButtonTask
===============================================================================
