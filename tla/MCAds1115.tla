------------------------------- MODULE MCAds1115 -------------------------------
(* Two inputs, one range, two handlers, two registrations of each. *)
EXTENDS Ads1115
================================================================================
