------------------------------ MODULE MCEventLoop ------------------------------
(* Two producers and three callables for EventLoop. *)
EXTENDS EventLoop
===============================================================================
