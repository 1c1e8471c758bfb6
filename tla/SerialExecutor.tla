---------------------------- MODULE SerialExecutor ----------------------------
(***************************************************************************)
(* What EventLoop (src/eventLoop) promises its clients, with no mutex, no  *)
(* condition variable and no buffers: callables are queued by anybody and  *)
(* run by one worker, one at a time, each once, in the order in which they *)
(* were queued.  The worker may be taken away, and the queue is then never *)
(* served again.                                                           *)
(***************************************************************************)
EXTENDS Sequences

CONSTANTS Callables,   \* what can be queued
          Nothing      \* the worker runs nothing

VARIABLES queue,       \* accepted and not yet begun
          current,     \* the callable being run, or Nothing
          executed,    \* every callable begun so far, in order
          worker       \* "up" | "down"

vars == <<queue, current, executed, worker>>

Init == /\ queue = <<>>
        /\ current = Nothing
        /\ executed = <<>>
        /\ worker \in {"up", "down"}

\* A callable is queued behind all the others; the caller does not run it.
Accept(c) == /\ queue' = Append(queue, c)
             /\ UNCHANGED <<current, executed, worker>>

\* The worker takes the oldest callable, and only when it runs no other.
Begin == /\ worker = "up"
         /\ current = Nothing
         /\ queue # <<>>
         /\ current' = Head(queue)
         /\ queue' = Tail(queue)
         /\ executed' = Append(executed, Head(queue))
         /\ UNCHANGED worker

End == /\ worker = "up"
       /\ current # Nothing
       /\ current' = Nothing
       /\ UNCHANGED <<queue, executed, worker>>

\* The worker is gone, possibly in the middle of a callable.
Retire == /\ worker = "up"
          /\ worker' = "down"
          /\ current' = Nothing
          /\ UNCHANGED <<queue, executed>>

Next == \/ \E c \in Callables : Accept(c)
        \/ Begin
        \/ End
        \/ Retire

Safety == Init /\ [][Next]_vars
Spec == Safety /\ WF_vars(Begin) /\ WF_vars(End)
===============================================================================
