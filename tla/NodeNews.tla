-------------------------------- MODULE NodeNews --------------------------------
(***************************************************************************)
(* What a Zigbee node (src/zigbee/zbNode.cpp) promises the handlers of its *)
(* events, with no stack, no tasks and no queue: there is one list of news *)
(* about the network, to which outcomes are added, and every handler is    *)
(* read the list from its beginning.  The handlers take turns in the order *)
(* in which they were registered, so that none hears an outcome before     *)
(* those registered earlier have heard it, and none misses one.  Between   *)
(* the news a handler may be told anything else, at any time.              *)
(***************************************************************************)
EXTENDS Naturals, Sequences

CONSTANTS NumHandlers,
          Outcomes,     \* the events that are news
          Others        \* the events that are not

VARIABLES news,         \* the outcomes announced, in order
          heard,        \* how many of them each handler was told
          seen          \* all that each handler was told, in order

vars == <<news, heard, seen>>

Handlers == 1 .. NumHandlers

Init == /\ news = <<>>
        /\ heard = [h \in Handlers |-> 0]
        /\ seen = [h \in Handlers |-> <<>>]

Announce(e) == /\ news' = Append(news, e)
               /\ UNCHANGED <<heard, seen>>

Told(h, e) == seen' = [seen EXCEPT ![h] = Append(@, e)]

\* Those registered before h have heard one outcome more than h, those
\* registered after h have not.
Turn(h) == /\ heard[h] < Len(news)
           /\ \A g \in Handlers : heard[g] = IF g < h THEN heard[h] + 1 ELSE heard[h]

Hear(h) == /\ Turn(h)
           /\ Told(h, news[heard[h] + 1])
           /\ heard' = [heard EXCEPT ![h] = @ + 1]
           /\ UNCHANGED news

Chat(h, e) == /\ Told(h, e)
              /\ UNCHANGED <<news, heard>>

Next == \/ \E e \in Outcomes : Announce(e)
        \/ \E h \in Handlers : Hear(h) \/ \E e \in Others : Chat(h, e)

Safety == Init /\ [][Next]_vars

\* Nobody waits for an outcome for ever.
Fairness == \A h \in Handlers : WF_vars(Hear(h))

Spec == Safety /\ Fairness
===============================================================================
