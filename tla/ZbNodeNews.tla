------------------------------- MODULE ZbNodeNews -------------------------------
(***************************************************************************)
(* ZbNode with a history variable: the outcomes its Zigbee task has begun  *)
(* to tell, in order.  With it, ZbNode implements NodeNews: the list of    *)
(* news is the history, and a handler has heard the outcomes among the     *)
(* events it has seen.  The history is written and never read, so NewsSpec *)
(* and Spec allow the same behaviours of the node.                         *)
(***************************************************************************)
EXTENDS ZbNode

VARIABLE news

NewsInit == Init /\ news = <<>>

\* handleBdbEvent calls postEvent with e: the Zigbee task's calls go from none
\* to one for each handler.
Announces(e) == todo[Zb] = <<>> /\ todo'[Zb] = CallsFor(e)

NewsNext ==
    /\ Next
    /\ \/ \E e \in Outcomes : Announces(e) /\ news' = Append(news, e)
       \/ (\A e \in Outcomes : ~Announces(e)) /\ news' = news

NewsSpec == NewsInit /\ [][NewsNext]_<<vars, news>> /\ Fairness

Heard(h) == NumOutcomes(seen[h], Len(seen[h]))

Promise == INSTANCE NodeNews WITH
               Others <- Events \ Outcomes,
               heard <- [h \in Handlers |-> Heard(h)]

\* The handlers are told the outcomes of joining and leaving one after the
\* other in the order of registration, each the same outcomes in the order in
\* which the Zigbee task posted them, whatever other tasks post in between:
\* none is skipped, doubled or overtaken on its way through the event loop.
TellsInTurn == Promise!Safety

\* An outcome that was posted is told in the end, to every handler in its turn,
\* though the handlers themselves call joinNetwork and leaveNetwork.
EverybodyHears == Promise!Fairness
===============================================================================
