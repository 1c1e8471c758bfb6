--------------------------------- MODULE ZbNode --------------------------------
(***************************************************************************)
(* src/zigbee/zbNode.cpp: how a Zigbee node joins, retries and leaves its  *)
(* network, and how it tells the application.  Four tasks meet here:       *)
(*   - the Zigbee task delivers the stack's BDB signals to handleBdbEvent; *)
(*   - the esp_timer task runs the joinNetwork retries (ScheduledTask);    *)
(*   - the application calls joinNetwork() and leaveNetwork(), from its    *)
(*     own tasks or from an event handler, that is from the event loop;    *)
(*   - the event loop task runs the registered handlers, one queued call   *)
(*     per handler and event (postEvent), served as SerialExecutor says.   *)
(* The Zigbee stack is external: what it answers is nondeterministic.      *)
(***************************************************************************)
EXTENDS Naturals, Sequences, FiniteSets, SequencesExt

CONSTANTS Clients,       \* application tasks other than the event loop
          Zb, Timer, Loop,
          NumHandlers,   \* size of _nodeEventHandlers
          MaxCalls,      \* bound: calls of joinNetwork/leaveNetwork by the application
          MaxFailures,   \* bound: failed initialisations and steerings
          MaxIncidents   \* bound: leaves decided by the network, NLME statuses

ASSUME NodeAssumption ==
    /\ NumHandlers \in Nat \ {0}
    /\ MaxCalls \in Nat /\ MaxFailures \in Nat /\ MaxIncidents \in Nat
    /\ Cardinality({Zb, Timer, Loop}) = 3
    /\ {Zb, Timer, Loop} \intersect Clients = {}

Tasks == Clients \union {Zb, Timer, Loop}
Handlers == 1 .. NumHandlers
Events == {"JOINED", "JOINING", "NLME_STATUS", "JOIN_FAIL", "LEAVING", "LEFT"}

VARIABLES
    \* the stack
    stack,       \* "off" | "starting" | "initialising" | "ready"
    joined,      \* esp_zb_bdb_dev_joined()
    factoryNew,  \* esp_zb_bdb_is_factory_new()
    steering,    \* network steerings in progress
    signals,     \* BDB signals not yet handled, [kind, ok]
    \* the node
    armed,       \* retry ScheduledTasks whose timer runs
    pc,          \* where each task is (see At)
    todo,        \* the enqueue() calls left of each task's postEvent
    queue,       \* the event loop's pending <<handler, event>>
    seen,        \* what each handler has been called with, in order
    \* counters that only bound the model
    calls, failures, incidents

stackVars == <<stack, joined, factoryNew, steering>>
bounds == <<calls, failures, incidents>>
vars == <<stackVars, signals, armed, pc, todo, queue, seen, bounds>>

\* "idle"; "join" "steer": in joinNetwork before the isJoined test, before the
\* commissioning call; "leave" "request": the same for leaveNetwork; "retry":
\* a handler about to create the retry ScheduledTask.  A task first finishes
\* its todo, and is free when it is "idle" with nothing to do.
At == {"idle", "join", "steer", "leave", "request", "retry"}

Init == /\ stack = "off"
        /\ joined = FALSE
        /\ factoryNew \in BOOLEAN
        /\ steering = 0
        /\ signals = <<>>
        /\ armed = 0
        /\ pc = [t \in Tasks |-> "idle"]
        /\ todo = [t \in Tasks |-> <<>>]
        /\ queue = <<>>
        /\ seen = [h \in Handlers |-> <<>>]
        /\ calls = 0 /\ failures = 0 /\ incidents = 0

-------------------------------------------------------------------------------
(* postEvent *)

\* Mutant: handlers are indexed one too far.
CallsForShifted(e) == [h \in Handlers |-> <<h + 1, e>>]

\* Mutant: the last registered handler is called first.
CallsForReversed(e) == [h \in Handlers |-> <<NumHandlers + 1 - h, e>>]

\* One enqueue per registered handler, in the order of registration.
CallsFor(e) == [h \in Handlers |-> <<h, e>>]

\* t starts posting e and goes on at `next`.
Post(t, e, next) == /\ todo' = [todo EXCEPT ![t] = CallsFor(e)]
                    /\ pc' = [pc EXCEPT ![t] = next]

\* Mutant: postEvent returns after its first enqueue.
EnqueueFirstOnly(t) == /\ todo[t] # <<>>
                       /\ queue' = Append(queue, Head(todo[t]))
                       /\ todo' = [todo EXCEPT ![t] = <<>>]
                       /\ UNCHANGED <<stackVars, signals, armed, pc, seen, bounds>>

Enqueue(t) == /\ todo[t] # <<>>
              /\ queue' = Append(queue, Head(todo[t]))
              /\ todo' = [todo EXCEPT ![t] = Tail(@)]
              /\ UNCHANGED <<stackVars, signals, armed, pc, seen, bounds>>

\* Task t is at `place`, all its events posted.
Ready(t, place) == pc[t] = place /\ todo[t] = <<>>
Goto(t, place) == pc' = [pc EXCEPT ![t] = place]

-------------------------------------------------------------------------------
(* The stack (external) *)

Signal(kind, ok) == signals' = Append(signals, [kind |-> kind, ok |-> ok])

\* start(): zbTask runs esp_zb_start, the stack asks to skip its own startup.
Start == /\ stack = "off"
         /\ stack' = "starting"
         /\ Signal("SKIP_STARTUP", TRUE)
         /\ UNCHANGED <<joined, factoryNew, steering, armed, pc, todo, queue,
                        seen, bounds>>

\* A device that is not factory new comes back joined to its network.
Initialised(ok) ==
    /\ stack = "initialising"
    /\ ~ok => failures < MaxFailures
    /\ stack' = "ready"
    /\ joined' = (ok /\ ~factoryNew)
    /\ failures' = IF ok THEN failures ELSE failures + 1
    /\ Signal("DEVICE_REBOOT", ok)
    /\ UNCHANGED <<factoryNew, steering, armed, pc, todo, queue, seen, calls,
                   incidents>>

SteeringEnds(ok) ==
    /\ steering > 0
    /\ ~ok => failures < MaxFailures
    /\ steering' = steering - 1
    /\ joined' = (joined \/ ok)
    /\ factoryNew' = (factoryNew /\ ~ok)
    /\ failures' = IF ok THEN failures ELSE failures + 1
    /\ Signal("STEERING", ok)
    /\ UNCHANGED <<stack, armed, pc, todo, queue, seen, calls, incidents>>

\* The node is off its network, on its own request or told by a parent.
Left == /\ joined' = FALSE
        /\ factoryNew' = TRUE
        /\ Signal("LEAVE", TRUE)
        /\ UNCHANGED <<stack, steering>>

RemovedByNetwork == /\ joined
                    /\ incidents < MaxIncidents
                    /\ incidents' = incidents + 1
                    /\ Left
                    /\ UNCHANGED <<armed, pc, todo, queue, seen, calls, failures>>

NetworkStatus == /\ joined
                 /\ incidents < MaxIncidents
                 /\ incidents' = incidents + 1
                 /\ Signal("NLME_STATUS", TRUE)
                 /\ UNCHANGED <<stackVars, armed, pc, todo, queue, seen, calls,
                                failures>>

-------------------------------------------------------------------------------
(* joinNetwork and leaveNetwork, by any task *)

\* Mutant: the steering is started before JOINING is posted.
JoinSteersFirst(t) ==
    /\ Ready(t, "join")
    /\ steering' = IF joined THEN steering ELSE steering + 1
    /\ IF joined THEN Goto(t, "idle") /\ UNCHANGED todo
                 ELSE Post(t, "JOINING", "idle")
    /\ UNCHANGED <<stack, joined, factoryNew, signals, armed, queue, seen, bounds>>

Join(t) ==
    /\ Ready(t, "join")
    /\ IF joined THEN Goto(t, "idle") /\ UNCHANGED todo
                 ELSE Post(t, "JOINING", "steer")
    /\ UNCHANGED <<stackVars, signals, armed, queue, seen, bounds>>

\* The stack may refuse a steering while another one runs; the result of the
\* call is not looked at.
Steer(t) ==
    /\ Ready(t, "steer")
    /\ \/ steering' = steering + 1
       \/ steering > 0 /\ UNCHANGED steering
    /\ Goto(t, "idle")
    /\ UNCHANGED <<stack, joined, factoryNew, signals, armed, todo, queue, seen,
                   bounds>>

Leave(t) ==
    /\ Ready(t, "leave")
    /\ IF joined THEN Post(t, "LEAVING", "request")
                 ELSE Goto(t, "idle") /\ UNCHANGED todo
    /\ UNCHANGED <<stackVars, signals, armed, queue, seen, bounds>>

\* The leave request of a node that has been removed meanwhile does nothing; any
\* other is taken to be granted at once.
RequestLeave(t) ==
    /\ Ready(t, "request")
    /\ IF joined THEN Left ELSE UNCHANGED <<stackVars, signals>>
    /\ Goto(t, "idle")
    /\ UNCHANGED <<armed, todo, queue, seen, bounds>>

-------------------------------------------------------------------------------
(* handleBdbEvent, in the Zigbee task *)

HandleSignal ==
    /\ Ready(Zb, "idle")
    /\ signals # <<>>
    /\ signals' = Tail(signals)
    /\ UNCHANGED <<joined, factoryNew, steering, armed, queue, seen, bounds>>

HandleSkipStartup ==
    /\ HandleSignal
    /\ Head(signals).kind = "SKIP_STARTUP"
    /\ stack' = "initialising"
    /\ UNCHANGED <<pc, todo>>

HandleDeviceReboot ==
    /\ HandleSignal
    /\ Head(signals).kind = "DEVICE_REBOOT"
    /\ IF Head(signals).ok /\ ~factoryNew
         THEN Post(Zb, "JOINED", "idle")
         ELSE /\ Goto(Zb, IF Head(signals).ok THEN "join" ELSE "retry")
              /\ UNCHANGED todo
    /\ UNCHANGED stack

\* Mutant: no retry after a failed steering.
HandleSteeringNoRetry ==
    /\ HandleSignal
    /\ Head(signals).kind = "STEERING"
    /\ IF Head(signals).ok THEN Post(Zb, "JOINED", "idle")
                           ELSE Post(Zb, "JOIN_FAIL", "idle")
    /\ UNCHANGED stack

HandleNetworkSteering ==
    /\ HandleSignal
    /\ Head(signals).kind = "STEERING"
    /\ IF Head(signals).ok THEN Post(Zb, "JOINED", "idle")
                           ELSE Post(Zb, "JOIN_FAIL", "retry")
    /\ UNCHANGED stack

\* Mutant: a leave that the application did not ask for is not posted.
HandleLeaveIfAsked ==
    /\ HandleSignal
    /\ Head(signals).kind = "LEAVE"
    /\ IF calls > 0 THEN Post(Zb, "LEFT", "idle") ELSE UNCHANGED <<pc, todo>>
    /\ UNCHANGED stack

HandleLeaveNetwork ==
    /\ HandleSignal
    /\ Head(signals).kind = "LEAVE"
    /\ Post(Zb, "LEFT", "idle")
    /\ UNCHANGED stack

HandleNetworkStatus ==
    /\ HandleSignal
    /\ Head(signals).kind = "NLME_STATUS"
    /\ Post(Zb, "NLME_STATUS", "idle")
    /\ UNCHANGED stack

\* new ScheduledTask(&ZbNode::joinNetwork, this, 1000)
ScheduleRetry ==
    /\ Ready(Zb, "retry")
    /\ armed' = armed + 1
    /\ Goto(Zb, "idle")
    /\ UNCHANGED <<stackVars, signals, todo, queue, seen, bounds>>

\* Mutant: the retry timer is periodic.
RetryPeriodic ==
    /\ Ready(Timer, "idle")
    /\ armed > 0
    /\ Goto(Timer, "join")
    /\ UNCHANGED <<stackVars, signals, armed, todo, queue, seen, bounds>>

\* ScheduledTask::timerCallback: joinNetwork, then the one-shot task is deleted.
RetryFires ==
    /\ Ready(Timer, "idle")
    /\ armed > 0
    /\ armed' = armed - 1
    /\ Goto(Timer, "join")
    /\ UNCHANGED <<stackVars, signals, todo, queue, seen, bounds>>

-------------------------------------------------------------------------------
(* The application *)

\* The code does not ask whether the stack has started; its callers are to.
AppCalls(t, place) ==
    /\ stack = "ready"
    /\ Ready(t, "idle")
    /\ calls < MaxCalls
    /\ calls' = calls + 1
    /\ Goto(t, place)
    /\ UNCHANGED <<stackVars, signals, armed, todo, queue, seen, failures, incidents>>

\* The loop task takes the oldest call; the handler may join or leave.
RunHandler(place) ==
    /\ Ready(Loop, "idle")
    /\ queue # <<>>
    /\ LET h == Head(queue)[1]
       IN  seen' = [seen EXCEPT ![h] = Append(@, Head(queue)[2])]
    /\ queue' = Tail(queue)
    /\ IF place = "idle" THEN UNCHANGED calls
                         ELSE calls < MaxCalls /\ calls' = calls + 1
    /\ Goto(Loop, place)
    /\ UNCHANGED <<stackVars, signals, armed, todo, failures, incidents>>

-------------------------------------------------------------------------------
Handle == \/ HandleSkipStartup \/ HandleDeviceReboot \/ HandleNetworkSteering
          \/ HandleLeaveNetwork \/ HandleNetworkStatus \/ ScheduleRetry

Advance(t) == Enqueue(t) \/ Join(t) \/ Steer(t) \/ Leave(t) \/ RequestLeave(t)

Next == \/ Start
        \/ \E ok \in BOOLEAN : Initialised(ok) \/ SteeringEnds(ok)
        \/ RemovedByNetwork \/ NetworkStatus
        \/ Handle
        \/ RetryFires
        \/ \E t \in Tasks : Advance(t)
        \/ \E t \in Clients, place \in {"join", "leave"} : AppCalls(t, place)
        \/ \E place \in {"join", "leave", "idle"} : RunHandler(place)

(***************************************************************************)
(* Every task is scheduled, timers expire, and the stack answers what it   *)
(* was asked; the network rejects at most MaxFailures attempts.  Nobody is *)
(* obliged to call the node or to remove it from the network.              *)
(***************************************************************************)
Fairness == /\ WF_vars(Start)
            /\ WF_vars(Initialised(TRUE)) /\ WF_vars(SteeringEnds(TRUE))
            /\ WF_vars(Handle) /\ WF_vars(RetryFires)
            /\ \A t \in Tasks : WF_vars(Advance(t))
            /\ WF_vars(RunHandler("idle"))

Spec == Init /\ [][Next]_vars /\ Fairness

-------------------------------------------------------------------------------
(* Properties *)

TypeOK == /\ stack \in {"off", "starting", "initialising", "ready"}
          /\ joined \in BOOLEAN /\ factoryNew \in BOOLEAN
          /\ steering \in Nat /\ armed \in Nat
          /\ signals \in Seq([kind : {"SKIP_STARTUP", "DEVICE_REBOOT", "STEERING",
                                      "LEAVE", "NLME_STATUS"}, ok : BOOLEAN])
          /\ pc \in [Tasks -> At]
          /\ todo \in [Tasks -> Seq(Handlers \X Events)]
          /\ queue \in Seq(Handlers \X Events)
          /\ seen \in [Handlers -> Seq(Events)]
          /\ calls \in 0 .. MaxCalls
          /\ failures \in 0 .. MaxFailures
          /\ incidents \in 0 .. MaxIncidents

Count(e, s) == Cardinality({i \in DOMAIN s : s[i] = e})

\* No handler is told how an attempt to join ended before it was told that the
\* attempt began: whichever tasks post, the outcomes it has seen are no more
\* than the JOININGs it has seen, and the one JOINED of a reboot.
OutcomeAfterJoining ==
    \A h \in Handlers :
        Count("JOINED", seen[h]) + Count("JOIN_FAIL", seen[h])
            <= Count("JOINING", seen[h]) + 1

\* Events are handled long after the stack changed state, but once all is
\* handled every handler's last JOINED or LEFT tells whether the node is on
\* its network.
QuietHandlersKnow ==
    (signals = <<>> /\ queue = <<>> /\ \A t \in Tasks : todo[t] = <<>>) =>
        \A h \in Handlers :
            joined <=> \E i \in DOMAIN seen[h] :
                          /\ seen[h][i] = "JOINED"
                          /\ \A j \in DOMAIN seen[h] : j > i => seen[h][j] # "LEFT"

\* What the Zigbee task tells of the network; JOINING and LEAVING come from
\* any task.
Outcomes == {"JOINED", "LEFT", "JOIN_FAIL"}
NumOutcomes(s, n) == Cardinality({i \in 1 .. n : s[i] \in Outcomes})

\* Each failure arms one retry and each retry steers once: there are never
\* more retries armed or running than the attempt of the start plus one for
\* each call of the application.
RetryChainsBounded ==
    armed + steering
        + Cardinality({i \in DOMAIN signals : signals[i].kind = "STEERING"})
        + Cardinality({t \in Tasks : pc[t] \in {"join", "steer", "retry"}})
      <= 1 + calls

\* A node that is started, and a node whose attempt failed, joins in the end
\* without any call of the application.
JoinsInTheEnd == (stack = "starting" \/ pc[Zb] = "retry") ~> joined
===============================================================================
