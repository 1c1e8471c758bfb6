------------------------------ MODULE ZbNodeProofs ------------------------------
(***************************************************************************)
(* What ZbNode tells its handlers, for any number of handlers, client      *)
(* tasks, calls and failures.  None of the properties is inductive:        *)
(*   - before the stack is ready nothing runs (BootInv);                   *)
(*   - attempts to join are conserved: the boot, the steerings, their      *)
(*     signals and the retries together are no more than the boot and the  *)
(*     calls of the application (ChainsInv);                               *)
(*   - JOINING is in a handler's queue before the steering it announces,   *)
(*     so an attempt in progress is one that each handler has been or will *)
(*     be told of before its outcome (AnnouncedInv, and for each prefix of *)
(*     the event loop's queue, PrefixInv);                                 *)
(*   - there is one story of outcomes: the handlers have all been told a   *)
(*     prefix of it, and the queue and the Zigbee task hold its rest       *)
(*     (StoryInv).  With the signals not yet handled it tells whether the  *)
(*     node is joined;                                                     *)
(*  - what the history ZbNodeNews keeps is told in rounds over the handlers:*)
(*    what is left of one to queue is for the handlers registered last     *)
(*    (SuffixInv), so up to any place of the queue an earlier handler is   *)
(*    level with a later one or one outcome ahead (RoundInv): this is why  *)
(*    the node implements NodeNews (TellsInTurnHolds).                     *)
(***************************************************************************)
EXTENDS ZbNodeNews, SequenceCounts

SignalKinds == {"SKIP_STARTUP", "DEVICE_REBOOT", "STEERING", "LEAVE", "NLME_STATUS"}
SignalSet == [kind : SignalKinds, ok : BOOLEAN]

BootInv ==
    /\ stack \in {"off", "initialising"} => signals = <<>>
    /\ stack = "starting" => Len(signals) = 1 /\ signals[1].kind = "SKIP_STARTUP"
    /\ stack = "ready" => \A i \in 1 .. Len(signals) : signals[i].kind # "SKIP_STARTUP"
    /\ stack # "ready" => /\ joined = FALSE
                          /\ steering = 0 /\ armed = 0 /\ queue = <<>>
                          /\ \A t \in Tasks : pc[t] = "idle" /\ todo[t] = <<>>

\* The boot, its signals and the steerings: the attempts in the stack's hands.
Attempts == {"SKIP_STARTUP", "DEVICE_REBOOT", "STEERING"}
AttemptSignals == {s \in SignalSet : s.kind \in Attempts}
InFlight == steering + CountIn(AttemptSignals, signals)
                + Hit({"off", "initialising"}, stack)

Trials == {"join", "steer", "retry"}
Trying == Among(Tasks, pc, Trials)

ChainsInv == /\ IsFiniteSet(Trying)
             /\ armed + InFlight + Cardinality(Trying) <= 1 + calls

For(h, E) == {h} \X E
Ended == {"JOINED", "JOIN_FAIL"}
Begun == {"JOINING"}

\* Only the Zigbee task tells outcomes.
SpeakerInv == \A t \in Tasks \ {Zb} : \A i \in 1 .. Len(todo[t]) : todo[t][i][2] \notin Outcomes

\* The events of E that handler h has been told or that are queued for it.
Told(h, E) == CountIn(E, seen[h]) + CountIn(For(h, E), queue)

\* The tasks about to steer that have queued their JOINING for h.
Announced(h) == {t \in Tasks : /\ pc[t] = "steer"
                               /\ \A i \in 1 .. Len(todo[t]) : todo[t][i] \notin For(h, Begun)}

AnnouncedInv ==
    \A h \in Handlers :
        /\ IsFiniteSet(Announced(h))
        /\ Told(h, Ended) + CountIn(For(h, Ended), todo[Zb]) + InFlight + Cardinality(Announced(h))
             <= Told(h, Begun) + 1

PrefixInv ==
    \A h \in Handlers : \A n \in 0 .. Len(queue) :
        CountIn(Ended, seen[h]) + CountTo(For(h, Ended), queue, n)
          <= CountIn(Begun, seen[h]) + CountTo(For(h, Begun), queue, n) + 1

\* Handler h has been told `story` up to somewhere; the queue and then the
\* Zigbee task hold the rest.
Tells(h, story) ==
    /\ \A i \in 1 .. Len(seen[h]) :
         seen[h][i] \in Outcomes => story[CountTo(Outcomes, seen[h], i)] = seen[h][i]
    /\ \A i \in 1 .. Len(queue) :
         queue[i] \in For(h, Outcomes) =>
            story[CountIn(Outcomes, seen[h]) + CountTo(For(h, Outcomes), queue, i)] = queue[i][2]
    /\ \A i \in 1 .. Len(todo[Zb]) :
         todo[Zb][i] \in For(h, Outcomes) =>
            story[Told(h, Outcomes) + CountTo(For(h, Outcomes), todo[Zb], i)] = todo[Zb][i][2]
    /\ Len(story) = Told(h, Outcomes) + CountIn(For(h, Outcomes), todo[Zb])

\* The last element of s in J or L is in J.
LastIn(s, J, L) == \E i \in 1 .. Len(s) : /\ s[i] \in J
                                          /\ \A j \in 1 .. Len(s) : j > i => s[j] \notin L
Free(s, L) == \A i \in 1 .. Len(s) : s[i] \notin L

\* The signals that will be told as JOINED and as LEFT.
JoinSignals == {s \in SignalSet : s.ok /\ \/ s.kind = "STEERING"
                                          \/ s.kind = "DEVICE_REBOOT" /\ ~factoryNew}
LeaveSignals == {s \in SignalSet : s.kind = "LEAVE"}

\* What the story comes to once the pending signals are told.
EndsJoined(story) == \/ LastIn(signals, JoinSignals, LeaveSignals)
                     \/ /\ Free(signals, LeaveSignals)
                        /\ LastIn(story, {"JOINED"}, {"LEFT"})

StoryIs(story) == /\ \A h \in Handlers : Tells(h, story)
                  /\ joined <=> EndsJoined(story)

StoryInv == \E story \in Seq(Outcomes) : StoryIs(story)

-------------------------------------------------------------------------------
(* Types *)

LEMMA CallsForIs ==
  ASSUME NEW e
  PROVE  /\ DOMAIN CallsFor(e) = 1 .. NumHandlers
         /\ Len(CallsFor(e)) = NumHandlers
         /\ \A h \in Handlers : CallsFor(e)[h] = <<h, e>>
         /\ e \in Events => CallsFor(e) \in Seq(Handlers \X Events)
  <1>1. NumHandlers \in Nat
    BY NodeAssumption
  <1>2. CallsFor(e) \in [1 .. NumHandlers -> Handlers \X {e}]
    BY DEF CallsFor, Handlers
  <1>3. CallsFor(e) \in Seq(Handlers \X {e})
    BY <1>1, <1>2, SeqDef
  <1>4. Len(CallsFor(e)) = NumHandlers
    BY <1>1, <1>2, <1>3, LenProperties
  <1>5. e \in Events => CallsFor(e) \in [1 .. NumHandlers -> Handlers \X Events]
    BY DEF CallsFor, Handlers
  <1>6. e \in Events => CallsFor(e) \in Seq(Handlers \X Events)
    BY <1>1, <1>5, SeqDef
  <1>7. QED
    BY <1>2, <1>4, <1>6 DEF CallsFor, Handlers

LEMMA TypeInit == Init => TypeOK
  <1> SUFFICES ASSUME Init PROVE TypeOK
    OBVIOUS
  <1>1. calls \in 0 .. MaxCalls /\ failures \in 0 .. MaxFailures
        /\ incidents \in 0 .. MaxIncidents
    BY NodeAssumption DEF Init
  <1>2. pc \in [Tasks -> At] /\ todo \in [Tasks -> Seq(Handlers \X Events)]
        /\ seen \in [Handlers -> Seq(Events)]
    BY DEF Init, At
  <1>3. joined \in BOOLEAN /\ factoryNew \in BOOLEAN
    BY DEF Init
  <1>4. stack = "off" /\ steering = 0 /\ armed = 0 /\ signals = <<>> /\ queue = <<>>
    BY DEF Init
  <1>5. QED
    BY <1>1, <1>2, <1>3, <1>4 DEF TypeOK

\* A signal the stack adds.
LEMMA SignalType ==
  ASSUME TypeOK, NEW kind \in SignalKinds, NEW ok \in BOOLEAN, Signal(kind, ok)
  PROVE  signals' \in Seq(SignalSet)
  <1>1. [kind |-> kind, ok |-> ok] \in SignalSet
    BY DEF SignalSet
  <1>2. signals \in Seq(SignalSet)
    BY DEF TypeOK, SignalSet, SignalKinds
  <1>3. QED
    BY <1>1, <1>2, AppendProperties DEF Signal

LEMMA PostType ==
  ASSUME TypeOK, NEW t \in Tasks, NEW e \in Events, NEW next \in At, Post(t, e, next)
  PROVE  /\ todo' \in [Tasks -> Seq(Handlers \X Events)]
         /\ pc' \in [Tasks -> At]
  BY CallsForIs DEF TypeOK, Post

LEMMA GotoType ==
  ASSUME TypeOK, NEW t \in Tasks, NEW place \in At, Goto(t, place)
  PROVE  pc' \in [Tasks -> At]
  BY DEF TypeOK, Goto

LEMMA TypeStack ==
  ASSUME TypeOK,
         \/ Start
         \/ \E ok \in BOOLEAN : Initialised(ok) \/ SteeringEnds(ok)
         \/ RemovedByNetwork \/ NetworkStatus
  PROVE  TypeOK'
  <1> USE NodeAssumption DEF TypeOK, SignalSet, SignalKinds, stackVars, bounds
  <1>1. CASE Start
    <2>1. signals' \in Seq(SignalSet)
      BY <1>1, SignalType DEF Start
    <2>2. QED
      BY <1>1, <2>1 DEF Start
  <1>2. ASSUME NEW ok \in BOOLEAN, Initialised(ok)
        PROVE  TypeOK'
    <2>1. signals' \in Seq(SignalSet)
      BY <1>2, SignalType DEF Initialised
    <2>2. failures' \in 0 .. MaxFailures /\ joined' \in BOOLEAN
      BY <1>2 DEF Initialised
    <2>3. QED
      BY <1>2, <2>1, <2>2 DEF Initialised
  <1>3. ASSUME NEW ok \in BOOLEAN, SteeringEnds(ok)
        PROVE  TypeOK'
    <2>1. signals' \in Seq(SignalSet)
      BY <1>3, SignalType DEF SteeringEnds
    <2>2. /\ failures' \in 0 .. MaxFailures /\ joined' \in BOOLEAN
          /\ factoryNew' \in BOOLEAN /\ steering' \in Nat
      BY <1>3 DEF SteeringEnds
    <2>3. QED
      BY <1>3, <2>1, <2>2 DEF SteeringEnds
  <1>4. CASE RemovedByNetwork
    <2>1. signals' \in Seq(SignalSet)
      BY <1>4, SignalType DEF RemovedByNetwork, Left
    <2>2. joined' \in BOOLEAN /\ factoryNew' \in BOOLEAN /\ UNCHANGED <<stack, steering>>
      BY <1>4 DEF RemovedByNetwork, Left
    <2>3. incidents' \in 0 .. MaxIncidents
      BY <1>4 DEF RemovedByNetwork
    <2>4. QED
      BY <1>4, <2>1, <2>2, <2>3 DEF RemovedByNetwork
  <1>5. CASE NetworkStatus
    <2>1. signals' \in Seq(SignalSet)
      BY <1>5, SignalType DEF NetworkStatus
    <2>2. QED
      BY <1>5, <2>1 DEF NetworkStatus
  <1>6. QED
    BY <1>1, <1>2, <1>3, <1>4, <1>5

LEMMA TypeHandle ==
  ASSUME TypeOK, Handle
  PROVE  TypeOK'
  <1> USE DEF TypeOK, SignalSet, SignalKinds, stackVars, bounds
  <1>1. Zb \in Tasks
    BY DEF Tasks
  <1>2. HandleSignal => signals' \in Seq(SignalSet)
    BY HeadTailProperties DEF HandleSignal
  <1>3. CASE HandleSkipStartup
    BY <1>2, <1>3 DEF HandleSkipStartup, HandleSignal
  <1>4. CASE HandleDeviceReboot
    <2>1. pc' \in [Tasks -> At] /\ todo' \in [Tasks -> Seq(Handlers \X Events)]
      <3>1. CASE Head(signals).ok /\ ~factoryNew
        <4>1. Post(Zb, "JOINED", "idle")
          BY <1>4, <3>1 DEF HandleDeviceReboot
        <4>2. QED
          BY <1>1, <4>1, PostType DEF Events, At
      <3>2. CASE ~(Head(signals).ok /\ ~factoryNew)
        <4>1. \E place \in {"join", "retry"} : Goto(Zb, place)
          BY <1>4, <3>2 DEF HandleDeviceReboot
        <4>2. UNCHANGED todo
          BY <1>4, <3>2 DEF HandleDeviceReboot
        <4>3. QED
          BY <1>1, <4>1, <4>2, GotoType DEF At
      <3>3. QED
        BY <3>1, <3>2
    <2>2. QED
      BY <1>2, <1>4, <2>1 DEF HandleDeviceReboot, HandleSignal
  <1>5. CASE HandleNetworkSteering
    <2>1. \E e \in {"JOINED", "JOIN_FAIL"}, next \in {"idle", "retry"} : Post(Zb, e, next)
      BY <1>5 DEF HandleNetworkSteering
    <2>2. pc' \in [Tasks -> At] /\ todo' \in [Tasks -> Seq(Handlers \X Events)]
      BY <1>1, <2>1, PostType DEF Events, At
    <2>3. QED
      BY <1>2, <1>5, <2>2 DEF HandleNetworkSteering, HandleSignal
  <1>6. CASE HandleLeaveNetwork
    <2>1. pc' \in [Tasks -> At] /\ todo' \in [Tasks -> Seq(Handlers \X Events)]
      BY <1>1, <1>6, PostType DEF HandleLeaveNetwork, Events, At
    <2>2. QED
      BY <1>2, <1>6, <2>1 DEF HandleLeaveNetwork, HandleSignal
  <1>7. CASE HandleNetworkStatus
    <2>1. pc' \in [Tasks -> At] /\ todo' \in [Tasks -> Seq(Handlers \X Events)]
      BY <1>1, <1>7, PostType DEF HandleNetworkStatus, Events, At
    <2>2. QED
      BY <1>2, <1>7, <2>1 DEF HandleNetworkStatus, HandleSignal
  <1>8. CASE ScheduleRetry
    BY <1>1, <1>8, GotoType DEF ScheduleRetry, At
  <1>9. QED
    BY <1>3, <1>4, <1>5, <1>6, <1>7, <1>8 DEF Handle

LEMMA TypeAdvance ==
  ASSUME TypeOK, NEW t \in Tasks, Advance(t)
  PROVE  TypeOK'
  <1> USE DEF TypeOK, SignalSet, SignalKinds, stackVars, bounds
  <1>1. CASE Enqueue(t)
    <2>1. todo[t] \in Seq(Handlers \X Events) /\ todo[t] # <<>>
      BY <1>1 DEF Enqueue
    <2>2. Head(todo[t]) \in Handlers \X Events /\ Tail(todo[t]) \in Seq(Handlers \X Events)
      BY <2>1, HeadTailProperties
    <2>3. queue' \in Seq(Handlers \X Events)
      BY <1>1, <2>2, AppendProperties DEF Enqueue
    <2>4. todo' \in [Tasks -> Seq(Handlers \X Events)]
      BY <1>1, <2>2 DEF Enqueue
    <2>5. QED
      BY <1>1, <2>3, <2>4 DEF Enqueue
  <1>2. CASE Join(t)
    <2>1. pc' \in [Tasks -> At] /\ todo' \in [Tasks -> Seq(Handlers \X Events)]
      BY <1>2, PostType, GotoType DEF Join, Events, At
    <2>2. QED
      BY <1>2, <2>1 DEF Join
  <1>3. CASE Steer(t)
    <2>1. pc' \in [Tasks -> At] /\ steering' \in Nat
      BY <1>3, GotoType DEF Steer, At
    <2>2. QED
      BY <1>3, <2>1 DEF Steer
  <1>4. CASE Leave(t)
    <2>1. pc' \in [Tasks -> At] /\ todo' \in [Tasks -> Seq(Handlers \X Events)]
      BY <1>4, PostType, GotoType DEF Leave, Events, At
    <2>2. QED
      BY <1>4, <2>1 DEF Leave
  <1>5. CASE RequestLeave(t)
    <2>1. pc' \in [Tasks -> At]
      BY <1>5, GotoType DEF RequestLeave, At
    <2>2. signals' \in Seq(SignalSet) /\ joined' \in BOOLEAN /\ factoryNew' \in BOOLEAN
          /\ UNCHANGED <<stack, steering>>
      BY <1>5, SignalType DEF RequestLeave, Left
    <2>3. QED
      BY <1>5, <2>1, <2>2 DEF RequestLeave
  <1>6. QED
    BY <1>1, <1>2, <1>3, <1>4, <1>5 DEF Advance

LEMMA TypeRest ==
  ASSUME TypeOK,
         \/ RetryFires
         \/ \E t \in Clients, place \in {"join", "leave"} : AppCalls(t, place)
         \/ \E place \in {"join", "leave", "idle"} : RunHandler(place)
  PROVE  TypeOK'
  <1> USE NodeAssumption DEF TypeOK, SignalSet, SignalKinds, stackVars, bounds
  <1>1. CASE RetryFires
    <2>1. pc' \in [Tasks -> At] /\ armed' \in Nat
      BY <1>1, GotoType DEF RetryFires, At, Tasks
    <2>2. QED
      BY <1>1, <2>1 DEF RetryFires
  <1>2. ASSUME NEW t \in Clients, NEW place \in {"join", "leave"}, AppCalls(t, place)
        PROVE  TypeOK'
    <2>1. pc' \in [Tasks -> At] /\ calls' \in 0 .. MaxCalls
      BY <1>2, GotoType DEF AppCalls, At, Tasks
    <2>2. QED
      BY <1>2, <2>1 DEF AppCalls
  <1>3. ASSUME NEW place \in {"join", "leave", "idle"}, RunHandler(place)
        PROVE  TypeOK'
    <2>1. Head(queue) \in Handlers \X Events /\ queue' \in Seq(Handlers \X Events)
      BY <1>3, HeadTailProperties DEF RunHandler
    <2>2. Append(seen[Head(queue)[1]], Head(queue)[2]) \in Seq(Events)
      BY <2>1, AppendProperties
    <2>3. seen' \in [Handlers -> Seq(Events)]
      BY <1>3, <2>1, <2>2 DEF RunHandler
    <2>4. pc' \in [Tasks -> At]
      <3>1. Goto(Loop, place)
        BY <1>3 DEF RunHandler
      <3>2. Loop \in Tasks /\ place \in At
        BY DEF At, Tasks
      <3>3. QED
        BY <3>1, <3>2, GotoType
    <2>5. calls' \in 0 .. MaxCalls
      <3>1. UNCHANGED calls \/ (calls < MaxCalls /\ calls' = calls + 1)
        BY <1>3 DEF RunHandler
      <3>2. QED
        BY <3>1
    <2>6. QED
      BY <1>3, <2>1, <2>3, <2>4, <2>5 DEF RunHandler
  <1>4. QED
    BY <1>1, <1>2, <1>3

LEMMA TypeStep ==
  ASSUME TypeOK, [Next]_vars
  PROVE  TypeOK'
  <1>1. CASE UNCHANGED vars
    BY <1>1 DEF vars, stackVars, bounds, TypeOK
  <1>2. CASE Next
    BY <1>2, TypeStack, TypeHandle, TypeAdvance, TypeRest DEF Next
  <1>3. QED
    BY <1>1, <1>2

-------------------------------------------------------------------------------
(* Before the stack is ready *)

LEMMA SignalIs ==
  ASSUME TypeOK, NEW kind \in SignalKinds, NEW ok \in BOOLEAN, Signal(kind, ok)
  PROVE  /\ Len(signals) \in Nat /\ Len(signals') = Len(signals) + 1
         /\ \A i \in 1 .. Len(signals) : signals'[i] = signals[i]
         /\ signals'[Len(signals) + 1] = [kind |-> kind, ok |-> ok]
         /\ signals'[Len(signals) + 1].kind = kind
  <1>1. [kind |-> kind, ok |-> ok] \in SignalSet /\ signals \in Seq(SignalSet)
    BY DEF SignalSet, TypeOK, SignalKinds
  <1>2. QED
    BY <1>1, AppendProperties, LenProperties DEF Signal

LEMMA HandleSignalIs ==
  ASSUME TypeOK, HandleSignal
  PROVE  /\ Head(signals) = signals[1] /\ Head(signals) \in SignalSet
         /\ Len(signals) \in Nat \ {0} /\ Len(signals') = Len(signals) - 1
         /\ \A i \in 1 .. Len(signals') : signals'[i] = signals[i + 1]
  <1>1. signals \in Seq(SignalSet) /\ signals # <<>> /\ signals' = Tail(signals)
    BY DEF TypeOK, SignalSet, SignalKinds, HandleSignal
  <1>2. QED
    BY <1>1, HeadTailProperties, EmptySeq

LEMMA BootInit == Init => BootInv
  BY DEF Init, BootInv

\* A stack that is not ready takes its next step of the boot; nothing else can
\* happen.
LEMMA BootUp ==
  ASSUME TypeOK, BootInv, stack # "ready", Next
  PROVE  BootInv'
  <1> USE DEF BootInv
  <1>1. CASE Start
    <2>1. Signal("SKIP_STARTUP", TRUE) /\ signals = <<>> /\ stack' = "starting"
          /\ joined' = FALSE /\ UNCHANGED <<steering, armed, pc, todo, queue>>
      BY <1>1 DEF Start
    <2>2. Len(signals) = 0
      BY <2>1, EmptySeq
    <2>3. "SKIP_STARTUP" \in SignalKinds /\ 0 + 1 = 1
      BY DEF SignalKinds
    <2>4. Len(signals') = 1 /\ signals'[1].kind = "SKIP_STARTUP"
      BY <2>1, <2>2, <2>3, SignalIs
    <2>5. QED
      BY <2>1, <2>4
  <1>2. ASSUME NEW ok \in BOOLEAN, Initialised(ok)
        PROVE  BootInv'
    <2>1. Signal("DEVICE_REBOOT", ok) /\ signals = <<>> /\ stack' = "ready"
      BY <1>2 DEF Initialised
    <2>2. Len(signals) = 0
      BY <2>1, EmptySeq
    <2>3. "DEVICE_REBOOT" \in SignalKinds /\ 0 + 1 = 1
      BY DEF SignalKinds
    <2>4. Len(signals') = 1 /\ signals'[1].kind = "DEVICE_REBOOT"
      BY <2>1, <2>2, <2>3, SignalIs
    <2>5. QED
      BY <2>1, <2>4
  <1>3. CASE HandleSkipStartup
    <2>1. HandleSignal /\ stack' = "initialising" /\ signals # <<>>
          /\ UNCHANGED <<joined, steering, armed, pc, todo, queue>>
      BY <1>3 DEF HandleSkipStartup, HandleSignal
    <2>2. stack = "starting" /\ Len(signals) = 1
      BY <2>1 DEF TypeOK
    <2>3. Len(signals') = 0 /\ signals' \in Seq(SignalSet)
      BY <2>1, <2>2, HandleSignalIs, HeadTailProperties
         DEF HandleSignal, TypeOK, SignalSet, SignalKinds
    <2>4. signals' = <<>>
      BY <2>3, EmptySeq
    <2>5. QED
      BY <2>1, <2>4
  <1>4. ASSUME HandleSignal, Head(signals).kind # "SKIP_STARTUP"
        PROVE  FALSE
    <2>1. signals # <<>>
      BY <1>4 DEF HandleSignal
    <2>2. stack = "starting" /\ signals[1].kind = "SKIP_STARTUP"
      BY <2>1 DEF TypeOK
    <2>3. QED
      BY <1>4, <2>2, HandleSignalIs
  <1>5. ~(\/ HandleDeviceReboot \/ HandleNetworkSteering \/ HandleLeaveNetwork
          \/ HandleNetworkStatus)
    BY <1>4 DEF HandleDeviceReboot, HandleNetworkSteering, HandleLeaveNetwork,
                HandleNetworkStatus
  <1>6. /\ joined = FALSE /\ steering = 0 /\ armed = 0 /\ queue = <<>>
        /\ \A t \in Tasks : pc[t] = "idle" /\ todo[t] = <<>>
    OBVIOUS
  <1>7. ~RetryFires /\ ~RemovedByNetwork /\ ~NetworkStatus
    <2>1. ~joined /\ ~(armed > 0)
      BY <1>6
    <2>2. QED
      BY <2>1 DEF RetryFires, RemovedByNetwork, NetworkStatus
  <1>8. ~ScheduleRetry
    BY <1>6 DEF ScheduleRetry, Ready, Tasks
  <1>9. \A ok \in BOOLEAN : ~SteeringEnds(ok)
    BY <1>6 DEF SteeringEnds
  <1>10. \A t \in Clients, place \in {"join", "leave"} : ~AppCalls(t, place)
    BY DEF AppCalls
  <1>11. \A place \in {"join", "leave", "idle"} : ~RunHandler(place)
    BY <1>6 DEF RunHandler
  <1>12. \A t \in Tasks : ~Advance(t)
    BY <1>6 DEF Advance, Enqueue, Join, Steer, Leave, RequestLeave, Ready
  <1>13. QED
    BY <1>1, <1>2, <1>3, <1>5, <1>7, <1>8, <1>9, <1>10, <1>11, <1>12 DEF Next, Handle

LEMMA LeftIs ==
  ASSUME TypeOK, Left
  PROVE  /\ Signal("LEAVE", TRUE) /\ UNCHANGED <<stack, steering>>
         /\ joined' = FALSE /\ factoryNew' = TRUE
  BY DEF Left

\* What a step of a ready stack does to the signals.
LEMMA ReadyStep ==
  ASSUME TypeOK, BootInv, stack = "ready", [Next]_vars
  PROVE  /\ stack' = "ready"
         /\ \/ UNCHANGED signals
            \/ HandleSignal
            \/ \E kind \in SignalKinds \ {"SKIP_STARTUP"}, ok \in BOOLEAN : Signal(kind, ok)
  <1> USE DEF SignalKinds, stackVars, vars
  <1>1. CASE UNCHANGED vars
    BY <1>1
  <1>2. ASSUME NEW ok \in BOOLEAN, SteeringEnds(ok)
        PROVE  UNCHANGED stack /\ Signal("STEERING", ok)
    BY <1>2 DEF SteeringEnds
  <1>3. CASE RemovedByNetwork
    BY <1>3, LeftIs DEF RemovedByNetwork
  <1>4. CASE NetworkStatus
    BY <1>4 DEF NetworkStatus
  <1>5. CASE Handle
    <2>1. CASE HandleSkipStartup
      <3>1. HandleSignal /\ Head(signals).kind = "SKIP_STARTUP"
        BY <2>1 DEF HandleSkipStartup
      <3>2. QED
        BY <3>1, HandleSignalIs DEF BootInv
    <2>2. CASE ScheduleRetry
      BY <2>2 DEF ScheduleRetry
    <2>3. QED
      BY <1>5, <2>1, <2>2 DEF Handle, HandleDeviceReboot, HandleNetworkSteering,
                              HandleLeaveNetwork, HandleNetworkStatus
  <1>6. ASSUME NEW t \in Tasks, Advance(t)
        PROVE  UNCHANGED stack /\ (UNCHANGED signals \/ Signal("LEAVE", TRUE))
    BY <1>6, LeftIs DEF Advance, Enqueue, Join, Steer, Leave, RequestLeave
  <1>7. ASSUME \/ RetryFires
               \/ \E t \in Clients, place \in {"join", "leave"} : AppCalls(t, place)
               \/ \E place \in {"join", "leave", "idle"} : RunHandler(place)
        PROVE  UNCHANGED <<stack, signals>>
    BY <1>7 DEF RetryFires, AppCalls, RunHandler
  <1>8. ~Start /\ \A ok \in BOOLEAN : ~Initialised(ok)
    BY DEF Start, Initialised
  <1>9. QED
    BY <1>1, <1>2, <1>3, <1>4, <1>5, <1>6, <1>7, <1>8 DEF Next

LEMMA BootStep ==
  ASSUME TypeOK, BootInv, [Next]_vars
  PROVE  BootInv'
  <1>1. CASE UNCHANGED vars
    BY <1>1 DEF vars, stackVars, bounds, BootInv
  <1>2. CASE Next /\ stack # "ready"
    BY <1>2, BootUp
  <1>3. CASE stack = "ready"
    <2>1. \A i \in 1 .. Len(signals) : signals[i].kind # "SKIP_STARTUP"
      BY <1>3 DEF BootInv
    <2>2. \A i \in 1 .. Len(signals') : signals'[i].kind # "SKIP_STARTUP"
      <3>1. CASE UNCHANGED signals
        BY <2>1, <3>1
      <3>2. CASE HandleSignal
        BY <2>1, <3>2, HandleSignalIs
      <3>3. ASSUME NEW kind \in SignalKinds \ {"SKIP_STARTUP"}, NEW ok \in BOOLEAN,
                   Signal(kind, ok)
            PROVE  \A i \in 1 .. Len(signals') : signals'[i].kind # "SKIP_STARTUP"
        <4>1. /\ \A i \in 1 .. Len(signals) : signals'[i] = signals[i]
              /\ Len(signals) \in Nat /\ Len(signals') = Len(signals) + 1
              /\ signals'[Len(signals) + 1].kind # "SKIP_STARTUP"
          BY <3>3, SignalIs
        <4>2. QED
          BY <2>1, <4>1
      <3>4. QED
        BY <1>3, <3>1, <3>2, <3>3, ReadyStep
    <2>3. stack' = "ready"
      BY <1>3, ReadyStep
    <2>4. QED
      BY <2>2, <2>3 DEF BootInv
  <1>4. QED
    BY <1>1, <1>2, <1>3

-------------------------------------------------------------------------------
(* Attempts are conserved *)

LEMMA SignalCount ==
  ASSUME TypeOK, NEW kind \in SignalKinds, NEW ok \in BOOLEAN, Signal(kind, ok)
  PROVE  CountIn(AttemptSignals, signals')
           = CountIn(AttemptSignals, signals) + Hit(Attempts, kind)
  <1> DEFINE new == [kind |-> kind, ok |-> ok]
  <1>1. new \in SignalSet /\ signals \in Seq(SignalSet)
    BY DEF SignalSet, TypeOK, SignalKinds
  <1>2. Hit(AttemptSignals, new) = Hit(Attempts, kind)
    BY <1>1 DEF Hit, AttemptSignals
  <1>3. signals' = Append(signals, new)
    BY DEF Signal
  <1> HIDE DEF new
  <1>4. CountIn(AttemptSignals, Append(signals, new))
          = CountIn(AttemptSignals, signals) + Hit(AttemptSignals, new)
    BY <1>1, CountAppend
  <1>5. QED
    BY <1>2, <1>3, <1>4

LEMMA HandleCount ==
  ASSUME TypeOK, HandleSignal
  PROVE  /\ CountIn(AttemptSignals, signals)
              = Hit(Attempts, Head(signals).kind) + CountIn(AttemptSignals, signals')
         /\ CountIn(AttemptSignals, signals') \in Nat
  <1>1. signals \in Seq(SignalSet) /\ signals # <<>> /\ signals' = Tail(signals)
        /\ Head(signals) \in SignalSet
    BY HandleSignalIs DEF TypeOK, SignalSet, SignalKinds, HandleSignal
  <1>2. Hit(AttemptSignals, Head(signals)) = Hit(Attempts, Head(signals).kind)
    BY <1>1 DEF Hit, AttemptSignals
  <1>3. CountIn(AttemptSignals, signals)
          = Hit(AttemptSignals, Head(signals)) + CountIn(AttemptSignals, Tail(signals))
    BY <1>1, CountTail
  <1>4. Tail(signals) \in Seq(SignalSet)
    BY <1>1, HeadTailProperties
  <1>5. CountIn(AttemptSignals, Tail(signals)) \in Nat
    BY <1>4, CountInType
  <1>6. QED
    BY <1>1, <1>2, <1>3, <1>5

LEMMA InFlightType ==
  ASSUME TypeOK
  PROVE  /\ InFlight \in Nat /\ CountIn(AttemptSignals, signals) \in Nat
         /\ steering \in Nat
  <1>1. signals \in Seq(SignalSet)
    BY DEF TypeOK, SignalSet, SignalKinds
  <1>2. CountIn(AttemptSignals, signals) \in Nat
    BY <1>1, CountInType
  <1>3. QED
    BY <1>2 DEF TypeOK, InFlight, Hit

\* The stack passes an attempt on: from its boot or a steering to a signal.
LEMMA InFlightStack ==
  ASSUME TypeOK,
         \/ Start
         \/ \E ok \in BOOLEAN : Initialised(ok) \/ SteeringEnds(ok)
         \/ RemovedByNetwork \/ NetworkStatus
  PROVE  InFlight' = InFlight
  <1> USE InFlightType DEF InFlight
  <1>1. CASE Start
    <2>1. Signal("SKIP_STARTUP", TRUE) /\ stack = "off" /\ stack' = "starting"
          /\ steering' = steering
      BY <1>1 DEF Start
    <2>2. CountIn(AttemptSignals, signals') = CountIn(AttemptSignals, signals) + 1
      BY <2>1, SignalCount DEF SignalKinds, Attempts, Hit
    <2>3. QED
      BY <2>1, <2>2 DEF Hit
  <1>2. ASSUME NEW ok \in BOOLEAN, Initialised(ok)
        PROVE  InFlight' = InFlight
    <2>1. Signal("DEVICE_REBOOT", ok) /\ stack = "initialising" /\ stack' = "ready"
          /\ steering' = steering
      BY <1>2 DEF Initialised
    <2>2. CountIn(AttemptSignals, signals') = CountIn(AttemptSignals, signals) + 1
      BY <2>1, SignalCount DEF SignalKinds, Attempts, Hit
    <2>3. QED
      BY <2>1, <2>2 DEF Hit
  <1>3. ASSUME NEW ok \in BOOLEAN, SteeringEnds(ok)
        PROVE  InFlight' = InFlight
    <2>1. Signal("STEERING", ok) /\ stack' = stack /\ steering' = steering - 1
      BY <1>3 DEF SteeringEnds
    <2>2. CountIn(AttemptSignals, signals') = CountIn(AttemptSignals, signals) + 1
      BY <2>1, SignalCount DEF SignalKinds, Attempts, Hit
    <2>3. QED
      BY <2>1, <2>2 DEF Hit
  <1>4. ASSUME Signal("LEAVE", TRUE) \/ Signal("NLME_STATUS", TRUE), UNCHANGED <<stack, steering>>
        PROVE  InFlight' = InFlight
    <2>1. CountIn(AttemptSignals, signals') = CountIn(AttemptSignals, signals) + 0
      BY <1>4, SignalCount DEF SignalKinds, Attempts, Hit
    <2>2. QED
      BY <1>4, <2>1 DEF Hit
  <1>5. CASE RemovedByNetwork
    BY <1>4, <1>5 DEF RemovedByNetwork, Left
  <1>6. CASE NetworkStatus
    BY <1>4, <1>6 DEF NetworkStatus, stackVars
  <1>7. QED
    BY <1>1, <1>2, <1>3, <1>5, <1>6

\* The Zigbee task takes an attempt out of the signals when it is one.
LEMMA InFlightHandle ==
  ASSUME TypeOK, HandleSignal
  PROVE  /\ InFlight' \in Nat
         /\ HandleSkipStartup => InFlight' <= InFlight
         /\ UNCHANGED stack => InFlight' = InFlight - Hit(Attempts, Head(signals).kind)
  <1> DEFINE before == CountIn(AttemptSignals, signals)
             after == CountIn(AttemptSignals, signals')
             taken == Hit(Attempts, Head(signals).kind)
             boot == Hit({"off", "initialising"}, stack)
             bootAfter == Hit({"off", "initialising"}, stack')
  <1>1. before = taken + after /\ after \in Nat
    BY HandleCount
  <1>2. steering' = steering /\ steering \in Nat
    BY DEF HandleSignal, TypeOK
  <1>3. taken \in {0, 1} /\ boot \in {0, 1} /\ bootAfter \in {0, 1}
    BY DEF Hit
  <1>4. InFlight = steering + before + boot /\ InFlight' = steering' + after + bootAfter
    BY DEF InFlight
  <1>5. HandleSkipStartup => taken = 1
    BY DEF HandleSkipStartup, Hit, Attempts
  <1>6. UNCHANGED stack => bootAfter = boot
    BY DEF Hit
  <1> HIDE DEF before, after, taken, boot, bootAfter
  <1>7. /\ InFlight' \in Nat
        /\ HandleSkipStartup => InFlight' <= InFlight
        /\ UNCHANGED stack => InFlight' = InFlight - taken
    BY <1>1, <1>2, <1>3, <1>4, <1>5, <1>6
  <1>8. QED
    BY <1>7 DEF taken

LEMMA InFlightSame ==
  ASSUME UNCHANGED <<stack, steering, signals>>
  PROVE  InFlight' = InFlight
  BY DEF InFlight

LEMMA InFlightLeave ==
  ASSUME TypeOK, NEW t \in Tasks, RequestLeave(t)
  PROVE  InFlight' = InFlight
  <1>1. CASE joined
    <2>1. Signal("LEAVE", TRUE) /\ UNCHANGED <<stack, steering>>
      BY <1>1 DEF RequestLeave, Left
    <2>2. CountIn(AttemptSignals, signals') = CountIn(AttemptSignals, signals) + 0
      BY <2>1, SignalCount DEF SignalKinds, Attempts, Hit
    <2>3. QED
      BY <2>1, <2>2, InFlightType DEF InFlight, Hit
  <1>2. CASE ~joined
    BY <1>2, InFlightSame DEF RequestLeave, stackVars
  <1>3. QED
    BY <1>1, <1>2

LEMMA TryingMove ==
  ASSUME TypeOK, IsFiniteSet(Trying), NEW t \in Tasks, NEW place, Goto(t, place)
  PROVE  /\ IsFiniteSet(Trying') /\ Cardinality(Trying) \in Nat
         /\ Cardinality(Trying')
              = Cardinality(Trying) - Hit(Trials, pc[t]) + Hit(Trials, place)
  <1>1. pc'[t] = place /\ \A u \in Tasks \ {t} : pc'[u] = pc[u]
    BY DEF TypeOK, Goto
  <1> DEFINE before == pc
             after == pc'
  <1>2. IsFiniteSet(Among(Tasks, before, Trials)) /\ after[t] = place
        /\ \A u \in Tasks \ {t} : after[u] = before[u]
    BY <1>1 DEF Trying
  <1> HIDE DEF before, after
  <1>3. /\ IsFiniteSet(Among(Tasks, after, Trials)) /\ Cardinality(Among(Tasks, before, Trials)) \in Nat
        /\ Cardinality(Among(Tasks, after, Trials))
              = Cardinality(Among(Tasks, before, Trials)) - Hit(Trials, before[t]) + Hit(Trials, after[t])
    BY <1>2, AmongMove
  <1>4. QED
    BY <1>1, <1>3 DEF Trying, before, after

LEMMA ChainsInit == Init => ChainsInv
  <1> SUFFICES ASSUME Init PROVE ChainsInv
    OBVIOUS
  <1>1. Trying = {}
    BY DEF Init, Trying, Among, Trials
  <1>2. InFlight = 1
    BY CountInEmpty DEF Init, InFlight, Hit
  <1>3. QED
    BY <1>1, <1>2, FS_EmptySet DEF ChainsInv, Init

LEMMA ChainsHandle ==
  ASSUME TypeOK, ChainsInv, Handle
  PROVE  ChainsInv'
  <1> USE InFlightType DEF ChainsInv
  <1>1. Zb \in Tasks /\ calls \in Nat /\ armed \in Nat /\ Cardinality(Trying) \in Nat
    BY FS_CardinalityType DEF Tasks, TypeOK
  <1>2. HandleSignal => UNCHANGED <<armed, calls>> /\ pc[Zb] = "idle"
    BY DEF HandleSignal, bounds, Ready
  <1>3. CASE HandleSkipStartup
    <2>1. HandleSignal /\ UNCHANGED pc
      BY <1>3 DEF HandleSkipStartup
    <2>2. Trying' = Trying
      BY <2>1 DEF Trying, Among
    <2>3. InFlight' <= InFlight /\ InFlight' \in Nat
      BY <1>3, <2>1, InFlightHandle
    <2>4. QED
      BY <1>1, <1>2, <2>1, <2>2, <2>3
  <1>4. ASSUME HandleSignal, UNCHANGED stack, NEW place, Goto(Zb, place),
               Hit(Trials, place) <= Hit(Attempts, Head(signals).kind)
        PROVE  ChainsInv'
    <2>1. IsFiniteSet(Trying') /\ Cardinality(Trying') = Cardinality(Trying) + Hit(Trials, place)
      BY <1>1, <1>2, <1>4, TryingMove DEF Hit, Trials
    <2>2. InFlight' = InFlight - Hit(Attempts, Head(signals).kind)
      BY <1>4, InFlightHandle
    <2>3. Hit(Trials, place) \in Nat /\ Hit(Attempts, Head(signals).kind) \in Nat
      BY DEF Hit
    <2>4. QED
      BY <1>1, <1>2, <1>4, <2>1, <2>2, <2>3
  <1>5. CASE HandleDeviceReboot
    <2>1. HandleSignal /\ UNCHANGED stack /\ Hit(Attempts, Head(signals).kind) = 1
      BY <1>5 DEF HandleDeviceReboot, Hit, Attempts
    <2>2. \E place \in {"idle", "join", "retry"} : Goto(Zb, place)
      BY <1>5 DEF HandleDeviceReboot, Post, Goto
    <2>3. \A place : Hit(Trials, place) <= 1
      BY DEF Hit
    <2>4. QED
      BY <1>4, <2>1, <2>2, <2>3
  <1>6. CASE HandleNetworkSteering
    <2>1. HandleSignal /\ UNCHANGED stack /\ Hit(Attempts, Head(signals).kind) = 1
      BY <1>6 DEF HandleNetworkSteering, Hit, Attempts
    <2>2. \E place \in {"idle", "retry"} : Goto(Zb, place)
      BY <1>6 DEF HandleNetworkSteering, Post, Goto
    <2>3. \A place : Hit(Trials, place) <= 1
      BY DEF Hit
    <2>4. QED
      BY <1>4, <2>1, <2>2, <2>3
  <1>7. CASE HandleLeaveNetwork \/ HandleNetworkStatus
    <2>1. HandleSignal /\ UNCHANGED stack /\ Goto(Zb, "idle")
      BY <1>7 DEF HandleLeaveNetwork, HandleNetworkStatus, Post, Goto
    <2>2. Hit(Trials, "idle") = 0 /\ Hit(Attempts, Head(signals).kind) \in {0, 1}
      BY DEF Hit, Trials
    <2>3. Hit(Trials, "idle") <= Hit(Attempts, Head(signals).kind)
      BY <2>2
    <2>4. QED
      BY <1>4, <2>1, <2>3
  <1>8. CASE ScheduleRetry
    <2>1. pc[Zb] = "retry" /\ Goto(Zb, "idle") /\ armed' = armed + 1
          /\ UNCHANGED <<stack, steering, signals, calls>>
      BY <1>8 DEF ScheduleRetry, Ready, stackVars, bounds
    <2>2. IsFiniteSet(Trying') /\ Cardinality(Trying') = Cardinality(Trying) - 1
      BY <1>1, <2>1, TryingMove DEF Hit, Trials
    <2>3. QED
      BY <1>1, <2>1, <2>2, InFlightSame
  <1>9. QED
    BY <1>3, <1>5, <1>6, <1>7, <1>8 DEF Handle

LEMMA ChainsAdvance ==
  ASSUME TypeOK, ChainsInv, NEW t \in Tasks, Advance(t)
  PROVE  ChainsInv'
  <1> USE InFlightType DEF ChainsInv
  <1>1. calls \in Nat /\ armed \in Nat /\ Cardinality(Trying) \in Nat
    BY FS_CardinalityType DEF TypeOK
  <1>2. CASE Enqueue(t)
    <2>1. Trying' = Trying /\ UNCHANGED <<stack, steering, signals, armed, calls>>
      BY <1>2 DEF Trying, Among, Enqueue, stackVars, bounds
    <2>2. QED
      BY <2>1, InFlightSame
  <1>3. CASE Join(t)
    <2>1. pc[t] = "join" /\ UNCHANGED <<stack, steering, signals, armed, calls>>
          /\ \E place \in {"idle", "steer"} : Goto(t, place)
      BY <1>3 DEF Join, Ready, Post, Goto, stackVars, bounds
    <2>2. IsFiniteSet(Trying') /\ Cardinality(Trying') <= Cardinality(Trying)
          /\ Cardinality(Trying') \in Int
      BY <1>1, <2>1, TryingMove DEF Hit, Trials
    <2>3. QED
      BY <1>1, <2>1, <2>2, InFlightSame
  <1>4. CASE Steer(t)
    <2>1. pc[t] = "steer" /\ UNCHANGED <<stack, signals, armed, calls>> /\ Goto(t, "idle")
          /\ steering' \in {steering, steering + 1}
      BY <1>4 DEF Steer, Ready, bounds
    <2>2. IsFiniteSet(Trying') /\ Cardinality(Trying') = Cardinality(Trying) - 1
      BY <1>1, <2>1, TryingMove DEF Hit, Trials
    <2>3. InFlight' \in {InFlight, InFlight + 1}
      BY <2>1 DEF InFlight, Hit
    <2>4. QED
      BY <1>1, <2>1, <2>2, <2>3
  <1>5. CASE Leave(t)
    <2>1. pc[t] = "leave" /\ UNCHANGED <<stack, steering, signals, armed, calls>>
          /\ \E place \in {"idle", "request"} : Goto(t, place)
      BY <1>5 DEF Leave, Ready, Post, Goto, stackVars, bounds
    <2>2. IsFiniteSet(Trying') /\ Cardinality(Trying') = Cardinality(Trying)
      BY <1>1, <2>1, TryingMove DEF Hit, Trials
    <2>3. QED
      BY <1>1, <2>1, <2>2, InFlightSame
  <1>6. CASE RequestLeave(t)
    <2>1. pc[t] = "request" /\ UNCHANGED <<armed, calls>> /\ Goto(t, "idle")
      BY <1>6 DEF RequestLeave, Ready, bounds
    <2>2. IsFiniteSet(Trying') /\ Cardinality(Trying') = Cardinality(Trying)
      BY <1>1, <2>1, TryingMove DEF Hit, Trials
    <2>3. QED
      BY <1>1, <1>6, <2>1, <2>2, InFlightLeave
  <1>7. QED
    BY <1>2, <1>3, <1>4, <1>5, <1>6 DEF Advance

LEMMA ChainsStep ==
  ASSUME TypeOK, ChainsInv, [Next]_vars
  PROVE  ChainsInv'
  <1> USE InFlightType DEF ChainsInv
  <1>1. calls \in Nat /\ armed \in Nat /\ Cardinality(Trying) \in Nat
    BY FS_CardinalityType DEF TypeOK
  <1>2. CASE UNCHANGED vars
    BY <1>2, InFlightSame DEF vars, stackVars, bounds, Trying, Among
  <1>3. ASSUME \/ Start
               \/ \E ok \in BOOLEAN : Initialised(ok) \/ SteeringEnds(ok)
               \/ RemovedByNetwork \/ NetworkStatus
        PROVE  ChainsInv'
    <2>1. UNCHANGED <<armed, pc, calls>>
      BY <1>3 DEF Start, Initialised, SteeringEnds, RemovedByNetwork, NetworkStatus, bounds
    <2>2. QED
      BY <1>3, <2>1, InFlightStack DEF Trying, Among
  <1>4. CASE RetryFires
    <2>1. pc[Timer] = "idle" /\ Goto(Timer, "join") /\ armed' = armed - 1 /\ Timer \in Tasks
          /\ UNCHANGED <<stack, steering, signals, calls>>
      BY <1>4 DEF RetryFires, Ready, stackVars, bounds, Tasks
    <2>2. IsFiniteSet(Trying') /\ Cardinality(Trying') = Cardinality(Trying) + 1
      BY <1>1, <2>1, TryingMove DEF Hit, Trials
    <2>3. QED
      BY <1>1, <2>1, <2>2, InFlightSame
  <1>5. ASSUME NEW t \in Tasks, NEW place \in {"idle", "join", "leave"},
               pc[t] = "idle", Goto(t, place), UNCHANGED <<stack, steering, signals, armed>>,
               calls' = IF place = "idle" THEN calls ELSE calls + 1
        PROVE  ChainsInv'
    <2>1. IsFiniteSet(Trying') /\ Cardinality(Trying') = Cardinality(Trying) + Hit(Trials, place)
      BY <1>1, <1>5, TryingMove DEF Hit, Trials
    <2>2. calls' \in Nat /\ calls' >= calls + Hit(Trials, place) /\ Hit(Trials, place) \in Nat
      BY <1>1, <1>5 DEF Hit, Trials
    <2>3. QED
      BY <1>1, <1>5, <2>1, <2>2, InFlightSame
  <1>6. ASSUME NEW t \in Clients, NEW place \in {"join", "leave"}, AppCalls(t, place)
        PROVE  ChainsInv'
    <2>1. t \in Tasks /\ pc[t] = "idle" /\ Goto(t, place)
          /\ UNCHANGED <<stack, steering, signals, armed>> /\ calls' = calls + 1
      BY <1>6 DEF AppCalls, Ready, Tasks, stackVars
    <2>2. QED
      BY <1>5, <2>1
  <1>7. ASSUME NEW place \in {"join", "leave", "idle"}, RunHandler(place)
        PROVE  ChainsInv'
    <2>1. Loop \in Tasks /\ pc[Loop] = "idle" /\ Goto(Loop, place)
          /\ UNCHANGED <<stack, steering, signals, armed>>
      BY <1>7 DEF RunHandler, Ready, Tasks, stackVars
    <2>2. calls' = IF place = "idle" THEN calls ELSE calls + 1
      BY <1>7 DEF RunHandler
    <2>3. QED
      BY <1>5, <2>1, <2>2
  <1>8. QED
    BY <1>2, <1>3, <1>4, <1>6, <1>7, ChainsHandle, ChainsAdvance DEF Next

LEMMA ChainsImply == TypeOK /\ ChainsInv => RetryChainsBounded
  <1> SUFFICES ASSUME TypeOK, ChainsInv PROVE RetryChainsBounded
    OBVIOUS
  <1> DEFINE Steered == {i \in DOMAIN signals : signals[i].kind = "STEERING"}
  <1>1. signals \in Seq(SignalSet)
    BY DEF TypeOK, SignalSet, SignalKinds
  <1>2. Len(signals) \in Nat /\ DOMAIN signals = 1 .. Len(signals)
    BY <1>1, LenProperties
  <1>3. Steered \in SUBSET Places(AttemptSignals, signals, Len(signals))
    <2>1. \A i \in 1 .. Len(signals) : signals[i] \in SignalSet
      BY <1>1, ElementOfSeq
    <2>2. QED
      BY <1>2, <2>1 DEF Places, AttemptSignals, Attempts
  <1>4. Cardinality(Steered) <= CountIn(AttemptSignals, signals)
    BY <1>2, <1>3, CountType, FS_Subset DEF CountIn, CountTo
  <1>5. Cardinality(Steered) \in Nat
    BY <1>2, <1>3, CountType, FS_Subset, FS_CardinalityType
  <1>6. Trying = {t \in Tasks : pc[t] \in {"join", "steer", "retry"}}
    BY DEF Trying, Among, Trials
  <1>7. Cardinality(Trying) \in Nat /\ armed \in Nat /\ calls \in Nat
    BY FS_CardinalityType DEF ChainsInv, TypeOK
  <1>8. InFlight >= steering + CountIn(AttemptSignals, signals)
    BY InFlightType DEF InFlight, Hit
  <1> HIDE DEF Steered
  <1>9. armed + steering + Cardinality(Steered) + Cardinality(Trying) <= 1 + calls
    BY <1>4, <1>5, <1>7, <1>8, InFlightType DEF ChainsInv
  <1>10. QED
    BY <1>6, <1>9 DEF RetryChainsBounded, Steered

-------------------------------------------------------------------------------
(* Handlers are told in the order of the queue *)

Entries == Handlers \X Events

LEMMA EnqueueIs ==
  ASSUME TypeOK, NEW t \in Tasks, Enqueue(t)
  PROVE  /\ todo[t] \in Seq(Entries) /\ todo[t] # <<>> /\ queue \in Seq(Entries)
         /\ Head(todo[t]) \in Entries /\ Tail(todo[t]) \in Seq(Entries)
         /\ Head(todo[t]) = todo[t][1]
         /\ Len(todo[t]) \in Nat \ {0} /\ Len(Tail(todo[t])) = Len(todo[t]) - 1
         /\ \A i \in 1 .. Len(Tail(todo[t])) : Tail(todo[t])[i] = todo[t][i + 1]
         /\ queue' = Append(queue, Head(todo[t]))
         /\ todo'[t] = Tail(todo[t])
         /\ \A u \in Tasks \ {t} : todo'[u] = todo[u]
         /\ UNCHANGED <<stackVars, signals, armed, pc, seen, bounds>>
  <1>1. todo[t] \in Seq(Entries) /\ todo[t] # <<>> /\ queue \in Seq(Entries)
    BY DEF TypeOK, Entries, Enqueue
  <1>2. todo'[t] = Tail(todo[t]) /\ \A u \in Tasks \ {t} : todo'[u] = todo[u]
    BY DEF TypeOK, Enqueue
  <1>3. queue' = Append(queue, Head(todo[t]))
        /\ UNCHANGED <<stackVars, signals, armed, pc, seen, bounds>>
    BY DEF Enqueue
  <1>4. /\ Head(todo[t]) \in Entries /\ Tail(todo[t]) \in Seq(Entries)
        /\ Len(Tail(todo[t])) = Len(todo[t]) - 1
        /\ \A i \in 1 .. Len(Tail(todo[t])) : Tail(todo[t])[i] = todo[t][i + 1]
    BY <1>1, HeadTailProperties
  <1>5. Len(todo[t]) \in Nat \ {0} /\ Head(todo[t]) = todo[t][1]
    BY <1>1, EmptySeq
  <1>6. QED
    BY <1>1, <1>2, <1>3, <1>4, <1>5

LEMMA RunHandlerIs ==
  ASSUME TypeOK, NEW place, RunHandler(place)
  PROVE  /\ queue \in Seq(Entries) /\ queue # <<>> /\ queue' = Tail(queue)
         /\ Head(queue) = queue[1] /\ Len(queue) \in Nat /\ Len(queue') = Len(queue) - 1
         /\ \A i \in 1 .. Len(queue') : queue'[i] = queue[i + 1]
         /\ \E g \in Handlers, e \in Events :
               /\ Head(queue) = <<g, e>>
               /\ seen'[g] = Append(seen[g], e)
               /\ \A h \in Handlers \ {g} : seen'[h] = seen[h]
         /\ UNCHANGED <<stackVars, signals, armed, todo>>
  <1>1. queue \in Seq(Entries) /\ queue # <<>> /\ queue' = Tail(queue)
        /\ UNCHANGED <<stackVars, signals, armed, todo>>
    BY DEF TypeOK, Entries, RunHandler
  <1>2. Head(queue) \in Entries /\ Len(Tail(queue)) = Len(queue) - 1
        /\ \A i \in 1 .. Len(Tail(queue)) : Tail(queue)[i] = queue[i + 1]
    BY <1>1, HeadTailProperties
  <1>3. Head(queue) = queue[1] /\ Len(queue) \in Nat
    BY <1>1, EmptySeq
  <1>4. PICK g \in Handlers, e \in Events : Head(queue) = <<g, e>>
    BY <1>2 DEF Entries
  <1>5. seen' = [seen EXCEPT ![g] = Append(seen[g], e)]
    <2>1. Head(queue)[1] = g /\ Head(queue)[2] = e
      BY <1>4
    <2>2. seen' = [seen EXCEPT ![Head(queue)[1]] = Append(seen[Head(queue)[1]], Head(queue)[2])]
      BY DEF RunHandler
    <2>3. QED
      BY <2>1, <2>2
  <1>6. seen'[g] = Append(seen[g], e) /\ \A h \in Handlers \ {g} : seen'[h] = seen[h]
    BY <1>5 DEF TypeOK
  <1>7. QED
    BY <1>1, <1>2, <1>3, <1>4, <1>6

\* Only the Zigbee task is asked to tell outcomes.
LEMMA SpeakerStep ==
  ASSUME TypeOK, SpeakerInv, [Next]_vars
  PROVE  SpeakerInv'
  <1> USE DEF SpeakerInv
  <1>1. CASE UNCHANGED todo
    BY <1>1
  <1>2. ASSUME NEW t \in Tasks, Enqueue(t)
        PROVE  SpeakerInv'
    <2>1. \A i \in 1 .. Len(todo'[t]) : i + 1 \in 1 .. Len(todo[t]) /\ todo'[t][i] = todo[t][i + 1]
      <3>1. /\ Len(todo[t]) \in Nat \ {0} /\ Len(Tail(todo[t])) = Len(todo[t]) - 1
            /\ todo'[t] = Tail(todo[t])
            /\ \A i \in 1 .. Len(Tail(todo[t])) : Tail(todo[t])[i] = todo[t][i + 1]
        BY <1>2, EnqueueIs
      <3>2. Len(todo'[t]) = Len(todo[t]) - 1
        BY <3>1
      <3>3. \A i \in 1 .. Len(todo'[t]) : todo'[t][i] = todo[t][i + 1]
        BY <3>1, Zenon
      <3>4. QED
        BY <3>1, <3>2, <3>3
    <2>2. \A u \in Tasks \ {t} : todo'[u] = todo[u]
      BY <1>2, EnqueueIs
    <2>3. QED
      BY <2>1, <2>2
  <1>3. ASSUME NEW t \in Tasks, NEW e, NEW next, Post(t, e, next), t = Zb \/ e \notin Outcomes
        PROVE  SpeakerInv'
    <2>1. todo'[t] = CallsFor(e) /\ \A u \in Tasks \ {t} : todo'[u] = todo[u]
      BY <1>3 DEF Post, TypeOK
    <2>2. \A i \in 1 .. Len(CallsFor(e)) : CallsFor(e)[i][2] = e
      BY CallsForIs DEF Handlers
    <2>3. QED
      BY <1>3, <2>1, <2>2
  <1>4. ASSUME NEW t \in Tasks, Advance(t)
        PROVE  SpeakerInv'
    <2>1. UNCHANGED todo \/ Enqueue(t) \/ \E e \in {"JOINING", "LEAVING"}, next \in At : Post(t, e, next)
      BY <1>4 DEF Advance, Join, Steer, Leave, RequestLeave, At
    <2>2. "JOINING" \notin Outcomes /\ "LEAVING" \notin Outcomes
      BY DEF Outcomes
    <2>3. QED
      BY <1>1, <1>2, <1>3, <2>1, <2>2
  <1>5. CASE Handle
    <2>1. UNCHANGED todo \/ \E e \in Events, next \in At : Post(Zb, e, next)
      BY <1>5 DEF Handle, HandleSkipStartup, HandleDeviceReboot, HandleNetworkSteering,
                  HandleLeaveNetwork, HandleNetworkStatus, ScheduleRetry, Events, At
    <2>2. Zb \in Tasks
      BY DEF Tasks
    <2>3. QED
      BY <1>1, <1>3, <2>1, <2>2
  <1>6. ASSUME \/ UNCHANGED vars
               \/ Start
               \/ \E ok \in BOOLEAN : Initialised(ok) \/ SteeringEnds(ok)
               \/ RemovedByNetwork \/ NetworkStatus
               \/ RetryFires
               \/ \E t \in Clients, place \in {"join", "leave"} : AppCalls(t, place)
               \/ \E place \in {"join", "leave", "idle"} : RunHandler(place)
        PROVE  UNCHANGED todo
    BY <1>6 DEF vars, Start, Initialised, SteeringEnds, RemovedByNetwork, NetworkStatus,
                RetryFires, AppCalls, RunHandler
  <1>7. QED
    BY <1>1, <1>4, <1>5, <1>6 DEF Next

LEMMA ToldEnqueue ==
  ASSUME TypeOK, NEW t \in Tasks, Enqueue(t), NEW h \in Handlers, NEW E
  PROVE  Told(h, E)' = Told(h, E) + Hit(For(h, E), Head(todo[t]))
  <1>1. queue \in Seq(Entries) /\ Head(todo[t]) \in Entries
        /\ queue' = Append(queue, Head(todo[t])) /\ UNCHANGED seen
    BY EnqueueIs
  <1>2. CountIn(For(h, E), Append(queue, Head(todo[t])))
          = CountIn(For(h, E), queue) + Hit(For(h, E), Head(todo[t]))
    BY <1>1, CountAppend
  <1>3. CountIn(For(h, E), queue) \in Nat /\ CountIn(E, seen[h]) \in Nat
    <2>1. seen[h] \in Seq(Events)
      BY DEF TypeOK
    <2>2. QED
      BY <1>1, <2>1, CountInType
  <1>4. Hit(For(h, E), Head(todo[t])) \in Nat
    BY DEF Hit
  <1>5. QED
    BY <1>1, <1>2, <1>3, <1>4 DEF Told

\* Running a handler moves what it is told from the queue to what it has seen.
LEMMA RunMoves ==
  ASSUME TypeOK, NEW place, RunHandler(place), NEW h \in Handlers, NEW E
  PROVE  \A n \in 0 .. Len(queue') :
            CountIn(E, seen'[h]) + CountTo(For(h, E), queue', n)
              = CountIn(E, seen[h]) + CountTo(For(h, E), queue, n + 1)
  <1>1. PICK g \in Handlers, e \in Events :
               /\ Head(queue) = <<g, e>>
               /\ seen'[g] = Append(seen[g], e)
               /\ \A k \in Handlers \ {g} : seen'[k] = seen[k]
    BY RunHandlerIs
  <1>2. queue \in Seq(Entries) /\ queue # <<>> /\ queue' = Tail(queue) /\ Len(queue') \in Nat
    BY RunHandlerIs, EmptySeq
  <1>3. seen[h] \in Seq(Events)
    BY DEF TypeOK
  <1>4. \A n \in 0 .. Len(queue') :
          CountTo(For(h, E), queue, n + 1) = Hit(For(h, E), Head(queue)) + CountTo(For(h, E), queue', n)
    BY <1>2, CountTail
  <1>5. CountIn(E, seen'[h]) = CountIn(E, seen[h]) + Hit(For(h, E), Head(queue))
    <2>1. CASE h = g
      <3>1. CountIn(E, Append(seen[h], e)) = CountIn(E, seen[h]) + Hit(E, e)
        BY <1>3, CountAppend
      <3>2. Hit(For(h, E), Head(queue)) = Hit(E, e)
        BY <1>1, <2>1 DEF Hit, For
      <3>3. QED
        BY <1>1, <2>1, <3>1, <3>2
    <2>2. CASE h # g
      <3>1. Hit(For(h, E), Head(queue)) = 0
        BY <1>1, <2>2 DEF Hit, For
      <3>2. CountIn(E, seen[h]) \in Nat
        BY <1>3, CountInType
      <3>3. QED
        BY <1>1, <2>2, <3>1, <3>2
    <2>3. QED
      BY <2>1, <2>2
  <1>6. CountIn(E, seen[h]) \in Nat /\ Hit(For(h, E), Head(queue)) \in Nat
    BY <1>3, CountInType DEF Hit
  <1>7. \A n \in 0 .. Len(queue') : CountTo(For(h, E), queue', n) \in Nat
    BY <1>2, CountType
  <1> HIDE DEF For
  <1>8. QED
    BY <1>4, <1>5, <1>6, <1>7

LEMMA ToldRun ==
  ASSUME TypeOK, NEW place, RunHandler(place), NEW h \in Handlers, NEW E
  PROVE  Told(h, E)' = Told(h, E)
  <1>1. Len(queue') \in Nat /\ Len(queue') + 1 = Len(queue)
    BY RunHandlerIs, EmptySeq
  <1>2. CountIn(E, seen'[h]) + CountTo(For(h, E), queue', Len(queue'))
              = CountIn(E, seen[h]) + CountTo(For(h, E), queue, Len(queue') + 1)
    BY <1>1, RunMoves
  <1>3. QED
    BY <1>1, <1>2 DEF Told, CountIn

-------------------------------------------------------------------------------
(* Every attempt in progress has been announced *)

\* postEvent queues its event once for each handler.
LEMMA CallsForCount ==
  ASSUME NEW h \in Handlers, NEW E, NEW e
  PROVE  /\ CountIn(For(h, E), CallsFor(e)) = Hit(E, e)
         /\ CountTo(For(h, E), CallsFor(e), h) = Hit(E, e)
  <1>1. Len(CallsFor(e)) = NumHandlers /\ h \in 1 .. NumHandlers /\ NumHandlers \in Nat
        /\ \A i \in 1 .. NumHandlers : CallsFor(e)[i] = <<i, e>>
    BY CallsForIs, NodeAssumption DEF Handlers
  <1>2. ASSUME NEW n \in h .. NumHandlers
        PROVE  CountTo(For(h, E), CallsFor(e), n) = Hit(E, e)
    <2>1. CASE e \in E
      <3>1. \A i \in 1 .. n : CallsFor(e)[i] \in For(h, E) <=> i = h
        <4>1. \A i : <<i, e>> \in For(h, E) <=> i = h
          BY <2>1 DEF For
        <4>2. \A i \in 1 .. n : CallsFor(e)[i] = <<i, e>>
          BY <1>1
        <4>3. QED
          BY <4>1, <4>2
      <3>2. Places(For(h, E), CallsFor(e), n) = {h}
        BY <1>1, <3>1 DEF Places
      <3>3. QED
        BY <2>1, <3>2, FS_Singleton DEF CountTo, Hit
    <2>2. CASE e \notin E
      <3>1. Places(For(h, E), CallsFor(e), n) = {}
        BY <1>1, <2>2 DEF Places, For
      <3>2. QED
        BY <2>2, <3>1, FS_EmptySet DEF CountTo, Hit
    <2>3. QED
      BY <2>1, <2>2
  <1>3. h \in h .. NumHandlers /\ NumHandlers \in h .. NumHandlers
    BY <1>1
  <1>4. QED
    BY <1>1, <1>2, <1>3 DEF CountIn

LEMMA CountsAreNumbers ==
  ASSUME TypeOK, NEW h \in Handlers, NEW E
  PROVE  /\ Told(h, E) \in Nat /\ CountIn(For(h, E), todo[Zb]) \in Nat
         /\ CountIn(E, seen[h]) \in Nat
         /\ todo[Zb] = <<>> => CountIn(For(h, E), todo[Zb]) = 0
  <1>1. queue \in Seq(Entries) /\ todo[Zb] \in Seq(Entries) /\ seen[h] \in Seq(Events)
    BY DEF TypeOK, Tasks, Entries
  <1>2. CountIn(For(h, E), queue) \in Nat /\ CountIn(E, seen[h]) \in Nat
        /\ CountIn(For(h, E), todo[Zb]) \in Nat
    BY <1>1, CountInType
  <1>3. QED
    BY <1>2, CountInEmpty DEF Told

\* Posting JOINING, or moving between places other than "steer", announces
\* nothing.
LEMMA AnnouncedKept ==
  ASSUME NEW t \in Tasks, NEW h \in Handlers,
         \A u \in Tasks \ {t} : pc'[u] = pc[u] /\ todo'[u] = todo[u],
         pc[t] # "steer",
         pc'[t] # "steer" \/ todo'[t] = CallsFor("JOINING")
  PROVE  Announced(h)' = Announced(h)
  <1>1. t \notin Announced(h)
    BY DEF Announced
  <1>2. t \notin Announced(h)'
    <2>1. CallsFor("JOINING")[h] = <<h, "JOINING">> /\ h \in 1 .. Len(CallsFor("JOINING"))
      BY CallsForIs DEF Handlers
    <2>2. <<h, "JOINING">> \in For(h, Begun)
      BY DEF For, Begun
    <2>3. QED
      BY <2>1, <2>2 DEF Announced
  <1>3. \A u \in Tasks \ {t} : u \in Announced(h)' <=> u \in Announced(h)
    BY DEF Announced
  <1>4. Announced(h)' \subseteq Tasks /\ Announced(h) \subseteq Tasks
    BY DEF Announced
  <1>5. QED
    BY <1>1, <1>2, <1>3, <1>4

LEMMA AnnouncedInit == Init => AnnouncedInv
  <1> SUFFICES ASSUME Init, NEW h \in Handlers
               PROVE  /\ IsFiniteSet(Announced(h))
                      /\ Told(h, Ended) + CountIn(For(h, Ended), todo[Zb]) + InFlight
                            + Cardinality(Announced(h)) <= Told(h, Begun) + 1
    BY DEF AnnouncedInv
  <1>1. queue = <<>> /\ todo[Zb] = <<>> /\ seen[h] = <<>> /\ Announced(h) = {}
    BY DEF Init, Tasks, Announced
  <1>2. InFlight = 1
    BY CountInEmpty DEF Init, InFlight, Hit
  <1>3. Told(h, Ended) = 0 /\ Told(h, Begun) = 0 /\ CountIn(For(h, Ended), todo[Zb]) = 0
    BY <1>1, CountInEmpty DEF Told
  <1>4. QED
    BY <1>1, <1>2, <1>3, FS_EmptySet

\* The balance of one handler.
Balanced(h) ==
    /\ IsFiniteSet(Announced(h))
    /\ Told(h, Ended) + CountIn(For(h, Ended), todo[Zb]) + InFlight + Cardinality(Announced(h))
         <= Told(h, Begun) + 1

LEMMA BalancedIs == AnnouncedInv <=> \A h \in Handlers : Balanced(h)
  BY DEF AnnouncedInv, Balanced

\* A step that tells and announces nothing new.
LEMMA BalancedQuiet ==
  ASSUME TypeOK, NEW h \in Handlers, Balanced(h),
         Told(h, Ended)' = Told(h, Ended), Told(h, Begun)' = Told(h, Begun),
         Announced(h)' = Announced(h), InFlight' \in Nat,
         CountIn(For(h, Ended), todo'[Zb]) \in Nat,
         CountIn(For(h, Ended), todo'[Zb]) + InFlight'
            <= CountIn(For(h, Ended), todo[Zb]) + InFlight
  PROVE  Balanced(h)'
  <1>1. Cardinality(Announced(h)) \in Nat
    BY FS_CardinalityType DEF Balanced
  <1>2. Told(h, Ended) \in Nat /\ Told(h, Begun) \in Nat /\ InFlight \in Nat
        /\ CountIn(For(h, Ended), todo[Zb]) \in Nat
    BY CountsAreNumbers, InFlightType
  <1>3. Told(h, Ended) + CountIn(For(h, Ended), todo[Zb]) + InFlight + Cardinality(Announced(h))
          <= Told(h, Begun) + 1
    BY DEF Balanced
  <1>4. Told(h, Ended) + CountIn(For(h, Ended), todo'[Zb]) + InFlight' + Cardinality(Announced(h))
          <= Told(h, Begun) + 1
    BY <1>1, <1>2, <1>3
  <1>5. Told(h, Ended)' + CountIn(For(h, Ended), todo'[Zb]) + InFlight' + Cardinality(Announced(h)')
          <= Told(h, Begun)' + 1
    BY <1>4
  <1>6. IsFiniteSet(Announced(h)')
    BY DEF Balanced
  <1>7. QED
    BY <1>5, <1>6 DEF Balanced

LEMMA BalancedHandle ==
  ASSUME TypeOK, Handle, NEW h \in Handlers, Balanced(h)
  PROVE  Balanced(h)'
  <1>1. Zb \in Tasks /\ UNCHANGED <<queue, seen>>
    BY DEF Tasks, Handle, HandleSkipStartup, HandleDeviceReboot, HandleNetworkSteering,
           HandleLeaveNetwork, HandleNetworkStatus, HandleSignal, ScheduleRetry
  <1>2. Told(h, Ended)' = Told(h, Ended) /\ Told(h, Begun)' = Told(h, Begun)
    BY <1>1 DEF Told
  <1>3. CASE HandleSkipStartup
    <2>1. HandleSignal /\ UNCHANGED <<pc, todo>>
      BY <1>3 DEF HandleSkipStartup
    <2>2. Announced(h)' = Announced(h)
      BY <2>1 DEF Announced
    <2>3. InFlight' \in Nat /\ InFlight' <= InFlight
      BY <1>3, <2>1, InFlightHandle
    <2>4. QED
      BY <1>2, <2>1, <2>2, <2>3, BalancedQuiet, CountsAreNumbers, InFlightType
  <1>4. ASSUME HandleSignal, UNCHANGED stack, NEW e, NEW next \in {"idle", "retry"},
               Post(Zb, e, next), Hit(Ended, e) <= Hit(Attempts, Head(signals).kind)
        PROVE  Balanced(h)'
    <2>1. /\ todo[Zb] = <<>> /\ todo'[Zb] = CallsFor(e)
          /\ pc[Zb] = "idle" /\ pc'[Zb] = next
          /\ \A u \in Tasks \ {Zb} : pc'[u] = pc[u] /\ todo'[u] = todo[u]
      BY <1>1, <1>4 DEF HandleSignal, Ready, Post, TypeOK
    <2>2. Announced(h)' = Announced(h)
      BY <1>1, <2>1, AnnouncedKept
    <2>3. InFlight' \in Nat /\ InFlight' = InFlight - Hit(Attempts, Head(signals).kind)
      BY <1>4, InFlightHandle
    <2>4. CountIn(For(h, Ended), todo'[Zb]) = Hit(Ended, e)
          /\ CountIn(For(h, Ended), todo[Zb]) = 0
      BY <2>1, CallsForCount, CountsAreNumbers
    <2>5. Hit(Ended, e) \in Nat /\ Hit(Attempts, Head(signals).kind) \in Nat
      BY DEF Hit
    <2>6. QED
      BY <1>2, <1>4, <2>2, <2>3, <2>4, <2>5, BalancedQuiet, InFlightType
  <1>5. ASSUME HandleSignal, UNCHANGED <<stack, todo>>, NEW place \in {"join", "retry"},
               Goto(Zb, place)
        PROVE  Balanced(h)'
    <2>1. /\ pc[Zb] = "idle" /\ pc'[Zb] = place
          /\ \A u \in Tasks \ {Zb} : pc'[u] = pc[u] /\ todo'[u] = todo[u]
      BY <1>1, <1>5 DEF HandleSignal, Ready, Goto, TypeOK
    <2>2. Announced(h)' = Announced(h)
      BY <1>1, <2>1, AnnouncedKept
    <2>3. InFlight' \in Nat /\ InFlight' = InFlight - Hit(Attempts, Head(signals).kind)
      BY <1>5, InFlightHandle
    <2>4. Hit(Attempts, Head(signals).kind) \in Nat
      BY DEF Hit
    <2>5. QED
      BY <1>2, <1>5, <2>2, <2>3, <2>4, BalancedQuiet, InFlightType, CountsAreNumbers
  <1>6. CASE HandleDeviceReboot
    <2>1. HandleSignal /\ UNCHANGED stack /\ Hit(Attempts, Head(signals).kind) = 1
          /\ Hit(Ended, "JOINED") = 1
      BY <1>6 DEF HandleDeviceReboot, Hit, Attempts, Ended
    <2>2. CASE Head(signals).ok /\ ~factoryNew
      BY <1>4, <1>6, <2>1, <2>2 DEF HandleDeviceReboot
    <2>3. CASE ~(Head(signals).ok /\ ~factoryNew)
      <3>1. UNCHANGED todo /\ \E place \in {"join", "retry"} : Goto(Zb, place)
        BY <1>6, <2>3 DEF HandleDeviceReboot
      <3>2. QED
        BY <1>5, <2>1, <3>1
    <2>4. QED
      BY <2>2, <2>3
  <1>7. CASE HandleNetworkSteering
    <2>1. HandleSignal /\ UNCHANGED stack /\ Hit(Attempts, Head(signals).kind) = 1
      BY <1>7 DEF HandleNetworkSteering, Hit, Attempts
    <2>2. \E e \in {"JOINED", "JOIN_FAIL"}, next \in {"idle", "retry"} : Post(Zb, e, next)
      BY <1>7 DEF HandleNetworkSteering
    <2>3. \A e : Hit(Ended, e) <= 1
      BY DEF Hit
    <2>4. QED
      BY <1>4, <2>1, <2>2, <2>3
  <1>8. CASE HandleLeaveNetwork \/ HandleNetworkStatus
    <2>1. HandleSignal /\ UNCHANGED stack
          /\ \E e \in {"LEFT", "NLME_STATUS"} : Post(Zb, e, "idle")
      BY <1>8 DEF HandleLeaveNetwork, HandleNetworkStatus
    <2>2. Hit(Ended, "LEFT") = 0 /\ Hit(Ended, "NLME_STATUS") = 0
          /\ Hit(Attempts, Head(signals).kind) \in Nat
      BY DEF Hit, Ended
    <2>3. \A e \in {"LEFT", "NLME_STATUS"} : Hit(Ended, e) <= Hit(Attempts, Head(signals).kind)
      BY <2>2
    <2>4. QED
      BY <1>4, <2>1, <2>3
  <1>9. CASE ScheduleRetry
    <2>1. /\ pc[Zb] = "retry" /\ pc'[Zb] = "idle" /\ UNCHANGED todo
          /\ \A u \in Tasks \ {Zb} : pc'[u] = pc[u] /\ todo'[u] = todo[u]
          /\ UNCHANGED <<stack, steering, signals>>
      BY <1>1, <1>9 DEF ScheduleRetry, Ready, Goto, TypeOK, stackVars
    <2>2. Announced(h)' = Announced(h)
      BY <1>1, <2>1, AnnouncedKept
    <2>3. QED
      BY <1>2, <2>1, <2>2, BalancedQuiet, InFlightType, InFlightSame, CountsAreNumbers
  <1>10. QED
    BY <1>3, <1>6, <1>7, <1>8, <1>9 DEF Handle

\* A task queues one entry of its event: a JOINING counts before the task can
\* steer.
LEMMA BalancedEnqueue ==
  ASSUME TypeOK, SpeakerInv, NEW t \in Tasks, Enqueue(t), NEW h \in Handlers, Balanced(h)
  PROVE  Balanced(h)'
  <1> DEFINE c == Head(todo[t])
             out == Hit(For(h, Ended), c)
             begun == Hit(For(h, Begun), c)
             left == CountIn(For(h, Ended), todo[Zb])
             leftAfter == CountIn(For(h, Ended), todo'[Zb])
  <1>1. Told(h, Ended)' = Told(h, Ended) + out /\ Told(h, Begun)' = Told(h, Begun) + begun
    BY ToldEnqueue
  <1>2. out \in Nat /\ begun \in Nat
    BY DEF Hit
  <1>3. UNCHANGED <<stack, steering, signals, pc>>
    BY EnqueueIs DEF stackVars
  <1>4. InFlight' = InFlight
    BY <1>3, InFlightSame
  <1>5. leftAfter + out = left /\ leftAfter \in Nat
    <2>1. CASE t = Zb
      <3>1. todo[t] \in Seq(Entries) /\ todo[t] # <<>> /\ todo'[t] = Tail(todo[t])
            /\ Tail(todo[t]) \in Seq(Entries)
        BY EnqueueIs
      <3>2. CountIn(For(h, Ended), todo[t])
              = Hit(For(h, Ended), Head(todo[t])) + CountIn(For(h, Ended), Tail(todo[t]))
        BY <3>1, CountTail
      <3>3. CountIn(For(h, Ended), Tail(todo[t])) \in Nat
        BY <3>1, CountInType
      <3>4. QED
        BY <1>2, <2>1, <3>1, <3>2, <3>3
    <2>2. CASE t # Zb
      <3>1. Zb \in Tasks \ {t} /\ todo'[Zb] = todo[Zb]
        BY <2>2, EnqueueIs DEF Tasks
      <3>2. 1 \in 1 .. Len(todo[t]) /\ c = todo[t][1]
        BY EnqueueIs
      <3>3. c[2] \notin Outcomes
        BY <2>2, <3>2 DEF SpeakerInv
      <3>4. out = 0
        BY <3>3 DEF Hit, For, Ended, Outcomes
      <3>5. left \in Nat
        BY CountsAreNumbers
      <3>6. QED
        BY <3>1, <3>4, <3>5
    <2>3. QED
      BY <2>1, <2>2
  <1>6. /\ IsFiniteSet(Announced(h)') /\ Cardinality(Announced(h)') \in Nat
        /\ Cardinality(Announced(h)') <= Cardinality(Announced(h)) + begun
        /\ Cardinality(Announced(h)) \in Nat
    <2>1. \A u \in Tasks \ {t} : u \in Announced(h)' <=> u \in Announced(h)
      BY <1>3, EnqueueIs DEF Announced
    <2>2. t \in Announced(h)' /\ c \notin For(h, Begun) => t \in Announced(h)
      <3>1. SUFFICES ASSUME t \in Announced(h)', c \notin For(h, Begun),
                            NEW i \in 1 .. Len(todo[t])
                     PROVE  todo[t][i] \notin For(h, Begun)
        BY <1>3 DEF Announced
      <3>2. CASE i = 1
        BY <3>1, <3>2, EnqueueIs
      <3>3. CASE i # 1
        <4>1. /\ Len(todo[t]) \in Nat \ {0} /\ Len(Tail(todo[t])) = Len(todo[t]) - 1
              /\ todo'[t] = Tail(todo[t])
          BY EnqueueIs
        <4>2. i - 1 \in 1 .. Len(Tail(todo[t])) /\ (i - 1) + 1 = i
          BY <3>3, <4>1
        <4>3. Tail(todo[t])[i - 1] = todo[t][i]
          BY <4>2, EnqueueIs
        <4>4. todo'[t][i - 1] \notin For(h, Begun)
          BY <3>1, <4>1, <4>2 DEF Announced
        <4>5. QED
          BY <4>1, <4>3, <4>4
      <3>4. QED
        BY <3>2, <3>3
    <2>3. Announced(h) \subseteq Tasks /\ Announced(h)' \subseteq Tasks
      BY DEF Announced
    <2>4. IsFiniteSet(Announced(h))
      BY DEF Balanced
    <2>5. CASE c \in For(h, Begun)
      <3>1. Announced(h)' \in SUBSET (Announced(h) \cup {t})
        BY <2>1, <2>3
      <3>2. IsFiniteSet(Announced(h) \cup {t})
            /\ Cardinality(Announced(h) \cup {t}) <= Cardinality(Announced(h)) + 1
            /\ Cardinality(Announced(h)) \in Nat
            /\ Cardinality(Announced(h) \cup {t}) \in Nat
        <4>1. Cardinality(Announced(h)) \in Nat
          BY <2>4, FS_CardinalityType
        <4>2. /\ IsFiniteSet(Announced(h) \cup {t})
              /\ Cardinality(Announced(h) \cup {t})
                   = IF t \in Announced(h) THEN Cardinality(Announced(h))
                                           ELSE Cardinality(Announced(h)) + 1
          BY <2>4, FS_AddElement
        <4>3. QED
          BY <4>1, <4>2
      <3>3. IsFiniteSet(Announced(h)')
            /\ Cardinality(Announced(h)') <= Cardinality(Announced(h) \cup {t})
        BY <3>1, <3>2, FS_Subset
      <3>4. Cardinality(Announced(h)') \in Nat
        BY <3>3, FS_CardinalityType
      <3>5. begun = 1
        BY <2>5 DEF Hit
      <3>6. QED
        BY <3>2, <3>3, <3>4, <3>5
    <2>6. CASE c \notin For(h, Begun)
      <3>1. Announced(h)' \in SUBSET Announced(h)
        BY <2>1, <2>2, <2>3, <2>6
      <3>2. IsFiniteSet(Announced(h)') /\ Cardinality(Announced(h)') <= Cardinality(Announced(h))
        BY <2>4, <3>1, FS_Subset
      <3>3. Cardinality(Announced(h)') \in Nat /\ Cardinality(Announced(h)) \in Nat
        BY <2>4, <3>2, FS_CardinalityType
      <3>4. QED
        BY <1>2, <3>2, <3>3
    <2>7. QED
      BY <2>5, <2>6
  <1>7. Told(h, Ended) \in Nat /\ Told(h, Begun) \in Nat /\ InFlight \in Nat /\ left \in Nat
    BY CountsAreNumbers, InFlightType
  <1>8. Told(h, Ended) + left + InFlight + Cardinality(Announced(h)) <= Told(h, Begun) + 1
    BY DEF Balanced
  <1> HIDE DEF c, out, begun, left, leftAfter
  <1>9. Told(h, Ended)' + leftAfter + InFlight' + Cardinality(Announced(h)')
          <= Told(h, Begun)' + 1
    BY <1>1, <1>2, <1>4, <1>5, <1>6, <1>7, <1>8
  <1>10. QED
    BY <1>6, <1>9 DEF Balanced, leftAfter

LEMMA BalancedAdvance ==
  ASSUME TypeOK, SpeakerInv, NEW t \in Tasks, Advance(t), NEW h \in Handlers, Balanced(h)
  PROVE  Balanced(h)'
  <1>1. CASE Enqueue(t)
    BY <1>1, BalancedEnqueue
  <1>2. ~Enqueue(t) => UNCHANGED <<queue, seen>>
    BY DEF Advance, Join, Steer, Leave, RequestLeave
  <1>3. ~Enqueue(t) => Told(h, Ended)' = Told(h, Ended) /\ Told(h, Begun)' = Told(h, Begun)
    BY <1>2 DEF Told
  <1>4. ASSUME ~Enqueue(t), NEW e \in {"JOINING", "LEAVING"}, NEW next,
               Post(t, e, next), todo[t] = <<>>, pc[t] # "steer",
               next # "steer" \/ e = "JOINING", UNCHANGED <<stack, steering, signals>>
        PROVE  Balanced(h)'
    <2>1. /\ todo'[t] = CallsFor(e) /\ pc'[t] = next
          /\ \A u \in Tasks \ {t} : pc'[u] = pc[u] /\ todo'[u] = todo[u]
      BY <1>4 DEF Post, TypeOK
    <2>2. Announced(h)' = Announced(h)
      BY <1>4, <2>1, AnnouncedKept
    <2>3. CountIn(For(h, Ended), todo'[Zb]) = CountIn(For(h, Ended), todo[Zb])
      <3>1. CASE t = Zb
        <4>1. CountIn(For(h, Ended), todo'[Zb]) = Hit(Ended, e)
          BY <2>1, <3>1, CallsForCount
        <4>2. Hit(Ended, e) = 0
          BY <1>4 DEF Hit, Ended
        <4>3. QED
          BY <1>4, <3>1, <4>1, <4>2, CountsAreNumbers
      <3>2. CASE t # Zb
        BY <2>1, <3>2 DEF Tasks
      <3>3. QED
        BY <3>1, <3>2
    <2>4. QED
      BY <1>3, <1>4, <2>2, <2>3, BalancedQuiet, InFlightSame, InFlightType, CountsAreNumbers
  <1>5. ASSUME ~Enqueue(t), NEW place, Goto(t, place), pc[t] # "steer", place # "steer",
               UNCHANGED todo, InFlight' = InFlight
        PROVE  Balanced(h)'
    <2>1. /\ pc'[t] = place
          /\ \A u \in Tasks \ {t} : pc'[u] = pc[u] /\ todo'[u] = todo[u]
      BY <1>5 DEF Goto, TypeOK
    <2>2. Announced(h)' = Announced(h)
      BY <1>5, <2>1, AnnouncedKept
    <2>3. QED
      BY <1>3, <1>5, <2>2, BalancedQuiet, InFlightType, CountsAreNumbers
  <1>6. CASE Join(t) /\ ~Enqueue(t)
    <2>1. pc[t] = "join" /\ todo[t] = <<>> /\ UNCHANGED <<stack, steering, signals>>
      BY <1>6 DEF Join, Ready, stackVars
    <2>2. CASE joined
      BY <1>5, <1>6, <2>1, <2>2, InFlightSame DEF Join
    <2>3. CASE ~joined
      BY <1>4, <1>6, <2>1, <2>3 DEF Join
    <2>4. QED
      BY <2>2, <2>3
  <1>7. CASE Leave(t) /\ ~Enqueue(t)
    <2>1. pc[t] = "leave" /\ todo[t] = <<>> /\ UNCHANGED <<stack, steering, signals>>
      BY <1>7 DEF Leave, Ready, stackVars
    <2>2. CASE joined
      BY <1>4, <1>7, <2>1, <2>2 DEF Leave
    <2>3. CASE ~joined
      BY <1>5, <1>7, <2>1, <2>3, InFlightSame DEF Leave
    <2>4. QED
      BY <2>2, <2>3
  <1>8. CASE RequestLeave(t) /\ ~Enqueue(t)
    <2>1. pc[t] = "request" /\ Goto(t, "idle") /\ UNCHANGED todo
      BY <1>8 DEF RequestLeave, Ready
    <2>2. InFlight' = InFlight
      BY <1>8, InFlightLeave
    <2>3. QED
      BY <1>5, <1>8, <2>1, <2>2
  <1>9. CASE Steer(t) /\ ~Enqueue(t)
    <2>1. /\ pc[t] = "steer" /\ todo[t] = <<>> /\ UNCHANGED <<stack, signals, todo>>
          /\ steering' \in {steering, steering + 1} /\ pc'[t] = "idle"
          /\ \A u \in Tasks \ {t} : pc'[u] = pc[u] /\ todo'[u] = todo[u]
      BY <1>9 DEF Steer, Ready, Goto, TypeOK
    <2>2. Announced(h)' = Announced(h) \ {t} /\ t \in Announced(h)
      <3>1. Len(todo[t]) = 0
        BY <2>1, EmptySeq
      <3>2. QED
        BY <2>1, <3>1 DEF Announced
    <2>3. IsFiniteSet(Announced(h))
      BY DEF Balanced
    <2>4. IsFiniteSet(Announced(h)') /\ Cardinality(Announced(h)') = Cardinality(Announced(h)) - 1
          /\ Cardinality(Announced(h)) \in Nat
      BY <2>2, <2>3, FS_RemoveElement, FS_CardinalityType
    <2>5. InFlight' \in {InFlight, InFlight + 1}
      BY <2>1, InFlightType DEF InFlight, Hit
    <2>6. Told(h, Ended) \in Nat /\ Told(h, Begun) \in Nat /\ InFlight \in Nat
          /\ CountIn(For(h, Ended), todo[Zb]) \in Nat
      BY CountsAreNumbers, InFlightType
    <2>7. Told(h, Ended) + CountIn(For(h, Ended), todo[Zb]) + InFlight + Cardinality(Announced(h))
            <= Told(h, Begun) + 1
      BY DEF Balanced
    <2>8. Told(h, Ended)' + CountIn(For(h, Ended), todo'[Zb]) + InFlight' + Cardinality(Announced(h)')
            <= Told(h, Begun)' + 1
      BY <1>3, <1>9, <2>1, <2>4, <2>5, <2>6, <2>7
    <2>9. QED
      BY <2>4, <2>8 DEF Balanced
  <1>10. QED
    BY <1>1, <1>6, <1>7, <1>8, <1>9 DEF Advance

LEMMA AnnouncedStep ==
  ASSUME TypeOK, SpeakerInv, AnnouncedInv, [Next]_vars
  PROVE  AnnouncedInv'
  <1> SUFFICES ASSUME NEW h \in Handlers
               PROVE  Balanced(h)'
    BY DEF AnnouncedInv, Balanced
  <1>1. Balanced(h)
    BY BalancedIs
  <1>2. ASSUME UNCHANGED <<queue, seen, pc, todo>>, InFlight' = InFlight
        PROVE  Balanced(h)'
    <2>1. Told(h, Ended)' = Told(h, Ended) /\ Told(h, Begun)' = Told(h, Begun)
          /\ Announced(h)' = Announced(h)
      BY <1>2 DEF Told, Announced
    <2>2. QED
      BY <1>1, <1>2, <2>1, BalancedQuiet, InFlightType, CountsAreNumbers
  <1>3. CASE UNCHANGED vars
    BY <1>2, <1>3, InFlightSame DEF vars, stackVars
  <1>4. ASSUME \/ Start
               \/ \E ok \in BOOLEAN : Initialised(ok) \/ SteeringEnds(ok)
               \/ RemovedByNetwork \/ NetworkStatus
        PROVE  Balanced(h)'
    <2>1. UNCHANGED <<queue, seen, pc, todo>>
      BY <1>4 DEF Start, Initialised, SteeringEnds, RemovedByNetwork, NetworkStatus
    <2>2. QED
      BY <1>2, <1>4, <2>1, InFlightStack
  <1>5. ASSUME NEW t \in Tasks, NEW place, place # "steer", pc[t] # "steer", Goto(t, place),
               UNCHANGED <<stack, steering, signals, todo>>,
               Told(h, Ended)' = Told(h, Ended), Told(h, Begun)' = Told(h, Begun)
        PROVE  Balanced(h)'
    <2>1. /\ pc'[t] = place
          /\ \A u \in Tasks \ {t} : pc'[u] = pc[u] /\ todo'[u] = todo[u]
      BY <1>5 DEF Goto, TypeOK
    <2>2. Announced(h)' = Announced(h)
      BY <1>5, <2>1, AnnouncedKept
    <2>3. QED
      BY <1>1, <1>5, <2>2, BalancedQuiet, InFlightType, InFlightSame, CountsAreNumbers
  <1>6. CASE RetryFires
    <2>1. pc[Timer] = "idle" /\ Goto(Timer, "join") /\ Timer \in Tasks
          /\ UNCHANGED <<stack, steering, signals, todo, queue, seen>>
      BY <1>6 DEF RetryFires, Ready, stackVars, Tasks
    <2>2. QED
      BY <1>5, <2>1 DEF Told
  <1>7. ASSUME NEW t \in Clients, NEW place \in {"join", "leave"}, AppCalls(t, place)
        PROVE  Balanced(h)'
    <2>1. t \in Tasks /\ pc[t] = "idle" /\ Goto(t, place)
          /\ UNCHANGED <<stack, steering, signals, todo, queue, seen>>
      BY <1>7 DEF AppCalls, Ready, Tasks, stackVars
    <2>2. QED
      BY <1>5, <2>1 DEF Told
  <1>8. ASSUME NEW place \in {"join", "leave", "idle"}, RunHandler(place)
        PROVE  Balanced(h)'
    <2>1. Loop \in Tasks /\ pc[Loop] = "idle" /\ Goto(Loop, place)
          /\ UNCHANGED <<stack, steering, signals, todo>>
      BY <1>8 DEF RunHandler, Ready, Tasks, stackVars
    <2>2. Told(h, Ended)' = Told(h, Ended) /\ Told(h, Begun)' = Told(h, Begun)
      BY <1>8, ToldRun
    <2>3. QED
      BY <1>5, <2>1, <2>2
  <1>9. QED
    BY <1>1, <1>3, <1>4, <1>6, <1>7, <1>8, BalancedHandle, BalancedAdvance DEF Next

-------------------------------------------------------------------------------
(* What a handler sees is a prefix of what was queued for it *)

LEMMA PrefixInit == Init => PrefixInv
  <1> SUFFICES ASSUME Init, NEW h \in Handlers, NEW n \in 0 .. Len(queue)
               PROVE  CountIn(Ended, seen[h]) + CountTo(For(h, Ended), queue, n)
                        <= CountIn(Begun, seen[h]) + CountTo(For(h, Begun), queue, n) + 1
    BY DEF PrefixInv
  <1>1. queue = <<>> /\ seen[h] = <<>>
    BY DEF Init
  <1>2. n = 0
    BY <1>1, EmptySeq
  <1>3. QED
    BY <1>1, <1>2, CountInEmpty, CountZero

\* The counts are taken over the whole queue in AnnouncedInv.
LEMMA AnnouncedTotal ==
  ASSUME TypeOK, AnnouncedInv, NEW h \in Handlers
  PROVE  Told(h, Ended) <= Told(h, Begun) + 1
  <1>1. Told(h, Ended) + CountIn(For(h, Ended), todo[Zb]) + InFlight + Cardinality(Announced(h))
          <= Told(h, Begun) + 1
        /\ IsFiniteSet(Announced(h))
    BY DEF AnnouncedInv
  <1>2. Cardinality(Announced(h)) \in Nat
    BY <1>1, FS_CardinalityType
  <1>3. Told(h, Ended) \in Nat /\ Told(h, Begun) \in Nat /\ InFlight \in Nat
        /\ CountIn(For(h, Ended), todo[Zb]) \in Nat
    BY CountsAreNumbers, InFlightType
  <1>4. QED
    BY <1>1, <1>2, <1>3

LEMMA PrefixEnqueue ==
  ASSUME TypeOK, PrefixInv, AnnouncedInv', NEW t \in Tasks, Enqueue(t), TypeOK'
  PROVE  PrefixInv'
  <1> SUFFICES ASSUME NEW h \in Handlers, NEW n \in 0 .. Len(queue')
               PROVE  CountIn(Ended, seen[h]) + CountTo(For(h, Ended), queue', n)
                        <= CountIn(Begun, seen[h]) + CountTo(For(h, Begun), queue', n) + 1
    BY EnqueueIs DEF PrefixInv
  <1>1. queue \in Seq(Entries) /\ Head(todo[t]) \in Entries
        /\ queue' = Append(queue, Head(todo[t])) /\ seen' = seen
    BY EnqueueIs
  <1>2. Len(queue) \in Nat /\ Len(queue') = Len(queue) + 1
    BY <1>1, AppendProperties, LenProperties
  <1>3. CASE n <= Len(queue)
    <2>1. n \in 0 .. Len(queue)
      BY <1>2, <1>3
    <2>2. CountTo(For(h, Ended), queue', n) = CountTo(For(h, Ended), queue, n)
          /\ CountTo(For(h, Begun), queue', n) = CountTo(For(h, Begun), queue, n)
      BY <1>1, <2>1, CountAppend
    <2>3. QED
      BY <2>1, <2>2 DEF PrefixInv
  <1>4. CASE n = Len(queue')
    <2>1. Told(h, Ended)' <= Told(h, Begun)' + 1
      <3>1. /\ Told(h, Ended)' + CountIn(For(h, Ended), todo[Zb])' + InFlight'
                 + Cardinality(Announced(h)') <= Told(h, Begun)' + 1
            /\ IsFiniteSet(Announced(h)')
        BY DEF AnnouncedInv
      <3>2. Cardinality(Announced(h)') \in Nat
        BY <3>1, FS_CardinalityType
      <3>3. InFlight' \in Nat
        BY EnqueueIs, InFlightSame, InFlightType DEF stackVars
      <3>4. Told(h, Ended)' \in Nat /\ Told(h, Begun)' \in Nat
        BY ToldEnqueue, CountsAreNumbers DEF Hit
      <3>5. CountIn(For(h, Ended), todo[Zb])' \in Nat
        <4>1. todo'[Zb] \in Seq(Entries)
          BY DEF TypeOK, Entries, Tasks
        <4>2. QED
          BY <4>1, CountInType
      <3>6. QED
        BY <3>1, <3>2, <3>3, <3>4, <3>5
    <2>2. QED
      BY <1>1, <1>4, <2>1 DEF Told, CountIn
  <1>5. QED
    BY <1>2, <1>3, <1>4

LEMMA PrefixRun ==
  ASSUME TypeOK, PrefixInv, NEW place, RunHandler(place)
  PROVE  PrefixInv'
  <1> SUFFICES ASSUME NEW h \in Handlers, NEW n \in 0 .. Len(queue')
               PROVE  CountIn(Ended, seen'[h]) + CountTo(For(h, Ended), queue', n)
                        <= CountIn(Begun, seen'[h]) + CountTo(For(h, Begun), queue', n) + 1
    BY DEF PrefixInv
  <1>1. n + 1 \in 0 .. Len(queue)
    BY RunHandlerIs
  <1>2. CountIn(Ended, seen'[h]) + CountTo(For(h, Ended), queue', n)
          = CountIn(Ended, seen[h]) + CountTo(For(h, Ended), queue, n + 1)
    BY RunMoves
  <1>3. CountIn(Begun, seen'[h]) + CountTo(For(h, Begun), queue', n)
          = CountIn(Begun, seen[h]) + CountTo(For(h, Begun), queue, n + 1)
    BY RunMoves
  <1>4. CountIn(Ended, seen[h]) + CountTo(For(h, Ended), queue, n + 1)
          <= CountIn(Begun, seen[h]) + CountTo(For(h, Begun), queue, n + 1) + 1
    BY <1>1 DEF PrefixInv
  <1>5. QED
    BY <1>2, <1>3, <1>4

LEMMA PrefixStep ==
  ASSUME TypeOK, PrefixInv, TypeOK', AnnouncedInv', [Next]_vars
  PROVE  PrefixInv'
  <1>1. ASSUME UNCHANGED <<queue, seen>>
        PROVE  PrefixInv'
    BY <1>1 DEF PrefixInv
  <1>2. \/ UNCHANGED <<queue, seen>>
        \/ \E t \in Tasks : Enqueue(t)
        \/ \E place : RunHandler(place)
    <2>1. CASE UNCHANGED vars
      BY <2>1 DEF vars
    <2>2. CASE Handle
      BY <2>2 DEF Handle, HandleSkipStartup, HandleDeviceReboot, HandleNetworkSteering,
                  HandleLeaveNetwork, HandleNetworkStatus, HandleSignal, ScheduleRetry
    <2>3. ASSUME NEW t \in Tasks, Advance(t)
          PROVE  UNCHANGED <<queue, seen>> \/ Enqueue(t)
      BY <2>3 DEF Advance, Join, Steer, Leave, RequestLeave
    <2>4. ASSUME \/ Start
                 \/ \E ok \in BOOLEAN : Initialised(ok) \/ SteeringEnds(ok)
                 \/ RemovedByNetwork \/ NetworkStatus
                 \/ RetryFires
                 \/ \E t \in Clients, place \in {"join", "leave"} : AppCalls(t, place)
          PROVE  UNCHANGED <<queue, seen>>
      BY <2>4 DEF Start, Initialised, SteeringEnds, RemovedByNetwork, NetworkStatus,
                  RetryFires, AppCalls
    <2>5. QED
      BY <2>1, <2>2, <2>3, <2>4 DEF Next
  <1>3. QED
    BY <1>1, <1>2, PrefixEnqueue, PrefixRun

LEMMA PrefixImplies == TypeOK /\ PrefixInv => OutcomeAfterJoining
  <1> SUFFICES ASSUME TypeOK, PrefixInv, NEW h \in Handlers
               PROVE  Count("JOINED", seen[h]) + Count("JOIN_FAIL", seen[h])
                        <= Count("JOINING", seen[h]) + 1
    BY DEF OutcomeAfterJoining
  <1>1. queue \in Seq(Entries) /\ seen[h] \in Seq(Events)
    BY DEF TypeOK, Entries
  <1>2. 0 \in 0 .. Len(queue) /\ Len(seen[h]) \in Nat /\ DOMAIN seen[h] = 1 .. Len(seen[h])
    BY <1>1, LenProperties
  <1>3. CountIn(Ended, seen[h]) + CountTo(For(h, Ended), queue, 0)
          <= CountIn(Begun, seen[h]) + CountTo(For(h, Begun), queue, 0) + 1
    BY <1>2 DEF PrefixInv
  <1>4. CountIn(Ended, seen[h]) \in Nat /\ CountIn(Begun, seen[h]) \in Nat
    BY CountsAreNumbers
  <1>5. CountIn(Ended, seen[h]) <= CountIn(Begun, seen[h]) + 1
    BY <1>3, <1>4, CountZero
  <1>6. \A e : Count(e, seen[h]) = CountIn({e}, seen[h])
    BY <1>2 DEF Count, CountIn, CountTo, Places
  <1>7. CountIn(Ended, seen[h]) = CountIn({"JOINED"}, seen[h]) + CountIn({"JOIN_FAIL"}, seen[h])
    <2>1. Ended = {"JOINED"} \cup {"JOIN_FAIL"} /\ {"JOINED"} \cap {"JOIN_FAIL"} = {}
      BY DEF Ended
    <2>2. QED
      BY <1>2, <2>1, CountDisjoint DEF CountIn
  <1>8. QED
    BY <1>5, <1>6, <1>7 DEF Begun

-------------------------------------------------------------------------------
(* The last element of a sequence that is in one of two sets *)

LEMMA LastAppend ==
  ASSUME NEW X, NEW s \in Seq(X), NEW e \in X, NEW J, NEW L
  PROVE  /\ LastIn(Append(s, e), J, L) <=> e \in J \/ (e \notin L /\ LastIn(s, J, L))
         /\ Free(Append(s, e), L) <=> Free(s, L) /\ e \notin L
  <1> DEFINE t == Append(s, e)
  <1>1. /\ Len(s) \in Nat /\ Len(t) = Len(s) + 1
        /\ t[Len(s) + 1] = e
        /\ \A i \in 1 .. Len(s) : t[i] = s[i]
    BY AppendProperties, LenProperties
  <1> HIDE DEF t
  <1>2. ASSUME LastIn(t, J, L), e \notin J
        PROVE  e \notin L /\ LastIn(s, J, L)
    <2>1. PICK i \in 1 .. Len(t) : t[i] \in J /\ \A j \in 1 .. Len(t) : j > i => t[j] \notin L
      BY <1>2 DEF LastIn
    <2>2. i \in 1 .. Len(s) /\ s[i] \in J
      BY <1>1, <1>2, <2>1
    <2>3. e \notin L
      BY <1>1, <2>1, <2>2
    <2>4. \A j \in 1 .. Len(s) : j > i => s[j] \notin L
      BY <1>1, <2>1
    <2>5. QED
      BY <2>2, <2>3, <2>4 DEF LastIn
  <1>3. ASSUME e \in J
        PROVE  LastIn(t, J, L)
    <2>1. Len(t) \in 1 .. Len(t) /\ t[Len(t)] \in J /\ \A j \in 1 .. Len(t) : ~(j > Len(t))
      BY <1>1, <1>3
    <2>2. QED
      BY <2>1 DEF LastIn
  <1>4. ASSUME e \notin L, LastIn(s, J, L)
        PROVE  LastIn(t, J, L)
    <2>1. PICK i \in 1 .. Len(s) : s[i] \in J /\ \A j \in 1 .. Len(s) : j > i => s[j] \notin L
      BY <1>4 DEF LastIn
    <2>2. i \in 1 .. Len(t) /\ t[i] \in J
      BY <1>1, <2>1
    <2>3. ASSUME NEW j \in 1 .. Len(t), j > i
          PROVE  t[j] \notin L
      <3>1. CASE j \in 1 .. Len(s)
        BY <1>1, <2>1, <2>3, <3>1
      <3>2. CASE j = Len(s) + 1
        BY <1>1, <1>4, <3>2
      <3>3. QED
        BY <1>1, <3>1, <3>2
    <2>4. QED
      BY <2>2, <2>3 DEF LastIn
  <1>5. Free(t, L) <=> Free(s, L) /\ e \notin L
    <2>1. 1 .. Len(t) = 1 .. Len(s) \cup {Len(s) + 1}
      BY <1>1
    <2>2. QED
      BY <1>1, <2>1 DEF Free
  <1>6. QED
    BY <1>2, <1>3, <1>4, <1>5 DEF t

LEMMA LastTail ==
  ASSUME NEW X, NEW s \in Seq(X), s # <<>>, NEW J, NEW L
  PROVE  /\ LastIn(s, J, L) <=> LastIn(Tail(s), J, L) \/ (Head(s) \in J /\ Free(Tail(s), L))
         /\ Free(s, L) <=> Free(Tail(s), L) /\ Head(s) \notin L
  <1> DEFINE t == Tail(s)
  <1>1. /\ Len(t) = Len(s) - 1 /\ Len(s) \in Nat \ {0} /\ Head(s) = s[1]
        /\ \A i \in 1 .. Len(t) : t[i] = s[i + 1]
    BY HeadTailProperties, EmptySeq
  <1> HIDE DEF t
  <1>2. \A j \in 1 .. Len(s) : j # 1 => j - 1 \in 1 .. Len(t) /\ t[j - 1] = s[j]
    <2> SUFFICES ASSUME NEW j \in 1 .. Len(s), j # 1
                 PROVE  j - 1 \in 1 .. Len(t) /\ t[j - 1] = s[j]
      OBVIOUS
    <2>1. j - 1 \in 1 .. Len(t) /\ (j - 1) + 1 = j
      BY <1>1
    <2>2. QED
      BY <1>1, <2>1
  <1>3. ASSUME LastIn(s, J, L), ~LastIn(t, J, L)
        PROVE  s[1] \in J /\ Free(t, L)
    <2>1. PICK i \in 1 .. Len(s) : s[i] \in J /\ \A j \in 1 .. Len(s) : j > i => s[j] \notin L
      BY <1>3 DEF LastIn
    <2>2. \A j \in 1 .. Len(t) : j + 1 \in 1 .. Len(s) /\ t[j] = s[j + 1]
      BY <1>1
    <2>3. CASE i = 1
      <3>1. \A j \in 1 .. Len(t) : t[j] \notin L
        BY <2>1, <2>2, <2>3
      <3>2. QED
        BY <2>1, <2>3, <3>1 DEF Free
    <2>4. CASE i # 1
      <3>1. i - 1 \in 1 .. Len(t) /\ t[i - 1] \in J
        BY <1>2, <2>1, <2>4
      <3>2. \A j \in 1 .. Len(t) : j > i - 1 => t[j] \notin L
        BY <2>1, <2>2
      <3>3. QED
        BY <1>3, <3>1, <3>2 DEF LastIn
    <2>5. QED
      BY <2>3, <2>4
  <1>4. ASSUME LastIn(t, J, L)
        PROVE  LastIn(s, J, L)
    <2>1. PICK i \in 1 .. Len(t) : t[i] \in J /\ \A j \in 1 .. Len(t) : j > i => t[j] \notin L
      BY <1>4 DEF LastIn
    <2>2. i + 1 \in 1 .. Len(s) /\ s[i + 1] \in J
      BY <1>1, <2>1
    <2>3. \A j \in 1 .. Len(s) : j > i + 1 => s[j] \notin L
      <3> SUFFICES ASSUME NEW j \in 1 .. Len(s), j > i + 1
                   PROVE  s[j] \notin L
        OBVIOUS
      <3>1. j - 1 \in 1 .. Len(t) /\ t[j - 1] = s[j] /\ j - 1 > i
        BY <1>2
      <3>2. QED
        BY <2>1, <3>1
    <2>4. QED
      BY <2>2, <2>3 DEF LastIn
  <1>5. ASSUME s[1] \in J, Free(t, L)
        PROVE  LastIn(s, J, L)
    <2>1. \A j \in 1 .. Len(s) : j > 1 => s[j] \notin L
      BY <1>2, <1>5 DEF Free
    <2>2. 1 \in 1 .. Len(s)
      BY <1>1
    <2>3. QED
      BY <1>5, <2>1, <2>2 DEF LastIn
  <1>6. Free(s, L) <=> Free(t, L) /\ s[1] \notin L
    <2>1. 1 \in 1 .. Len(s) /\ \A j \in 1 .. Len(t) : j + 1 \in 1 .. Len(s) /\ t[j] = s[j + 1]
      BY <1>1
    <2>2. QED
      BY <1>2, <2>1 DEF Free
  <1>7. QED
    BY <1>1, <1>3, <1>4, <1>5, <1>6 DEF t

-------------------------------------------------------------------------------
(* One story for all the handlers *)

LEMMA TellsIndex ==
  ASSUME TypeOK, NEW h \in Handlers, NEW story \in Seq(Outcomes), Tells(h, story)
  PROVE  /\ \A i \in 1 .. Len(seen[h]) : seen[h][i] \in Outcomes =>
               CountTo(Outcomes, seen[h], i) \in 1 .. Len(story)
         /\ \A i \in 1 .. Len(queue) : queue[i] \in For(h, Outcomes) =>
               CountIn(Outcomes, seen[h]) + CountTo(For(h, Outcomes), queue, i) \in 1 .. Len(story)
  <1>1. queue \in Seq(Entries) /\ seen[h] \in Seq(Events) /\ todo[Zb] \in Seq(Entries)
    BY DEF TypeOK, Entries, Tasks
  <1>2. Len(queue) \in Nat /\ Len(seen[h]) \in Nat /\ Len(story) \in Nat
    BY <1>1, LenProperties
  <1>3. CountIn(Outcomes, seen[h]) \in Nat /\ CountIn(For(h, Outcomes), queue) \in Nat
        /\ CountIn(For(h, Outcomes), todo[Zb]) \in Nat
    BY <1>1, CountInType
  <1>4. Len(story) = CountIn(Outcomes, seen[h]) + CountIn(For(h, Outcomes), queue)
                       + CountIn(For(h, Outcomes), todo[Zb])
    BY DEF Tells, Told
  <1>5. ASSUME NEW i \in 1 .. Len(seen[h]), seen[h][i] \in Outcomes
        PROVE  CountTo(Outcomes, seen[h], i) \in 1 .. Len(story)
    <2>1. i \in Nat \ {0} /\ i <= Len(seen[h])
      BY <1>2
    <2>2. CountTo(Outcomes, seen[h], i) >= 1 /\ CountTo(Outcomes, seen[h], i) \in Nat
          /\ CountTo(Outcomes, seen[h], i) <= CountTo(Outcomes, seen[h], Len(seen[h]))
      BY <1>2, <1>5, <2>1, CountAt, CountType, CountGrows
    <2>3. QED
      BY <1>2, <1>3, <1>4, <2>2 DEF CountIn
  <1>6. ASSUME NEW i \in 1 .. Len(queue), queue[i] \in For(h, Outcomes)
        PROVE  CountIn(Outcomes, seen[h]) + CountTo(For(h, Outcomes), queue, i) \in 1 .. Len(story)
    <2>1. i \in Nat \ {0} /\ i <= Len(queue)
      BY <1>2
    <2>2. CountTo(For(h, Outcomes), queue, i) >= 1 /\ CountTo(For(h, Outcomes), queue, i) \in Nat
          /\ CountTo(For(h, Outcomes), queue, i) <= CountTo(For(h, Outcomes), queue, Len(queue))
      BY <1>2, <1>6, <2>1, CountAt, CountType, CountGrows
    <2>3. QED
      BY <1>2, <1>3, <1>4, <2>2 DEF CountIn
  <1>7. QED
    BY <1>5, <1>6

LEMMA TellsSame ==
  ASSUME NEW h \in Handlers, NEW story, Tells(h, story),
         UNCHANGED <<queue, seen>>, todo'[Zb] = todo[Zb]
  PROVE  Tells(h, story)'
  BY DEF Tells, Told

\* An entry goes from the Zigbee task to the queue: the story stays.
LEMMA TellsEnqueue ==
  ASSUME TypeOK, SpeakerInv, NEW t \in Tasks, Enqueue(t),
         NEW h \in Handlers, NEW story, Tells(h, story)
  PROVE  Tells(h, story)'
  <1> DEFINE c == Head(todo[t])
             F == For(h, Outcomes)
             base == CountIn(Outcomes, seen[h])
  <1>1. /\ queue \in Seq(Entries) /\ c \in Entries /\ queue' = Append(queue, c)
        /\ seen' = seen /\ c = todo[t][1] /\ 1 \in 1 .. Len(todo[t])
    BY EnqueueIs
  <1>2. /\ Len(queue) \in Nat /\ Len(queue') = Len(queue) + 1
        /\ queue'[Len(queue) + 1] = c
        /\ \A i \in 1 .. Len(queue) : queue'[i] = queue[i]
    BY <1>1, AppendProperties, LenProperties
  <1>3. /\ \A n \in 0 .. Len(queue) : CountTo(F, queue', n) = CountTo(F, queue, n)
        /\ CountTo(F, queue', Len(queue) + 1) = CountIn(F, queue) + Hit(F, c)
    BY <1>1, <1>2, CountAppend DEF CountIn
  <1>4. Told(h, Outcomes)' = Told(h, Outcomes) + Hit(F, c)
    BY ToldEnqueue
  <1>5. Told(h, Outcomes) = base + CountIn(F, queue) /\ Told(h, Outcomes) \in Nat
        /\ base \in Nat /\ CountIn(F, queue) \in Nat
    BY <1>1, CountsAreNumbers, CountInType DEF Told
  <1>6. CASE t = Zb
    <2>1. /\ todo[Zb] \in Seq(Entries) /\ todo[Zb] # <<>> /\ todo'[Zb] = Tail(todo[Zb])
          /\ Len(todo[Zb]) \in Nat \ {0} /\ Len(Tail(todo[Zb])) = Len(todo[Zb]) - 1
          /\ \A i \in 1 .. Len(Tail(todo[Zb])) : Tail(todo[Zb])[i] = todo[Zb][i + 1]
      BY <1>6, EnqueueIs
    <2>2. /\ \A n \in 0 .. Len(Tail(todo[Zb])) :
                CountTo(F, todo[Zb], n + 1) = Hit(F, c) + CountTo(F, Tail(todo[Zb]), n)
          /\ CountIn(F, todo[Zb]) = Hit(F, c) + CountIn(F, Tail(todo[Zb]))
          /\ CountTo(F, Tail(todo[Zb]), 0) = 0
      BY <1>6, <2>1, CountTail, CountZero
    <2>3. \A i \in 1 .. Len(todo[Zb]) :
             todo[Zb][i] \in F => story[Told(h, Outcomes) + CountTo(F, todo[Zb], i)] = todo[Zb][i][2]
      BY DEF Tells
    <2>4. Hit(F, c) \in Nat /\ CountIn(F, Tail(todo[Zb])) \in Nat
          /\ \A n \in 0 .. Len(Tail(todo[Zb])) : CountTo(F, Tail(todo[Zb]), n) \in Nat
      <3>1. Tail(todo[Zb]) \in Seq(Entries)
        BY <2>1, HeadTailProperties
      <3>2. Len(Tail(todo[Zb])) \in Nat
        BY <2>1
      <3>3. Hit(F, c) \in Nat
        BY DEF Hit
      <3>4. CountIn(F, Tail(todo[Zb])) \in Nat
        BY <3>1, CountInType
      <3>5. \A n \in 0 .. Len(Tail(todo[Zb])) : n \in Nat
        BY <3>2
      <3>6. \A n \in Nat : CountTo(F, Tail(todo[Zb]), n) \in Nat
        BY CountType
      <3>7. QED
        BY <3>3, <3>4, <3>5, <3>6
    <2> HIDE DEF F, base, c
    <2>5. ASSUME NEW i \in 1 .. Len(queue'), queue'[i] \in F
          PROVE  story[base + CountTo(F, queue', i)] = queue'[i][2]
      <3>1. CASE i \in 1 .. Len(queue)
        <4>1. queue'[i] = queue[i] /\ CountTo(F, queue', i) = CountTo(F, queue, i)
          BY <1>2, <1>3, <3>1
        <4>2. story[base + CountTo(F, queue, i)] = queue[i][2]
          BY <2>5, <3>1, <4>1 DEF Tells, base, F
        <4>3. QED
          BY <4>1, <4>2
      <3>2. CASE i = Len(queue) + 1
        <4>1. queue'[i] = c /\ c \in F /\ Hit(F, c) = 1
          BY <1>2, <2>5, <3>2 DEF Hit
        <4>2. 0 \in 0 .. Len(Tail(todo[Zb])) /\ 0 + 1 = 1
          BY <2>1
        <4>3. CountTo(F, todo[Zb], 1) = 1
          BY <2>2, <4>1, <4>2
        <4>4. story[Told(h, Outcomes) + 1] = c[2]
          BY <1>1, <1>6, <2>3, <4>1, <4>3
        <4>5. base + CountTo(F, queue', i) = Told(h, Outcomes) + 1
          BY <1>3, <1>5, <3>2, <4>1
        <4>6. QED
          BY <4>1, <4>4, <4>5
      <3>3. QED
        BY <1>2, <3>1, <3>2
    <2>6. ASSUME NEW i \in 1 .. Len(todo'[Zb]), todo'[Zb][i] \in F
          PROVE  story[Told(h, Outcomes)' + CountTo(F, todo'[Zb], i)] = todo'[Zb][i][2]
      <3>1. i \in 1 .. Len(Tail(todo[Zb])) /\ i \in 0 .. Len(Tail(todo[Zb]))
            /\ i + 1 \in 1 .. Len(todo[Zb])
        BY <2>1
      <3>2. todo'[Zb][i] = todo[Zb][i + 1]
        BY <2>1, <3>1
      <3>3. Told(h, Outcomes)' + CountTo(F, todo'[Zb], i) = Told(h, Outcomes) + CountTo(F, todo[Zb], i + 1)
        BY <1>4, <1>5, <2>1, <2>2, <2>4, <3>1
      <3>4. QED
        BY <2>3, <2>6, <3>1, <3>2, <3>3
    <2>7. Len(story) = Told(h, Outcomes)' + CountIn(F, todo'[Zb])
      <3>1. Len(story) = Told(h, Outcomes) + CountIn(F, todo[Zb])
        BY DEF Tells, F
      <3>2. QED
        BY <1>4, <1>5, <2>1, <2>2, <2>4, <3>1
    <2>8. \A i \in 1 .. Len(seen'[h]) :
            seen'[h][i] \in Outcomes => story[CountTo(Outcomes, seen'[h], i)] = seen'[h][i]
      BY <1>1 DEF Tells
    <2>9. QED
      BY <1>1, <2>5, <2>6, <2>7, <2>8 DEF Tells, F, base
  <1>7. CASE t # Zb
    <2>1. todo'[Zb] = todo[Zb]
      BY <1>7, EnqueueIs DEF Tasks
    <2>2. c \notin F
      BY <1>1, <1>7 DEF SpeakerInv, For
    <2>3. Hit(F, c) = 0
      BY <2>2 DEF Hit
    <2> HIDE DEF F, base, c
    <2>4. Told(h, Outcomes)' = Told(h, Outcomes)
      BY <1>4, <1>5, <2>3
    <2>5. ASSUME NEW i \in 1 .. Len(queue'), queue'[i] \in F
          PROVE  story[base + CountTo(F, queue', i)] = queue'[i][2]
      <3>1. i # Len(queue) + 1
        BY <1>2, <2>2, <2>5
      <3>2. i \in 1 .. Len(queue)
        BY <1>2, <3>1
      <3>3. queue'[i] = queue[i] /\ CountTo(F, queue', i) = CountTo(F, queue, i)
        BY <1>2, <1>3, <3>2
      <3>4. story[base + CountTo(F, queue, i)] = queue[i][2]
        BY <2>5, <3>2, <3>3 DEF Tells, base, F
      <3>5. QED
        BY <3>3, <3>4
    <2>6. QED
      BY <1>1, <2>1, <2>4, <2>5 DEF Tells, F, base
  <1>8. QED
    BY <1>6, <1>7

\* An entry goes from the queue to its handler: the story stays.
LEMMA TellsRun ==
  ASSUME TypeOK, NEW place, RunHandler(place), NEW h \in Handlers, NEW story, Tells(h, story)
  PROVE  Tells(h, story)'
  <1> DEFINE F == For(h, Outcomes)
             base == CountIn(Outcomes, seen[h])
  <1>1. /\ queue' = Tail(queue) /\ Len(queue) \in Nat \ {0} /\ Len(queue') = Len(queue) - 1
        /\ \A i \in 1 .. Len(queue') : queue'[i] = queue[i + 1]
        /\ todo' = todo
    BY RunHandlerIs, EmptySeq
  <1>2. PICK g \in Handlers, e \in Events :
               /\ queue[1] = <<g, e>>
               /\ seen'[g] = Append(seen[g], e)
               /\ \A k \in Handlers \ {g} : seen'[k] = seen[k]
    BY RunHandlerIs
  <1>3. Told(h, Outcomes)' = Told(h, Outcomes)
    BY ToldRun
  <1>4. \A i \in 1 .. Len(queue) :
          queue[i] \in F => story[base + CountTo(F, queue, i)] = queue[i][2]
    BY DEF Tells
  <1>5. ASSUME NEW i \in 1 .. Len(queue'), queue'[i] \in F
        PROVE  story[CountIn(Outcomes, seen'[h]) + CountTo(F, queue', i)] = queue'[i][2]
    <2>1. i \in 0 .. Len(queue') /\ i + 1 \in 1 .. Len(queue) /\ queue'[i] = queue[i + 1]
      BY <1>1
    <2>2. CountIn(Outcomes, seen'[h]) + CountTo(F, queue', i) = base + CountTo(F, queue, i + 1)
      BY <2>1, RunMoves
    <2> HIDE DEF F, base
    <2>3. QED
      BY <1>4, <1>5, <2>1, <2>2
  <1>6. ASSUME NEW i \in 1 .. Len(seen'[h]), seen'[h][i] \in Outcomes
        PROVE  story[CountTo(Outcomes, seen'[h], i)] = seen'[h][i]
    <2>1. CASE h # g
      BY <1>2, <1>6, <2>1 DEF Tells
    <2>2. CASE h = g
      <3>1. seen[h] \in Seq(Events) /\ seen'[h] = Append(seen[h], e)
        BY <1>2, <2>2 DEF TypeOK
      <3>2. /\ Len(seen[h]) \in Nat /\ Len(seen'[h]) = Len(seen[h]) + 1
            /\ seen'[h][Len(seen[h]) + 1] = e
            /\ \A j \in 1 .. Len(seen[h]) : seen'[h][j] = seen[h][j]
        BY <3>1, AppendProperties, LenProperties
      <3>3. /\ \A n \in 0 .. Len(seen[h]) :
                  CountTo(Outcomes, seen'[h], n) = CountTo(Outcomes, seen[h], n)
            /\ CountIn(Outcomes, seen'[h]) = base + Hit(Outcomes, e)
        BY <3>1, CountAppend
      <3>4. CASE i \in 1 .. Len(seen[h])
        BY <1>6, <3>2, <3>3, <3>4 DEF Tells
      <3>5. CASE i = Len(seen[h]) + 1
        <4>1. seen'[h][i] = e /\ e \in Outcomes /\ Hit(Outcomes, e) = 1
          BY <1>6, <3>2, <3>5 DEF Hit
        <4>2. CountTo(Outcomes, seen'[h], i) = base + 1
          BY <3>2, <3>3, <3>5, <4>1 DEF CountIn
        <4>3. queue[1] \in F /\ queue[1][2] = e /\ 1 \in 1 .. Len(queue)
          BY <1>1, <1>2, <2>2, <4>1 DEF For
        <4>4. CountTo(F, queue, 1) = 1
          <5>1. CountTo(F, queue, 0 + 1) = CountTo(F, queue, 0) + Hit(F, queue[0 + 1])
            BY CountStep
          <5>2. QED
            BY <4>3, <5>1, CountZero DEF Hit
        <4> HIDE DEF F, base
        <4>5. story[base + 1] = e
          BY <1>4, <4>3, <4>4
        <4>6. QED
          BY <4>1, <4>2, <4>5
      <3>6. QED
        BY <3>2, <3>4, <3>5
    <2>3. QED
      BY <2>1, <2>2
  <1>7. Len(story) = Told(h, Outcomes)' + CountIn(F, todo'[Zb])
    BY <1>1, <1>3 DEF Tells
  <1>8. \A i \in 1 .. Len(todo'[Zb]) :
          todo'[Zb][i] \in F => story[Told(h, Outcomes)' + CountTo(F, todo'[Zb], i)] = todo'[Zb][i][2]
    BY <1>1, <1>3 DEF Tells
  <1>9. QED
    BY <1>5, <1>6, <1>7, <1>8 DEF Tells

\* The Zigbee task starts to tell e: the story goes on with an outcome.
LEMMA TellsPost ==
  ASSUME TypeOK, NEW e \in Events, NEW next, todo[Zb] = <<>>, Post(Zb, e, next),
         UNCHANGED <<queue, seen>>,
         NEW h \in Handlers, NEW story \in Seq(Outcomes), Tells(h, story)
  PROVE  /\ e \in Outcomes => Tells(h, Append(story, e))'
         /\ e \notin Outcomes => Tells(h, story)'
  <1> DEFINE F == For(h, Outcomes)
             base == CountIn(Outcomes, seen[h])
             longer == Append(story, e)
  <1>1. todo'[Zb] = CallsFor(e)
    BY DEF TypeOK, Post, Tasks
  <1>2. Told(h, Outcomes)' = Told(h, Outcomes)
    BY DEF Told
  <1>3. CountIn(F, todo'[Zb]) = Hit(Outcomes, e) /\ CountTo(F, todo'[Zb], h) = Hit(Outcomes, e)
    BY <1>1, CallsForCount
  <1>4. \A i \in 1 .. Len(todo'[Zb]) : todo'[Zb][i] = <<i, e>>
    BY <1>1, CallsForIs DEF Handlers
  <1>5. \A i \in 1 .. Len(todo'[Zb]) : todo'[Zb][i] \in F <=> i = h /\ e \in Outcomes
    <2>1. \A i : <<i, e>> \in F <=> i = h /\ e \in Outcomes
      BY DEF For
    <2>2. QED
      BY <1>4, <2>1
  <1>6. Len(story) = Told(h, Outcomes) /\ Len(story) \in Nat
    <2>1. Len(story) = Told(h, Outcomes) + CountIn(F, todo[Zb])
      BY DEF Tells
    <2>2. CountIn(F, todo[Zb]) = 0 /\ Told(h, Outcomes) \in Nat
      BY CountsAreNumbers
    <2>3. QED
      BY <2>1, <2>2
  <1>7. CASE e \in Outcomes
    <2>1. /\ Len(longer) = Len(story) + 1
          /\ longer[Len(story) + 1] = e
          /\ \A i \in 1 .. Len(story) : longer[i] = story[i]
      BY <1>7, AppendProperties
    <2> HIDE DEF longer
    <2>2. \A i \in 1 .. Len(seen'[h]) :
            seen'[h][i] \in Outcomes => longer[CountTo(Outcomes, seen'[h], i)] = seen'[h][i]
      <3>1. SUFFICES ASSUME NEW i \in 1 .. Len(seen[h]), seen[h][i] \in Outcomes
                     PROVE  longer[CountTo(Outcomes, seen[h], i)] = seen[h][i]
        OBVIOUS
      <3>2. CountTo(Outcomes, seen[h], i) \in 1 .. Len(story)
        BY <3>1, TellsIndex
      <3>3. story[CountTo(Outcomes, seen[h], i)] = seen[h][i]
        BY <3>1 DEF Tells
      <3>4. QED
        BY <2>1, <3>2, <3>3
    <2>3. \A i \in 1 .. Len(queue') :
            queue'[i] \in F => longer[CountIn(Outcomes, seen'[h]) + CountTo(F, queue', i)] = queue'[i][2]
      <3>1. SUFFICES ASSUME NEW i \in 1 .. Len(queue), queue[i] \in F
                     PROVE  longer[base + CountTo(F, queue, i)] = queue[i][2]
        OBVIOUS
      <3>2. base + CountTo(F, queue, i) \in 1 .. Len(story)
        BY <3>1, TellsIndex
      <3>3. story[base + CountTo(F, queue, i)] = queue[i][2]
        BY <3>1 DEF Tells
      <3> HIDE DEF F, base
      <3>4. QED
        BY <2>1, <3>2, <3>3
    <2>4. \A i \in 1 .. Len(todo'[Zb]) :
            todo'[Zb][i] \in F =>
              longer[Told(h, Outcomes)' + CountTo(F, todo'[Zb], i)] = todo'[Zb][i][2]
      <3>1. Hit(Outcomes, e) = 1
        BY <1>7 DEF Hit
      <3> HIDE DEF F
      <3>2. QED
        BY <1>2, <1>3, <1>4, <1>5, <1>6, <2>1, <3>1
    <2>5. Len(longer) = Told(h, Outcomes)' + CountIn(F, todo'[Zb])
      <3>1. Hit(Outcomes, e) = 1
        BY <1>7 DEF Hit
      <3>2. QED
        BY <1>2, <1>3, <1>6, <2>1, <3>1
    <2>6. Tells(h, longer)'
      <3>1. longer' = longer
        BY DEF longer
      <3>2. QED
        BY <2>2, <2>3, <2>4, <2>5, <3>1 DEF Tells
    <2>7. QED
      BY <1>7, <2>6 DEF longer
  <1>8. CASE e \notin Outcomes
    <2>1. Hit(Outcomes, e) = 0
      BY <1>8 DEF Hit
    <2>2. Len(story) = Told(h, Outcomes)' + CountIn(F, todo'[Zb])
      BY <1>2, <1>3, <1>6, <2>1
    <2>3. QED
      BY <1>5, <1>8, <2>2 DEF Tells
  <1>9. QED
    BY <1>7, <1>8

-------------------------------------------------------------------------------
(* The story and the pending signals tell whether the node is joined *)

\* What one more signal changes.
LEMMA SignalEnds ==
  ASSUME TypeOK, NEW kind \in SignalKinds, NEW ok \in BOOLEAN, Signal(kind, ok), NEW story
  PROVE  /\ ok /\ kind = "STEERING" => EndsJoined(story)'
         /\ kind = "LEAVE" => ~EndsJoined(story)'
         /\ (kind # "LEAVE" /\ factoryNew' = factoryNew) =>
               (EndsJoined(story)' <=> \/ [kind |-> kind, ok |-> ok] \in JoinSignals
                                       \/ EndsJoined(story))
  <1> DEFINE x == [kind |-> kind, ok |-> ok]
  <1>1. signals \in Seq(SignalSet) /\ x \in SignalSet /\ signals' = Append(signals, x)
    BY DEF TypeOK, SignalSet, SignalKinds, Signal
  <1>2. x \in LeaveSignals <=> kind = "LEAVE"
    BY <1>1 DEF LeaveSignals
  <1>3. ok /\ kind = "STEERING" => x \in JoinSignals'
    BY <1>1 DEF JoinSignals
  <1>4. kind = "LEAVE" => x \notin JoinSignals'
    BY <1>1 DEF JoinSignals
  <1>5. factoryNew' = factoryNew => JoinSignals' = JoinSignals
    BY DEF JoinSignals
  <1>6. LeaveSignals' = LeaveSignals
    BY DEF LeaveSignals
  <1> HIDE DEF x
  <1>7. /\ LastIn(signals', JoinSignals', LeaveSignals)
             <=> x \in JoinSignals' \/ (x \notin LeaveSignals /\ LastIn(signals, JoinSignals', LeaveSignals))
        /\ Free(signals', LeaveSignals) <=> Free(signals, LeaveSignals) /\ x \notin LeaveSignals
    BY <1>1, LastAppend
  <1>8. EndsJoined(story)' <=> \/ LastIn(signals', JoinSignals', LeaveSignals)
                               \/ /\ Free(signals', LeaveSignals)
                                  /\ LastIn(story, {"JOINED"}, {"LEFT"})
    BY <1>6 DEF EndsJoined, LastIn, Free
  <1>9. EndsJoined(story) <=> \/ LastIn(signals, JoinSignals, LeaveSignals)
                              \/ /\ Free(signals, LeaveSignals)
                                 /\ LastIn(story, {"JOINED"}, {"LEFT"})
    BY DEF EndsJoined
  <1>10. ok /\ kind = "STEERING" => EndsJoined(story)'
    BY <1>3, <1>7, <1>8
  <1>11. kind = "LEAVE" => ~EndsJoined(story)'
    BY <1>2, <1>4, <1>7, <1>8
  <1>12. (kind # "LEAVE" /\ factoryNew' = factoryNew) =>
             (EndsJoined(story)' <=> x \in JoinSignals \/ EndsJoined(story))
    BY <1>2, <1>5, <1>7, <1>8, <1>9
  <1>13. QED
    BY <1>10, <1>11, <1>12 DEF x

\* What it changes to tell a signal, when the story follows.
LEMMA HandleEnds ==
  ASSUME TypeOK, HandleSignal, NEW story, NEW longer,
         LastIn(longer, {"JOINED"}, {"LEFT"})
           <=> \/ Head(signals) \in JoinSignals
               \/ Head(signals) \notin LeaveSignals /\ LastIn(story, {"JOINED"}, {"LEFT"})
  PROVE  EndsJoined(longer)' <=> EndsJoined(story)
  <1>1. signals \in Seq(SignalSet) /\ signals # <<>> /\ signals' = Tail(signals)
        /\ factoryNew' = factoryNew
    BY DEF TypeOK, SignalSet, SignalKinds, HandleSignal
  <1>2. JoinSignals' = JoinSignals /\ LeaveSignals' = LeaveSignals
    BY <1>1 DEF JoinSignals, LeaveSignals
  <1>3. /\ LastIn(signals, JoinSignals, LeaveSignals)
             <=> \/ LastIn(signals', JoinSignals, LeaveSignals)
                 \/ Head(signals) \in JoinSignals /\ Free(signals', LeaveSignals)
        /\ Free(signals, LeaveSignals)
             <=> Free(signals', LeaveSignals) /\ Head(signals) \notin LeaveSignals
    BY <1>1, LastTail
  <1>4. EndsJoined(longer)' <=> \/ LastIn(signals', JoinSignals, LeaveSignals)
                                \/ /\ Free(signals', LeaveSignals)
                                   /\ LastIn(longer, {"JOINED"}, {"LEFT"})
    BY <1>2 DEF EndsJoined, LastIn, Free
  <1>5. EndsJoined(story) <=> \/ LastIn(signals, JoinSignals, LeaveSignals)
                              \/ /\ Free(signals, LeaveSignals)
                                 /\ LastIn(story, {"JOINED"}, {"LEFT"})
    BY DEF EndsJoined
  <1>6. QED
    BY <1>3, <1>4, <1>5

LEMMA EndsSame ==
  ASSUME UNCHANGED <<signals, factoryNew>>, NEW story
  PROVE  EndsJoined(story)' <=> EndsJoined(story)
  BY DEF EndsJoined, LastIn, Free, JoinSignals, LeaveSignals

LEMMA StoryStack ==
  ASSUME TypeOK, BootInv, NEW story \in Seq(Outcomes), StoryIs(story),
         \/ Start
         \/ \E ok \in BOOLEAN : Initialised(ok) \/ SteeringEnds(ok)
         \/ RemovedByNetwork \/ NetworkStatus
  PROVE  StoryIs(story)'
  <1>1. \A h \in Handlers : Tells(h, story)'
    <2>1. UNCHANGED <<todo, queue, seen>>
      BY DEF Start, Initialised, SteeringEnds, RemovedByNetwork, NetworkStatus
    <2>2. QED
      BY <2>1, TellsSame DEF StoryIs
  <1>2. joined <=> EndsJoined(story)
    BY DEF StoryIs
  <1>3. joined' <=> EndsJoined(story)'
    <2>1. CASE Start \/ NetworkStatus
      <3>1. PICK kind \in {"SKIP_STARTUP", "NLME_STATUS"} : Signal(kind, TRUE)
        BY <2>1 DEF Start, NetworkStatus
      <3>2. joined' = joined /\ factoryNew' = factoryNew
        BY <2>1 DEF Start, NetworkStatus, stackVars
      <3>3. [kind |-> kind, ok |-> TRUE] \notin JoinSignals
        BY DEF JoinSignals
      <3>4. EndsJoined(story)' <=> EndsJoined(story)
        <4>1. kind \in SignalKinds /\ kind # "LEAVE"
          BY DEF SignalKinds
        <4>2. QED
          BY <3>1, <3>2, <3>3, <4>1, SignalEnds
      <3>5. QED
        BY <1>2, <3>2, <3>4
    <2>2. ASSUME NEW ok \in BOOLEAN, Initialised(ok)
          PROVE  joined' <=> EndsJoined(story)'
      <3>1. joined = FALSE
        BY <2>2 DEF BootInv, Initialised
      <3>2. joined' = (ok /\ ~factoryNew) /\ factoryNew' = factoryNew
            /\ Signal("DEVICE_REBOOT", ok)
        BY <2>2 DEF Initialised
      <3>3. [kind |-> "DEVICE_REBOOT", ok |-> ok] \in JoinSignals <=> ok /\ ~factoryNew
        BY DEF JoinSignals, SignalSet, SignalKinds
      <3>4. EndsJoined(story)' <=> \/ [kind |-> "DEVICE_REBOOT", ok |-> ok] \in JoinSignals
                                   \/ EndsJoined(story)
        <4>1. "DEVICE_REBOOT" \in SignalKinds /\ "DEVICE_REBOOT" # "LEAVE"
          BY DEF SignalKinds
        <4>2. QED
          BY <3>2, <4>1, SignalEnds
      <3>5. QED
        BY <1>2, <3>1, <3>2, <3>3, <3>4
    <2>3. ASSUME NEW ok \in BOOLEAN, SteeringEnds(ok)
          PROVE  joined' <=> EndsJoined(story)'
      <3>1. joined' = (joined \/ ok) /\ factoryNew' = (factoryNew /\ ~ok) /\ Signal("STEERING", ok)
        BY <2>3 DEF SteeringEnds
      <3>2. "STEERING" \in SignalKinds /\ "STEERING" # "LEAVE"
        BY DEF SignalKinds
      <3>3. CASE ok = TRUE
        <4>1. EndsJoined(story)'
          BY <3>1, <3>2, <3>3, SignalEnds
        <4>2. QED
          BY <3>1, <3>3, <4>1
      <3>4. CASE ok = FALSE
        <4>1. factoryNew' = factoryNew /\ joined' = joined
          BY <3>1, <3>4 DEF TypeOK
        <4>2. [kind |-> "STEERING", ok |-> ok] \notin JoinSignals
          BY <3>4 DEF JoinSignals
        <4>3. EndsJoined(story)' <=> EndsJoined(story)
          BY <3>1, <3>2, <4>1, <4>2, SignalEnds
        <4>4. QED
          BY <1>2, <4>1, <4>3
      <3>5. QED
        BY <3>3, <3>4
    <2>4. CASE RemovedByNetwork
      <3>1. joined' = FALSE /\ Signal("LEAVE", TRUE)
        BY <2>4 DEF RemovedByNetwork, Left
      <3>2. ~EndsJoined(story)'
        <4>1. "LEAVE" \in SignalKinds
          BY DEF SignalKinds
        <4>2. QED
          BY <3>1, <4>1, SignalEnds
      <3>3. QED
        BY <3>1, <3>2
    <2>5. QED
      BY <2>1, <2>2, <2>3, <2>4
  <1>4. QED
    BY <1>1, <1>3 DEF StoryIs

LEMMA StoryAdvance ==
  ASSUME TypeOK, SpeakerInv, NEW t \in Tasks, Advance(t),
         NEW story \in Seq(Outcomes), StoryIs(story)
  PROVE  StoryIs(story)'
  <1>1. \A h \in Handlers : Tells(h, story)
    BY DEF StoryIs
  <1>2. joined <=> EndsJoined(story)
    BY DEF StoryIs
  <1>3. CASE UNCHANGED <<joined, factoryNew, signals>>
    <2>1. joined' <=> EndsJoined(story)'
      BY <1>2, <1>3, EndsSame
    <2>2. \A h \in Handlers : Tells(h, story)'
      <3>1. CASE Enqueue(t)
        BY <1>1, <3>1, TellsEnqueue
      <3>2. CASE Steer(t) \/ RequestLeave(t)
        <4>1. UNCHANGED <<queue, seen, todo>>
          BY <3>2 DEF Steer, RequestLeave
        <4>2. QED
          BY <1>1, <4>1, TellsSame
      <3>3. CASE Join(t) \/ Leave(t)
        <4>1. UNCHANGED <<queue, seen>>
          BY <3>3 DEF Join, Leave
        <4>2. CASE UNCHANGED todo
          BY <1>1, <4>1, <4>2, TellsSame
        <4>3. ASSUME NEW e \in {"JOINING", "LEAVING"}, NEW next, Post(t, e, next)
              PROVE  \A h \in Handlers : Tells(h, story)'
          <5>1. CASE t = Zb
            <6>1. e \in Events /\ e \notin Outcomes
              BY <4>3 DEF Events, Outcomes
            <6>2. todo[Zb] = <<>>
              BY <3>3, <5>1 DEF Join, Leave, Ready
            <6>3. QED
              BY <1>1, <4>1, <4>3, <5>1, <6>1, <6>2, TellsPost
          <5>2. CASE t # Zb
            <6>1. todo'[Zb] = todo[Zb]
              BY <4>3, <5>2 DEF Post, TypeOK, Tasks
            <6>2. QED
              BY <1>1, <4>1, <6>1, TellsSame
          <5>3. QED
            BY <5>1, <5>2
        <4>4. QED
          BY <3>3, <4>2, <4>3 DEF Join, Leave
      <3>4. QED
        BY <3>1, <3>2, <3>3 DEF Advance
    <2>3. QED
      BY <2>1, <2>2 DEF StoryIs
  <1>4. CASE RequestLeave(t) /\ Left
    <2>1. joined' = FALSE /\ Signal("LEAVE", TRUE)
      BY <1>4 DEF Left
    <2>2. ~EndsJoined(story)'
      <3>1. "LEAVE" \in SignalKinds
        BY DEF SignalKinds
      <3>2. QED
        BY <2>1, <3>1, SignalEnds
    <2>3. UNCHANGED <<queue, seen, todo>>
      BY <1>4 DEF RequestLeave
    <2>4. \A h \in Handlers : Tells(h, story)'
      BY <1>1, <2>3, TellsSame
    <2>5. QED
      BY <2>1, <2>2, <2>4 DEF StoryIs
  <1>5. QED
    BY <1>3, <1>4 DEF Advance, Enqueue, Join, Steer, Leave, RequestLeave, stackVars

LEMMA StoryRest ==
  ASSUME TypeOK, NEW story \in Seq(Outcomes), StoryIs(story),
         \/ RetryFires
         \/ \E t \in Clients, place \in {"join", "leave"} : AppCalls(t, place)
         \/ \E place \in {"join", "leave", "idle"} : RunHandler(place)
         \/ UNCHANGED vars
  PROVE  StoryIs(story)'
  <1>1. \A h \in Handlers : Tells(h, story)
    BY DEF StoryIs
  <1>2. joined <=> EndsJoined(story)
    BY DEF StoryIs
  <1>3. UNCHANGED <<joined, factoryNew, signals>>
    BY DEF RetryFires, AppCalls, RunHandler, vars, stackVars
  <1>4. joined' <=> EndsJoined(story)'
    BY <1>2, <1>3, EndsSame
  <1>5. \A h \in Handlers : Tells(h, story)'
    <2>1. CASE UNCHANGED <<queue, seen, todo>>
      BY <1>1, <2>1, TellsSame
    <2>2. CASE \E place \in {"join", "leave", "idle"} : RunHandler(place)
      BY <1>1, <2>2, TellsRun
    <2>3. QED
      BY <2>1, <2>2 DEF RetryFires, AppCalls, vars
  <1>6. QED
    BY <1>4, <1>5 DEF StoryIs

\* What the story tells last, when it goes on with e.
LEMMA LastOutcome ==
  ASSUME NEW story \in Seq(Outcomes), NEW e \in Outcomes
  PROVE  /\ Append(story, e) \in Seq(Outcomes)
         /\ e = "JOINED" => LastIn(Append(story, e), {"JOINED"}, {"LEFT"})
         /\ e = "LEFT" => ~LastIn(Append(story, e), {"JOINED"}, {"LEFT"})
         /\ e = "JOIN_FAIL" =>
               (LastIn(Append(story, e), {"JOINED"}, {"LEFT"}) <=> LastIn(story, {"JOINED"}, {"LEFT"}))
  <1>1. Append(story, e) \in Seq(Outcomes)
    BY AppendProperties
  <1>2. LastIn(Append(story, e), {"JOINED"}, {"LEFT"})
          <=> e \in {"JOINED"} \/ (e \notin {"LEFT"} /\ LastIn(story, {"JOINED"}, {"LEFT"}))
    BY LastAppend
  <1>3. QED
    BY <1>1, <1>2

\* A signal told with an outcome, or with none.
LEMMA StoryTold ==
  ASSUME TypeOK, HandleSignal, NEW story \in Seq(Outcomes), StoryIs(story),
         NEW e \in Outcomes, NEW next, Post(Zb, e, next),
         e = "JOINED" => Head(signals) \in JoinSignals,
         e = "LEFT" => Head(signals) \notin JoinSignals /\ Head(signals) \in LeaveSignals,
         e = "JOIN_FAIL" => Head(signals) \notin JoinSignals /\ Head(signals) \notin LeaveSignals
  PROVE  StoryIs(Append(story, e))'
  <1> DEFINE longer == Append(story, e)
  <1>1. joined <=> EndsJoined(story)
    BY DEF StoryIs
  <1>2. joined' = joined /\ UNCHANGED <<queue, seen>> /\ todo[Zb] = <<>>
    BY DEF HandleSignal, Ready
  <1>3. e \in Events
    BY DEF Outcomes, Events
  <1>4. \A h \in Handlers : Tells(h, longer)'
    BY <1>2, <1>3, TellsPost DEF StoryIs
  <1>5. LastIn(longer, {"JOINED"}, {"LEFT"})
           <=> \/ Head(signals) \in JoinSignals
               \/ Head(signals) \notin LeaveSignals /\ LastIn(story, {"JOINED"}, {"LEFT"})
    BY LastOutcome DEF Outcomes
  <1> HIDE DEF longer
  <1>6. EndsJoined(longer)' <=> EndsJoined(story)
    BY <1>5, HandleEnds
  <1>7. longer' = longer
    BY DEF longer
  <1>8. StoryIs(longer)'
    BY <1>1, <1>2, <1>4, <1>6, <1>7 DEF StoryIs
  <1>9. QED
    BY <1>8 DEF longer

LEMMA StoryUntold ==
  ASSUME TypeOK, HandleSignal, NEW story \in Seq(Outcomes), StoryIs(story),
         Head(signals) \notin JoinSignals, Head(signals) \notin LeaveSignals,
         \/ UNCHANGED todo
         \/ \E e \in Events \ Outcomes, next \in At : Post(Zb, e, next)
  PROVE  StoryIs(story)'
  <1>1. joined <=> EndsJoined(story)
    BY DEF StoryIs
  <1>2. joined' = joined /\ UNCHANGED <<queue, seen>> /\ todo[Zb] = <<>>
    BY DEF HandleSignal, Ready
  <1>3. \A h \in Handlers : Tells(h, story)'
    <2>1. CASE UNCHANGED todo
      BY <1>2, <2>1, TellsSame DEF StoryIs
    <2>2. CASE \E e \in Events \ Outcomes, next \in At : Post(Zb, e, next)
      BY <1>2, <2>2, TellsPost DEF StoryIs
    <2>3. QED
      BY <2>1, <2>2
  <1>4. EndsJoined(story)' <=> EndsJoined(story)
    BY HandleEnds
  <1>5. QED
    BY <1>1, <1>2, <1>3, <1>4 DEF StoryIs

LEMMA StoryHandle ==
  ASSUME TypeOK, NEW story \in Seq(Outcomes), StoryIs(story), Handle
  PROVE  \E longer \in Seq(Outcomes) : StoryIs(longer)'
  <1>1. \A e \in Outcomes : Append(story, e) \in Seq(Outcomes)
    BY LastOutcome
  <1>2. HandleSignal => Head(signals) \in SignalSet
    BY HeadTailProperties DEF HandleSignal, TypeOK, SignalSet, SignalKinds
  <1>3. HandleSignal =>
          /\ Head(signals) \in LeaveSignals <=> Head(signals).kind = "LEAVE"
          /\ Head(signals) \in JoinSignals
               <=> /\ Head(signals).ok
                   /\ \/ Head(signals).kind = "STEERING"
                      \/ Head(signals).kind = "DEVICE_REBOOT" /\ ~factoryNew
    BY <1>2 DEF LeaveSignals, JoinSignals
  <1>4. CASE HandleSkipStartup
    <2>1. HandleSignal /\ Head(signals).kind = "SKIP_STARTUP" /\ UNCHANGED todo
      BY <1>4 DEF HandleSkipStartup
    <2>2. QED
      BY <1>3, <2>1, StoryUntold
  <1>5. CASE HandleDeviceReboot
    <2>1. HandleSignal /\ Head(signals).kind = "DEVICE_REBOOT"
      BY <1>5 DEF HandleDeviceReboot
    <2>2. CASE Head(signals).ok /\ ~factoryNew
      <3>1. Post(Zb, "JOINED", "idle")
        BY <1>5, <2>2 DEF HandleDeviceReboot
      <3>2. Head(signals) \in JoinSignals
        BY <1>3, <2>1, <2>2
      <3>3. "JOINED" \in Outcomes
        BY DEF Outcomes
      <3>4. QED
        BY <1>1, <2>1, <3>1, <3>2, <3>3, StoryTold
    <2>3. CASE ~(Head(signals).ok /\ ~factoryNew)
      <3>1. UNCHANGED todo
        BY <1>5, <2>3 DEF HandleDeviceReboot
      <3>2. Head(signals) \notin JoinSignals /\ Head(signals) \notin LeaveSignals
        BY <1>3, <2>1, <2>3
      <3>3. QED
        BY <2>1, <3>1, <3>2, StoryUntold
    <2>4. QED
      BY <2>2, <2>3
  <1>6. CASE HandleNetworkSteering
    <2>1. HandleSignal /\ Head(signals).kind = "STEERING"
      BY <1>6 DEF HandleNetworkSteering
    <2>2. CASE Head(signals).ok
      <3>1. Post(Zb, "JOINED", "idle")
        BY <1>6, <2>2 DEF HandleNetworkSteering
      <3>2. Head(signals) \in JoinSignals
        BY <1>3, <2>1, <2>2
      <3>3. "JOINED" \in Outcomes
        BY DEF Outcomes
      <3>4. QED
        BY <1>1, <2>1, <3>1, <3>2, <3>3, StoryTold
    <2>3. CASE ~Head(signals).ok
      <3>1. Post(Zb, "JOIN_FAIL", "retry")
        BY <1>6, <2>3 DEF HandleNetworkSteering
      <3>2. Head(signals) \notin JoinSignals /\ Head(signals) \notin LeaveSignals
        BY <1>3, <2>1, <2>3
      <3>3. "JOIN_FAIL" \in Outcomes
        BY DEF Outcomes
      <3>4. QED
        BY <1>1, <2>1, <3>1, <3>2, <3>3, StoryTold
    <2>4. QED
      BY <2>2, <2>3
  <1>7. CASE HandleLeaveNetwork
    <2>1. HandleSignal /\ Head(signals).kind = "LEAVE" /\ Post(Zb, "LEFT", "idle")
      BY <1>7 DEF HandleLeaveNetwork
    <2>2. Head(signals) \notin JoinSignals /\ Head(signals) \in LeaveSignals
      BY <1>3, <2>1
    <2>3. "LEFT" \in Outcomes
      BY DEF Outcomes
    <2>4. QED
      BY <1>1, <2>1, <2>2, <2>3, StoryTold
  <1>8. CASE HandleNetworkStatus
    <2>1. HandleSignal /\ Head(signals).kind = "NLME_STATUS" /\ Post(Zb, "NLME_STATUS", "idle")
      BY <1>8 DEF HandleNetworkStatus
    <2>2. Head(signals) \notin JoinSignals /\ Head(signals) \notin LeaveSignals
      BY <1>3, <2>1
    <2>3. "NLME_STATUS" \in Events \ Outcomes /\ "idle" \in At
      BY DEF Events, Outcomes, At
    <2>4. QED
      BY <2>1, <2>2, <2>3, StoryUntold
  <1>9. CASE ScheduleRetry
    <2>1. UNCHANGED <<queue, seen, todo, joined, factoryNew, signals>>
      BY <1>9 DEF ScheduleRetry, stackVars
    <2>2. EndsJoined(story)' <=> EndsJoined(story)
      BY <2>1, EndsSame
    <2>3. \A h \in Handlers : Tells(h, story)'
      BY <2>1, TellsSame DEF StoryIs
    <2>4. StoryIs(story)'
      BY <2>1, <2>2, <2>3 DEF StoryIs
    <2>5. QED
      BY <2>4
  <1>10. QED
    BY <1>4, <1>5, <1>6, <1>7, <1>8, <1>9 DEF Handle

LEMMA StoryInit == Init => StoryInv
  <1> SUFFICES ASSUME Init PROVE StoryInv
    OBVIOUS
  <1>1. /\ queue = <<>> /\ signals = <<>> /\ joined = FALSE /\ todo[Zb] = <<>>
        /\ \A h \in Handlers : seen[h] = <<>>
    BY DEF Init, Tasks
  <1>2. Len(<<>>) = 0 /\ 1 .. 0 = {} /\ <<>> \in Seq(Outcomes)
    BY EmptySeq
  <1>3. \A h \in Handlers : Tells(h, <<>>)
    <2>1. \A h \in Handlers : /\ CountIn(Outcomes, seen[h]) = 0
                              /\ CountIn(For(h, Outcomes), queue) = 0
                              /\ CountIn(For(h, Outcomes), todo[Zb]) = 0
      BY <1>1, CountInEmpty
    <2>2. QED
      BY <1>1, <1>2, <2>1 DEF Tells, Told
  <1>4. ~EndsJoined(<<>>)
    BY <1>1, <1>2 DEF EndsJoined, LastIn
  <1>5. StoryIs(<<>>)
    BY <1>1, <1>3, <1>4 DEF StoryIs
  <1>6. QED
    BY <1>2, <1>5 DEF StoryInv

LEMMA StoryStep ==
  ASSUME TypeOK, BootInv, SpeakerInv, StoryInv, [Next]_vars
  PROVE  StoryInv'
  <1>1. PICK story \in Seq(Outcomes) : StoryIs(story)
    BY DEF StoryInv
  <1>2. \E longer \in Seq(Outcomes) : StoryIs(longer)'
    <2>1. CASE \/ Start
               \/ \E ok \in BOOLEAN : Initialised(ok) \/ SteeringEnds(ok)
               \/ RemovedByNetwork \/ NetworkStatus
      BY <1>1, <2>1, StoryStack
    <2>2. CASE Handle
      BY <1>1, <2>2, StoryHandle
    <2>3. CASE \E t \in Tasks : Advance(t)
      BY <1>1, <2>3, StoryAdvance
    <2>4. CASE \/ RetryFires
               \/ \E t \in Clients, place \in {"join", "leave"} : AppCalls(t, place)
               \/ \E place \in {"join", "leave", "idle"} : RunHandler(place)
               \/ UNCHANGED vars
      BY <1>1, <2>4, StoryRest
    <2>5. QED
      BY <2>1, <2>2, <2>3, <2>4 DEF Next
  <1>3. QED
    BY <1>2 DEF StoryInv

\* The outcomes come from one task, so two handlers never see them in different
\* orders: whatever one handler was told as n-th outcome, so is any other.
HandlersAgree ==
    \A g, h \in Handlers : \A i \in DOMAIN seen[g], j \in DOMAIN seen[h] :
        /\ seen[g][i] \in Outcomes /\ seen[h][j] \in Outcomes
        /\ NumOutcomes(seen[g], i) = NumOutcomes(seen[h], j)
        => seen[g][i] = seen[h][j]

LEMMA StoryImpliesAgreement == TypeOK /\ StoryInv => HandlersAgree
  <1> SUFFICES ASSUME TypeOK, StoryInv,
                      NEW g \in Handlers, NEW h \in Handlers,
                      NEW i \in DOMAIN seen[g], NEW j \in DOMAIN seen[h],
                      seen[g][i] \in Outcomes, seen[h][j] \in Outcomes,
                      NumOutcomes(seen[g], i) = NumOutcomes(seen[h], j)
               PROVE  seen[g][i] = seen[h][j]
    BY DEF HandlersAgree
  <1>1. PICK story \in Seq(Outcomes) : Tells(g, story) /\ Tells(h, story)
    BY DEF StoryInv, StoryIs
  <1>2. seen[g] \in Seq(Events) /\ seen[h] \in Seq(Events)
    BY DEF TypeOK
  <1>3. i \in 1 .. Len(seen[g]) /\ j \in 1 .. Len(seen[h])
    BY <1>2, LenProperties
  <1>4. story[CountTo(Outcomes, seen[g], i)] = seen[g][i]
        /\ story[CountTo(Outcomes, seen[h], j)] = seen[h][j]
    BY <1>1, <1>3 DEF Tells
  <1>5. CountTo(Outcomes, seen[g], i) = CountTo(Outcomes, seen[h], j)
    BY DEF NumOutcomes, CountTo, Places
  <1>6. QED
    BY <1>4, <1>5

LEMMA StoryImpliesKnowledge == TypeOK /\ StoryInv => QuietHandlersKnow
  <1> SUFFICES ASSUME TypeOK, StoryInv, signals = <<>>, queue = <<>>,
                      \A t \in Tasks : todo[t] = <<>>, NEW h \in Handlers
               PROVE  joined <=> \E i \in DOMAIN seen[h] :
                                    /\ seen[h][i] = "JOINED"
                                    /\ \A j \in DOMAIN seen[h] : j > i => seen[h][j] # "LEFT"
    BY DEF QuietHandlersKnow
  <1> DEFINE s == seen[h]
  <1>1. PICK story \in Seq(Outcomes) : StoryIs(story)
    BY DEF StoryInv
  <1>2. joined <=> LastIn(story, {"JOINED"}, {"LEFT"})
    <2>1. Len(signals) = 0 /\ 1 .. 0 = {}
      BY EmptySeq
    <2>2. joined <=> EndsJoined(story)
      BY <1>1 DEF StoryIs
    <2>3. QED
      BY <2>1, <2>2 DEF EndsJoined, LastIn, Free
  <1>3. Tells(h, story)
    BY <1>1 DEF StoryIs
  <1>4. s \in Seq(Events) /\ Len(s) \in Nat /\ DOMAIN s = 1 .. Len(s)
    BY LenProperties DEF TypeOK
  <1>5. Len(story) \in Nat /\ Len(story) = CountTo(Outcomes, s, Len(s))
    <2>1. CountIn(For(h, Outcomes), queue) = 0
      BY CountInEmpty
    <2>2. CountIn(For(h, Outcomes), todo[Zb]) = 0 /\ CountIn(Outcomes, s) \in Nat
      BY CountsAreNumbers DEF Tasks
    <2>3. Len(story) = CountIn(Outcomes, s)
      BY <1>3, <2>1, <2>2 DEF Tells, Told
    <2>4. QED
      BY <2>2, <2>3 DEF CountIn
  <1>6. \A i \in 1 .. Len(s) : s[i] \in Outcomes =>
          /\ story[CountTo(Outcomes, s, i)] = s[i]
          /\ CountTo(Outcomes, s, i) \in 1 .. Len(story)
    BY <1>3, TellsIndex DEF Tells
  <1>7. \A k \in 1 .. Len(story) : \E i \in 1 .. Len(s) :
          s[i] \in Outcomes /\ CountTo(Outcomes, s, i) = k
    BY <1>4, <1>5, CountReaches
  <1>8. "JOINED" \in Outcomes /\ "LEFT" \in Outcomes
    BY DEF Outcomes
  <1> HIDE DEF s
  <1>9. ASSUME LastIn(story, {"JOINED"}, {"LEFT"})
        PROVE  \E i \in 1 .. Len(s) : /\ s[i] = "JOINED"
                                      /\ \A j \in 1 .. Len(s) : j > i => s[j] # "LEFT"
    <2>1. PICK k \in 1 .. Len(story) :
             /\ story[k] = "JOINED"
             /\ \A l \in 1 .. Len(story) : l > k => story[l] # "LEFT"
      BY <1>9 DEF LastIn
    <2>2. PICK i \in 1 .. Len(s) : s[i] \in Outcomes /\ CountTo(Outcomes, s, i) = k
      BY <1>7
    <2>3. s[i] = "JOINED"
      BY <1>6, <2>1, <2>2
    <2>4. ASSUME NEW j \in 1 .. Len(s), j > i, s[j] = "LEFT"
          PROVE  FALSE
      <3>1. story[CountTo(Outcomes, s, j)] = "LEFT" /\ CountTo(Outcomes, s, j) \in 1 .. Len(story)
        BY <1>6, <1>8, <2>4
      <3>2. i \in Nat \ {0} /\ j \in Nat \ {0} /\ i < j
        BY <1>4, <2>4
      <3>3. CountTo(Outcomes, s, i) < CountTo(Outcomes, s, j)
        BY <1>8, <2>4, <3>2, CountOrders
      <3>4. QED
        BY <1>5, <2>1, <2>2, <3>1, <3>3
    <2>5. QED
      BY <2>3, <2>4
  <1>10. ASSUME NEW i \in 1 .. Len(s), s[i] = "JOINED",
                \A j \in 1 .. Len(s) : j > i => s[j] # "LEFT"
         PROVE  LastIn(story, {"JOINED"}, {"LEFT"})
    <2>1. story[CountTo(Outcomes, s, i)] = "JOINED" /\ CountTo(Outcomes, s, i) \in 1 .. Len(story)
      BY <1>6, <1>8, <1>10
    <2>2. ASSUME NEW l \in 1 .. Len(story), l > CountTo(Outcomes, s, i), story[l] = "LEFT"
          PROVE  FALSE
      <3>1. PICK j \in 1 .. Len(s) : s[j] \in Outcomes /\ CountTo(Outcomes, s, j) = l
        BY <1>7
      <3>2. s[j] = "LEFT"
        BY <1>6, <2>2, <3>1
      <3>3. i \in Nat /\ j \in Nat /\ j <= i
        BY <1>4, <1>10, <3>2
      <3>4. CountTo(Outcomes, s, j) <= CountTo(Outcomes, s, i)
        BY <3>3, CountGrows
      <3>5. QED
        BY <1>5, <2>1, <2>2, <3>1, <3>4
    <2>3. QED
      BY <2>1, <2>2 DEF LastIn
  <1>11. QED
    BY <1>2, <1>4, <1>9, <1>10 DEF s

-------------------------------------------------------------------------------
(* The theorems *)

LEMMA SpeakerInit == Init => SpeakerInv
  <1> SUFFICES ASSUME Init PROVE SpeakerInv
    OBVIOUS
  <1>1. \A t \in Tasks : todo[t] = <<>>
    BY DEF Init
  <1>2. Len(<<>>) = 0 /\ 1 .. 0 = {}
    BY EmptySeq
  <1>3. QED
    BY <1>1, <1>2 DEF SpeakerInv

IInv == TypeOK /\ BootInv /\ ChainsInv /\ SpeakerInv /\ AnnouncedInv /\ PrefixInv /\ StoryInv

\* The inductive invariant holds in every state the node, its stack and its
\* application can reach: the boot order, the conserved attempts, the
\* announcements and the one story of outcomes.
THEOREM NodeCorrect == Spec => []IInv
  <1>1. Init => IInv
    BY TypeInit, BootInit, ChainsInit, SpeakerInit, AnnouncedInit, PrefixInit, StoryInit DEF IInv
  <1>2. IInv /\ [Next]_vars => IInv'
    <2> SUFFICES ASSUME IInv, [Next]_vars PROVE IInv'
      OBVIOUS
    <2>1. TypeOK /\ BootInv /\ ChainsInv /\ SpeakerInv /\ AnnouncedInv /\ PrefixInv /\ StoryInv
      BY DEF IInv
    <2>2. TypeOK'
      BY <2>1, TypeStep
    <2>3. BootInv' /\ ChainsInv' /\ SpeakerInv' /\ AnnouncedInv' /\ StoryInv'
      BY <2>1, BootStep, ChainsStep, SpeakerStep, AnnouncedStep, StoryStep
    <2>4. PrefixInv'
      BY <2>1, <2>2, <2>3, PrefixStep
    <2>5. QED
      BY <2>2, <2>3, <2>4 DEF IInv
  <1>3. QED
    BY <1>1, <1>2, PTL DEF Spec

\* Every variable of the node keeps its type, whatever the number of handlers,
\* tasks, calls and failures.
THEOREM NodeTypes == Spec => []TypeOK
  <1>1. IInv => TypeOK
    BY DEF IInv
  <1>2. QED
    BY <1>1, NodeCorrect, PTL

\* No handler is told the outcome of an attempt to join before it was told that
\* the attempt began: joinNetwork posts JOINING before it starts the steering.
THEOREM OutcomeAfterJoiningHolds == Spec => []OutcomeAfterJoining
  <1>1. IInv => OutcomeAfterJoining
    BY PrefixImplies DEF IInv
  <1>2. QED
    BY <1>1, NodeCorrect, PTL

\* When all signals and calls are handled, the last JOINED or LEFT that a handler
\* was told says whether the node is on its network.
THEOREM QuietHandlersKnowHolds == Spec => []QuietHandlersKnow
  <1>1. IInv => QuietHandlersKnow
    BY StoryImpliesKnowledge DEF IInv
  <1>2. QED
    BY <1>1, NodeCorrect, PTL

\* Any two handlers were told the same n-th outcome: one task posts them, and
\* the event loop keeps the order.
THEOREM HandlersAgreeHolds == Spec => []HandlersAgree
  <1>1. IInv => HandlersAgree
    BY StoryImpliesAgreement DEF IInv
  <1>2. QED
    BY <1>1, NodeCorrect, PTL

\* The retries armed or running are never more than the attempt of the start
\* and one for each call of the application: handleNetworkSteering arms one
\* retry for each failed steering.
THEOREM RetryChainsBoundedHolds == Spec => []RetryChainsBounded
  <1>1. IInv => RetryChainsBounded
    BY ChainsImply DEF IInv
  <1>2. QED
    BY <1>1, NodeCorrect, PTL

-------------------------------------------------------------------------------
(* The node tells its handlers the news in turn                            *)
(*                                                                         *)
(* The history `news` is the story of the proof above.  The handlers take  *)
(* turns because postEvent queues one call for each in the order of        *)
(* registration: what the Zigbee task has left of an event is for the      *)
(* last handlers (SuffixInv), so at every place of the queue a handler     *)
(* registered earlier is level with one registered later, or one outcome   *)
(* ahead of it (RoundInv).                                                 *)

\* s is what is left of the calls that postEvent makes for one event.
IsRest(s) == /\ Len(s) <= NumHandlers
             /\ \A i \in 1 .. Len(s) : s[i] = <<NumHandlers - Len(s) + i, s[1][2]>>

SuffixInv == IsRest(todo[Zb])

\* The outcomes h was told, or is told by the first n calls of the queue.
ToldBy(h, n) == CountIn(Outcomes, seen[h]) + CountTo(For(h, Outcomes), queue, n)

RoundInv ==
    \A g, h \in Handlers : g < h =>
        \A n \in 0 .. Len(queue) : ToldBy(h, n) <= ToldBy(g, n) /\ ToldBy(g, n) <= ToldBy(h, n) + 1

NewsInv == /\ news \in Seq(Outcomes)
           /\ \A h \in Handlers : Tells(h, news)
           /\ SuffixInv
           /\ RoundInv

LEMMA CallsForDiffers ==
  ASSUME NEW e, NEW x
  PROVE  /\ CallsFor(e) # <<>>
         /\ CallsFor(e) = CallsFor(x) => e = x
  <1>1. 1 \in Handlers
    BY NodeAssumption DEF Handlers
  <1>2. CallsFor(e)[1] = <<1, e>> /\ CallsFor(x)[1] = <<1, x>>
    BY <1>1, CallsForIs
  <1>3. Len(CallsFor(e)) # 0 /\ Len(<<>>) = 0
    BY CallsForIs, NodeAssumption, EmptySeq
  <1>4. QED
    BY <1>2, <1>3

\* What a step does to the calls on their way to the handlers.
Still == UNCHANGED <<queue, seen>> /\ todo'[Zb] = todo[Zb]
Posted == \E e \in Events, next \in At : /\ todo[Zb] = <<>> /\ Post(Zb, e, next)
                                         /\ UNCHANGED <<queue, seen>>

LEMMA StepIs ==
  ASSUME TypeOK, [Next]_vars
  PROVE  \/ Still
         \/ Posted
         \/ \E t \in Tasks : Enqueue(t)
         \/ \E place \in {"join", "leave", "idle"} : RunHandler(place)
  <1>0. Zb \in Tasks
    BY DEF Tasks
  <1>1. CASE Handle
    <2>1. UNCHANGED <<queue, seen>> /\ todo[Zb] = <<>>
      BY <1>1 DEF Handle, HandleSkipStartup, HandleDeviceReboot, HandleNetworkSteering,
                  HandleLeaveNetwork, HandleNetworkStatus, HandleSignal, ScheduleRetry, Ready
    <2>2. UNCHANGED todo \/ \E e \in Events, next \in At : Post(Zb, e, next)
      BY <1>1 DEF Handle, HandleSkipStartup, HandleDeviceReboot, HandleNetworkSteering,
                  HandleLeaveNetwork, HandleNetworkStatus, ScheduleRetry, Events, At
    <2>3. QED
      BY <2>1, <2>2 DEF Still, Posted
  <1>2. ASSUME NEW t \in Tasks, Advance(t), ~Enqueue(t)
        PROVE  Still \/ Posted
    <2>1. UNCHANGED <<queue, seen>>
      BY <1>2 DEF Advance, Join, Steer, Leave, RequestLeave
    <2>2. UNCHANGED todo \/ \E e \in {"JOINING", "LEAVING"}, next \in At : Post(t, e, next) /\ todo[t] = <<>>
      BY <1>2 DEF Advance, Join, Steer, Leave, RequestLeave, At, Ready
    <2>3. CASE UNCHANGED todo
      BY <2>1, <2>3 DEF Still
    <2>4. ASSUME NEW e \in {"JOINING", "LEAVING"}, NEW next \in At, Post(t, e, next), todo[t] = <<>>
          PROVE  Still \/ Posted
      <3>1. e \in Events
        BY DEF Events
      <3>2. CASE t = Zb
        BY <2>1, <2>4, <3>1, <3>2 DEF Posted
      <3>3. CASE t # Zb
        <4>1. todo'[Zb] = todo[Zb]
          BY <1>0, <2>4, <3>3 DEF Post, TypeOK
        <4>2. QED
          BY <2>1, <4>1 DEF Still
      <3>4. QED
        BY <3>2, <3>3
    <2>5. QED
      BY <2>2, <2>3, <2>4
  <1>3. ASSUME \/ UNCHANGED vars
               \/ Start
               \/ \E ok \in BOOLEAN : Initialised(ok) \/ SteeringEnds(ok)
               \/ RemovedByNetwork \/ NetworkStatus
               \/ RetryFires
               \/ \E t \in Clients, place \in {"join", "leave"} : AppCalls(t, place)
        PROVE  Still
    BY <1>3 DEF Still, vars, Start, Initialised, SteeringEnds, RemovedByNetwork, NetworkStatus,
                RetryFires, AppCalls
  <1>4. QED
    BY <1>1, <1>2, <1>3 DEF Next

\* Only a post of the Zigbee task makes news.
LEMMA AnnouncesIs ==
  ASSUME TypeOK
  PROVE  /\ Still \/ (\E t \in Tasks : Enqueue(t)) \/ (\E place : RunHandler(place))
              => \A x : ~Announces(x)
         /\ \A e, next : Post(Zb, e, next) /\ todo[Zb] = <<>> => (\A x : Announces(x) <=> x = e)
  <1>0. Zb \in Tasks
    BY DEF Tasks
  <1>1. todo'[Zb] = todo[Zb] => \A x : ~Announces(x)
    BY CallsForDiffers DEF Announces
  <1>2. ASSUME NEW t \in Tasks, Enqueue(t)
        PROVE  \A x : ~Announces(x)
    <2>1. CASE t = Zb
      BY <1>2, <2>1, EnqueueIs DEF Announces
    <2>2. CASE t # Zb
      BY <1>0, <1>1, <1>2, <2>2, EnqueueIs
    <2>3. QED
      BY <2>1, <2>2
  <1>3. ASSUME NEW place, RunHandler(place)
        PROVE  \A x : ~Announces(x)
    BY <1>1, <1>3 DEF RunHandler
  <1>4. ASSUME NEW e, NEW next, Post(Zb, e, next), todo[Zb] = <<>>
        PROVE  \A x : Announces(x) <=> x = e
    <2>1. todo'[Zb] = CallsFor(e)
      BY <1>0, <1>4 DEF Post, TypeOK
    <2>2. QED
      BY <1>4, <2>1, CallsForDiffers DEF Announces
  <1>5. Still => \A x : ~Announces(x)
    BY <1>1 DEF Still
  <1>6. QED
    BY <1>2, <1>3, <1>4, <1>5

LEMMA SuffixStep ==
  ASSUME TypeOK, SuffixInv, [Next]_vars
  PROVE  SuffixInv'
  <1>0. Zb \in Tasks /\ NumHandlers \in Nat
    BY NodeAssumption DEF Tasks
  <1>1. CASE todo'[Zb] = todo[Zb]
    BY <1>1 DEF SuffixInv, IsRest
  <1>2. CASE Posted
    <2>1. PICK e \in Events : todo'[Zb] = CallsFor(e)
      BY <1>0, <1>2 DEF Posted, Post, TypeOK
    <2>2. Len(CallsFor(e)) = NumHandlers /\ \A i \in 1 .. NumHandlers : CallsFor(e)[i] = <<i, e>>
      BY CallsForIs DEF Handlers
    <2>3. CallsFor(e)[1][2] = e
      BY <2>2, NodeAssumption
    <2>4. QED
      BY <1>0, <2>1, <2>2, <2>3 DEF SuffixInv, IsRest
  <1>3. CASE Enqueue(Zb)
    <2>1. /\ Len(todo[Zb]) \in Nat \ {0} /\ Len(todo'[Zb]) = Len(todo[Zb]) - 1
          /\ \A i \in 1 .. Len(todo'[Zb]) : todo'[Zb][i] = todo[Zb][i + 1]
      <3>1. /\ Len(todo[Zb]) \in Nat \ {0} /\ Len(Tail(todo[Zb])) = Len(todo[Zb]) - 1
            /\ todo'[Zb] = Tail(todo[Zb])
            /\ \A i \in 1 .. Len(Tail(todo[Zb])) : Tail(todo[Zb])[i] = todo[Zb][i + 1]
        BY <1>0, <1>3, EnqueueIs
      <3>2. Len(todo'[Zb]) = Len(todo[Zb]) - 1
        BY <3>1
      <3>3. \A i \in 1 .. Len(todo'[Zb]) : todo'[Zb][i] = todo[Zb][i + 1]
        BY <3>1, Zenon
      <3>4. QED
        BY <3>1, <3>2, <3>3
    <2>2. \A i \in 1 .. Len(todo'[Zb]) :
             todo'[Zb][i] = <<NumHandlers - Len(todo'[Zb]) + i, todo[Zb][1][2]>>
      <3>1. SUFFICES ASSUME NEW i \in 1 .. Len(todo'[Zb])
                     PROVE  todo'[Zb][i] = <<NumHandlers - Len(todo'[Zb]) + i, todo[Zb][1][2]>>
        OBVIOUS
      <3>2. i + 1 \in 1 .. Len(todo[Zb]) /\ todo'[Zb][i] = todo[Zb][i + 1]
        BY <2>1
      <3>3. todo[Zb][i + 1] = <<NumHandlers - Len(todo[Zb]) + (i + 1), todo[Zb][1][2]>>
        BY <3>2 DEF SuffixInv, IsRest
      <3>4. NumHandlers - Len(todo[Zb]) + (i + 1) = NumHandlers - Len(todo'[Zb]) + i
        BY <1>0, <2>1
      <3>5. QED
        BY <3>2, <3>3, <3>4
    <2>3. \A i \in 1 .. Len(todo'[Zb]) : todo'[Zb][1][2] = todo[Zb][1][2]
      BY <2>1, <2>2
    <2>4. Len(todo'[Zb]) <= NumHandlers
      BY <1>0, <2>1 DEF SuffixInv, IsRest
    <2>5. QED
      BY <2>2, <2>3, <2>4 DEF SuffixInv, IsRest
  <1>4. ASSUME NEW t \in Tasks \ {Zb}, Enqueue(t)
        PROVE  todo'[Zb] = todo[Zb]
    BY <1>0, <1>4, EnqueueIs
  <1>5. ASSUME NEW place, RunHandler(place)
        PROVE  todo'[Zb] = todo[Zb]
    BY <1>5 DEF RunHandler
  <1>6. QED
    BY <1>1, <1>2, <1>3, <1>4, <1>5, StepIs DEF Still

\* What is left of an event is for the last handlers.
LEMMA SuffixCount ==
  ASSUME NEW s \in Seq(Entries), IsRest(s), NEW g \in Handlers, NEW h \in Handlers, g < h
  PROVE  /\ CountIn(For(g, Outcomes), s) <= CountIn(For(h, Outcomes), s)
         /\ CountIn(For(h, Outcomes), s) <= CountIn(For(g, Outcomes), s) + 1
  <1> DEFINE e == s[1][2]
             skip == NumHandlers - Len(s)
  <1>2. Len(s) \in Nat /\ NumHandlers \in Nat /\ Len(s) <= NumHandlers /\ skip \in Nat
    BY NodeAssumption, LenProperties DEF IsRest
  <1>3. \A i \in 1 .. Len(s) : s[i] = <<skip + i, e>>
    BY DEF IsRest
  <1>4. \A k \in Handlers : \A i \in 1 .. Len(s) : s[i] \in For(k, Outcomes) <=> skip + i = k /\ e \in Outcomes
    <2>1. \A k, i : <<skip + i, e>> \in For(k, Outcomes) <=> skip + i = k /\ e \in Outcomes
      BY DEF For
    <2>2. QED
      BY <1>3, <2>1
  <1> HIDE DEF e, skip
  <1>5. ASSUME NEW k \in Handlers
        PROVE  CountIn(For(k, Outcomes), s) = IF e \in Outcomes /\ k > skip THEN 1 ELSE 0
    <2>1. k \in 1 .. NumHandlers /\ skip = NumHandlers - Len(s)
      BY DEF Handlers, skip
    <2>2. CASE e \in Outcomes /\ k > skip
      <3>1. k - skip \in 1 .. Len(s)
        BY <1>2, <2>1, <2>2
      <3>2. \A i \in 1 .. Len(s) : skip + i = k <=> i = k - skip
        BY <1>2, <2>1
      <3>3. Places(For(k, Outcomes), s, Len(s)) = {k - skip}
        BY <1>4, <2>2, <3>1, <3>2 DEF Places
      <3>4. QED
        BY <2>2, <3>3, FS_Singleton DEF CountIn, CountTo
    <2>3. CASE ~(e \in Outcomes /\ k > skip)
      <3>1. \A i \in 1 .. Len(s) : skip + i = k => k > skip
        BY <1>2, <2>1
      <3>2. Places(For(k, Outcomes), s, Len(s)) = {}
        BY <1>4, <2>3, <3>1 DEF Places
      <3>3. QED
        BY <2>3, <3>2, FS_EmptySet DEF CountIn, CountTo
    <2>4. QED
      BY <2>2, <2>3
  <1>6. g \in Nat /\ h \in Nat
    BY <1>2 DEF Handlers
  <1>7. g > skip => h > skip
    BY <1>2, <1>6
  <1>8. CountIn(For(g, Outcomes), s) <= CountIn(For(h, Outcomes), s)
        /\ CountIn(For(h, Outcomes), s) <= CountIn(For(g, Outcomes), s) + 1
    <2>1. CASE e \in Outcomes
      BY <1>5, <1>7, <2>1
    <2>2. CASE e \notin Outcomes
      BY <1>5, <2>2
    <2>3. QED
      BY <2>1, <2>2
  <1>9. QED
    BY <1>8

LEMMA RoundEnqueue ==
  ASSUME TypeOK, SpeakerInv, SuffixInv, RoundInv, TypeOK', SuffixInv', NEW t \in Tasks, Enqueue(t),
         NEW story, \A h \in Handlers : Tells(h, story)
  PROVE  RoundInv'
  <1> SUFFICES ASSUME NEW g \in Handlers, NEW h \in Handlers, g < h, NEW n \in 0 .. Len(queue')
               PROVE  /\ ToldBy(h, n)' <= ToldBy(g, n)'
                      /\ ToldBy(g, n)' <= ToldBy(h, n)' + 1
    BY DEF RoundInv, ToldBy
  <1>1. queue \in Seq(Entries) /\ Head(todo[t]) \in Entries
        /\ queue' = Append(queue, Head(todo[t])) /\ seen' = seen
    BY EnqueueIs
  <1>2. Len(queue) \in Nat /\ Len(queue') = Len(queue) + 1
    BY <1>1, AppendProperties, LenProperties
  <1>3. CASE n <= Len(queue)
    <2>1. n \in 0 .. Len(queue)
      BY <1>2, <1>3
    <2>2. \A k \in Handlers : CountTo(For(k, Outcomes), queue', n) = CountTo(For(k, Outcomes), queue, n)
      BY <1>1, <2>1, CountAppend
    <2>3. ToldBy(g, n)' = ToldBy(g, n) /\ ToldBy(h, n)' = ToldBy(h, n)
      BY <1>1, <2>2 DEF ToldBy
    <2>4. QED
      BY <2>1, <2>3 DEF RoundInv
  <1>4. CASE n = Len(queue')
    <2>1. \A k \in Handlers : Tells(k, story)'
      BY TellsEnqueue
    <2>2. Told(h, Outcomes)' <= Told(g, Outcomes)' /\ Told(g, Outcomes)' <= Told(h, Outcomes)' + 1
      <3>0. todo'[Zb] \in Seq(Entries)
        BY DEF TypeOK, Entries, Tasks
      <3>1. Told(g, Outcomes)' + CountIn(For(g, Outcomes), todo'[Zb])
              = Told(h, Outcomes)' + CountIn(For(h, Outcomes), todo'[Zb])
        BY <2>1 DEF Tells
      <3>2. \A k \in Handlers : Told(k, Outcomes)' \in Nat
        BY ToldEnqueue, CountsAreNumbers DEF Hit
      <3>3. \A k \in Handlers : CountIn(For(k, Outcomes), todo'[Zb]) \in Nat
        BY <3>0, CountInType
      <3>4. /\ CountIn(For(g, Outcomes), todo'[Zb]) <= CountIn(For(h, Outcomes), todo'[Zb])
            /\ CountIn(For(h, Outcomes), todo'[Zb]) <= CountIn(For(g, Outcomes), todo'[Zb]) + 1
        BY <3>0, SuffixCount DEF SuffixInv
      <3>5. QED
        BY <3>1, <3>2, <3>3, <3>4
    <2>3. ToldBy(g, n)' = Told(g, Outcomes)' /\ ToldBy(h, n)' = Told(h, Outcomes)'
      BY <1>4 DEF ToldBy, Told, CountIn
    <2>4. QED
      BY <2>2, <2>3
  <1>5. QED
    BY <1>2, <1>3, <1>4

LEMMA RoundRun ==
  ASSUME TypeOK, RoundInv, NEW place, RunHandler(place)
  PROVE  RoundInv'
  <1> SUFFICES ASSUME NEW g \in Handlers, NEW h \in Handlers, g < h, NEW n \in 0 .. Len(queue')
               PROVE  /\ ToldBy(h, n)' <= ToldBy(g, n)'
                      /\ ToldBy(g, n)' <= ToldBy(h, n)' + 1
    BY DEF RoundInv, ToldBy
  <1>1. n + 1 \in 0 .. Len(queue)
    BY RunHandlerIs
  <1>2. \A k \in Handlers : ToldBy(k, n)' = ToldBy(k, n + 1)
    BY RunMoves DEF ToldBy
  <1>3. QED
    BY <1>1, <1>2 DEF RoundInv

LEMMA RoundStep ==
  ASSUME TypeOK, SpeakerInv, SuffixInv, RoundInv, TypeOK', SuffixInv', [Next]_vars,
         NEW story, \A h \in Handlers : Tells(h, story)
  PROVE  RoundInv'
  <1>1. CASE UNCHANGED <<queue, seen>>
    BY <1>1 DEF RoundInv, ToldBy
  <1>2. QED
    BY <1>1, StepIs, RoundEnqueue, RoundRun DEF Still, Posted

LEMMA NewsInitially == NewsInit => NewsInv
  <1> SUFFICES ASSUME NewsInit PROVE NewsInv
    OBVIOUS
  <1>1. /\ queue = <<>> /\ todo[Zb] = <<>> /\ news = <<>>
        /\ \A h \in Handlers : seen[h] = <<>>
    BY DEF NewsInit, Init, Tasks
  <1>2. Len(<<>>) = 0 /\ 1 .. 0 = {} /\ <<>> \in Seq(Outcomes)
    BY EmptySeq
  <1>3. \A h \in Handlers : /\ CountIn(Outcomes, seen[h]) = 0
                            /\ CountIn(For(h, Outcomes), queue) = 0
                            /\ CountIn(For(h, Outcomes), todo[Zb]) = 0
    BY <1>1, CountInEmpty
  <1>4. \A h \in Handlers : Tells(h, news)
    BY <1>1, <1>2, <1>3 DEF Tells, Told
  <1>5. SuffixInv
    BY <1>1, <1>2, NodeAssumption DEF SuffixInv, IsRest
  <1>6. RoundInv
    <2>1. \A h \in Handlers : ToldBy(h, 0) = 0
      BY <1>3, CountZero DEF ToldBy
    <2>2. \A n \in 0 .. Len(queue) : n = 0
      BY <1>1, <1>2
    <2>3. QED
      BY <2>1, <2>2 DEF RoundInv
  <1>7. QED
    BY <1>1, <1>2, <1>4, <1>5, <1>6 DEF NewsInv

\* The story that a handler is told, seen after the step.
LEMMA TellsNews ==
  ASSUME NEW h, NEW story, Tells(h, story)', news' = story
  PROVE  Tells(h, news)'
  BY DEF Tells

LEMMA NewsStep ==
  ASSUME TypeOK, SpeakerInv, NewsInv, TypeOK', [NewsNext]_<<vars, news>>
  PROVE  NewsInv'
  <1>1. [Next]_vars
    BY DEF NewsNext
  <1>2. SuffixInv /\ RoundInv /\ news \in Seq(Outcomes)
    BY DEF NewsInv
  <1>3. PICK story \in Seq(Outcomes) : story = news
    BY <1>2
  <1>4. \A h \in Handlers : Tells(h, story)
    BY <1>3 DEF NewsInv
  <1>5. SuffixInv'
    BY <1>1, <1>2, SuffixStep
  <1>6. RoundInv'
    BY <1>1, <1>2, <1>4, <1>5, RoundStep
  <1>7. CASE (\A e \in Outcomes : ~Announces(e)) \/ UNCHANGED <<vars, news>>
    <2>1. news' = story
      BY <1>3, <1>7 DEF NewsNext
    <2>2. \A h \in Handlers : Tells(h, story)'
      <3>1. CASE Still
        BY <1>4, <3>1, TellsSame DEF Still
      <3>2. CASE Posted
        <4>1. PICK e \in Events, next \in At :
                 todo[Zb] = <<>> /\ Post(Zb, e, next) /\ UNCHANGED <<queue, seen>>
          BY <3>2 DEF Posted
        <4>2. e \notin Outcomes
          <5>1. Announces(e)
            BY <4>1, AnnouncesIs
          <5>2. ~UNCHANGED <<vars, news>>
            <6>1. todo'[Zb] # todo[Zb]
              BY <4>1, <5>1, CallsForDiffers DEF Announces
            <6>2. QED
              BY <6>1 DEF vars
          <5>3. QED
            BY <1>7, <5>1, <5>2
        <4>3. QED
          BY <1>4, <4>1, <4>2, TellsPost
      <3>3. CASE \E t \in Tasks : Enqueue(t)
        BY <1>4, <3>3, TellsEnqueue
      <3>4. CASE \E place \in {"join", "leave", "idle"} : RunHandler(place)
        BY <1>4, <3>4, TellsRun
      <3>5. QED
        BY <1>1, <3>1, <3>2, <3>3, <3>4, StepIs
    <2>3. \A h \in Handlers : Tells(h, news)'
      BY <2>1, <2>2, TellsNews
    <2>4. QED
      BY <1>5, <1>6, <2>1, <2>3 DEF NewsInv
  <1>8. ASSUME NEW e \in Outcomes, Announces(e), news' = Append(news, e)
        PROVE  NewsInv'
    <2>1. PICK next \in At : todo[Zb] = <<>> /\ Post(Zb, e, next) /\ UNCHANGED <<queue, seen>>
      <3>1. Posted
        BY <1>1, <1>8, StepIs, AnnouncesIs
      <3>2. QED
        BY <1>8, <3>1, AnnouncesIs DEF Posted
    <2>2. e \in Events
      BY DEF Outcomes, Events
    <2>3. \A h \in Handlers : Tells(h, Append(story, e))'
      BY <1>4, <2>1, <2>2, TellsPost
    <2>4. news' = Append(story, e) /\ Append(story, e) \in Seq(Outcomes)
      BY <1>3, <1>8, LastOutcome
    <2>5. \A h \in Handlers : Tells(h, news)'
      <3>1. PICK longer \in Seq(Outcomes) : longer = Append(story, e)
        BY <2>4
      <3>2. \A h \in Handlers : Tells(h, longer)'
        BY <2>3, <3>1
      <3>3. QED
        BY <2>4, <3>1, <3>2, TellsNews
    <2>6. QED
      BY <1>5, <1>6, <2>4, <2>5 DEF NewsInv
  <1>9. QED
    BY <1>7, <1>8 DEF NewsNext

LEMMA HeardIs ==
  ASSUME NEW h
  PROVE  Heard(h) = CountIn(Outcomes, seen[h])
  BY DEF Heard, NumOutcomes, CountIn, CountTo, Places

\* When the loop tells h an outcome, it is h's turn, and the outcome is the news
\* that h has not heard.
LEMMA RunTurn ==
  ASSUME TypeOK, NewsInv, NEW place, RunHandler(place),
         NEW h \in Handlers, NEW e \in Outcomes, Head(queue) = <<h, e>>
  PROVE  Promise!Turn(h) /\ news[Heard(h) + 1] = e
  <1> DEFINE heard(g) == CountIn(Outcomes, seen[g])
  <1>1. queue[1] = <<h, e>> /\ Len(queue) \in Nat \ {0} /\ 0 \in 0 .. Len(queue) /\ 1 \in 0 .. Len(queue)
    BY RunHandlerIs, EmptySeq
  <1>2. \A g \in Handlers : /\ heard(g) \in Nat
                            /\ ToldBy(g, 0) = heard(g)
                            /\ ToldBy(g, 1) = IF g = h THEN heard(g) + 1 ELSE heard(g)
    <2>1. SUFFICES ASSUME NEW g \in Handlers
                   PROVE  /\ heard(g) \in Nat
                          /\ ToldBy(g, 0) = heard(g)
                          /\ ToldBy(g, 1) = IF g = h THEN heard(g) + 1 ELSE heard(g)
      OBVIOUS
    <2>2. heard(g) \in Nat
      BY CountsAreNumbers
    <2>3. CountTo(For(g, Outcomes), queue, 0) = 0
      BY CountZero
    <2>4. CountTo(For(g, Outcomes), queue, 0 + 1)
            = CountTo(For(g, Outcomes), queue, 0) + Hit(For(g, Outcomes), queue[0 + 1])
      BY CountStep
    <2>5. Hit(For(g, Outcomes), queue[1]) = IF g = h THEN 1 ELSE 0
      BY <1>1 DEF Hit, For
    <2>6. CountTo(For(g, Outcomes), queue, 1) = IF g = h THEN 1 ELSE 0
      BY <2>3, <2>4, <2>5
    <2>7. QED
      BY <2>2, <2>3, <2>6 DEF ToldBy
  <1>3. \A g, k \in Handlers : g < k =>
           /\ ToldBy(k, 0) <= ToldBy(g, 0) /\ ToldBy(g, 0) <= ToldBy(k, 0) + 1
           /\ ToldBy(k, 1) <= ToldBy(g, 1) /\ ToldBy(g, 1) <= ToldBy(k, 1) + 1
    BY <1>1 DEF NewsInv, RoundInv
  <1> HIDE DEF heard
  <1>4. \A g \in Handlers : heard(g) = IF g < h THEN heard(h) + 1 ELSE heard(h)
    <2>1. ASSUME NEW g \in Handlers, g < h
          PROVE  heard(g) = heard(h) + 1
      BY <1>2, <1>3, <2>1 DEF Handlers
    <2>2. ASSUME NEW g \in Handlers, h < g
          PROVE  heard(g) = heard(h)
      BY <1>2, <1>3, <2>2 DEF Handlers
    <2>3. \A g \in Handlers : g < h \/ h < g \/ g = h
      BY DEF Handlers
    <2>4. ASSUME NEW g \in Handlers
          PROVE  h < g => ~(g < h)
      BY DEF Handlers
    <2>5. QED
      BY <2>1, <2>2, <2>3, <2>4
  <1>5. heard(h) + 1 \in 1 .. Len(news) /\ news[heard(h) + 1] = e
    <2>1. Tells(h, news) /\ news \in Seq(Outcomes)
      BY DEF NewsInv
    <2>2. queue[1] \in For(h, Outcomes) /\ 1 \in 1 .. Len(queue) /\ queue[1][2] = e
      BY <1>1 DEF For
    <2>3. CountIn(Outcomes, seen[h]) + CountTo(For(h, Outcomes), queue, 1) = heard(h) + 1
      BY <1>2 DEF ToldBy
    <2>4. heard(h) + 1 \in 1 .. Len(news)
      BY <2>1, <2>2, <2>3, TellsIndex
    <2>5. news[heard(h) + 1] = queue[1][2]
      BY <2>1, <2>2, <2>3 DEF Tells
    <2>6. QED
      BY <2>2, <2>4, <2>5
  <1>6. \A g \in Handlers : heard(g) = Heard(g)
    BY HeardIs DEF heard
  <1>7. Promise!Handlers = Handlers
    BY DEF Promise!Handlers, Handlers
  <1>8. heard(h) < Len(news)
    BY <1>2, <1>5, LenProperties DEF NewsInv
  <1>9. QED
    BY <1>4, <1>5, <1>6, <1>7, <1>8 DEF Promise!Turn

\* The history changes nothing for the node.
LEMMA NewsIsNode == NewsSpec => Spec
  <1>1. NewsInit => Init
    BY DEF NewsInit
  <1>2. [NewsNext]_<<vars, news>> => [Next]_vars
    BY DEF NewsNext
  <1>3. QED
    BY <1>1, <1>2, PTL DEF NewsSpec, Spec

\* The history of outcomes is what every handler is being told, from the first
\* outcome on, and the handlers take turns: an inductive invariant with what is
\* known of the node.
THEOREM NewsCorrect == NewsSpec => [](IInv /\ NewsInv)
  <1>1. IInv /\ IInv' /\ NewsInv /\ [NewsNext]_<<vars, news>> => NewsInv'
    BY NewsStep DEF IInv
  <1>2. QED
    BY <1>1, NewsIsNode, NodeCorrect, NewsInitially, PTL DEF NewsSpec

LEMMA PromiseInit == NewsInit => Promise!Init
  <1> SUFFICES ASSUME NewsInit PROVE Promise!Init
    OBVIOUS
  <1>1. \A h \in Handlers : Heard(h) = 0
    BY CountInEmpty, HeardIs DEF NewsInit, Init
  <1>2. news = <<>> /\ seen = [h \in Handlers |-> <<>>]
    BY DEF NewsInit, Init
  <1>3. QED
    BY <1>1, <1>2 DEF Promise!Init, Promise!Handlers, Handlers

\* A handler that runs hears an outcome in its turn or something else.
LEMMA PromiseRun ==
  ASSUME TypeOK, NewsInv, NEW place, RunHandler(place), news' = news
  PROVE  Promise!Next
  <1> DEFINE heard == [h \in Handlers |-> Heard(h)]
  <1>1. PICK h \in Handlers, e \in Events :
               /\ Head(queue) = <<h, e>>
               /\ seen'[h] = Append(seen[h], e)
               /\ \A g \in Handlers \ {h} : seen'[g] = seen[g]
    BY RunHandlerIs
  <1>2. seen' = [seen EXCEPT ![h] = Append(seen[h], e)]
    <2>1. Head(queue)[1] = h /\ Head(queue)[2] = e
      BY <1>1
    <2>2. seen' = [seen EXCEPT ![Head(queue)[1]] = Append(seen[Head(queue)[1]], Head(queue)[2])]
      BY DEF RunHandler
    <2>3. QED
      BY <2>1, <2>2
  <1>3. seen[h] \in Seq(Events) /\ CountIn(Outcomes, seen[h]) \in Nat
    BY CountsAreNumbers DEF TypeOK
  <1>4. \A g \in Handlers : Heard(g)' = IF g = h THEN Heard(h) + Hit(Outcomes, e) ELSE Heard(g)
    <2>1. \A g \in Handlers : Heard(g)' = CountIn(Outcomes, seen'[g])
      BY DEF Heard, NumOutcomes, CountIn, CountTo, Places
    <2>2. CountIn(Outcomes, Append(seen[h], e)) = CountIn(Outcomes, seen[h]) + Hit(Outcomes, e)
      BY <1>3, CountAppend
    <2>3. QED
      BY <1>1, <2>1, <2>2, HeardIs
  <1>5. Promise!Handlers = Handlers
    BY DEF Promise!Handlers, Handlers
  <1>6. CASE e \in Outcomes
    <2>1. Promise!Turn(h) /\ news[Heard(h) + 1] = e
      BY <1>1, <1>6, RunTurn
    <2>2. heard[h] = Heard(h)
      OBVIOUS
    <2>3. heard' = [heard EXCEPT ![h] = heard[h] + 1]
      BY <1>4, <1>6 DEF Hit
    <2>4. Promise!Told(h, news[heard[h] + 1])
      BY <1>2, <2>1, <2>2 DEF Promise!Told
    <2>5. Promise!Hear(h)
      BY <2>1, <2>3, <2>4 DEF Promise!Hear
    <2>6. QED
      BY <1>5, <2>5 DEF Promise!Next
  <1>7. CASE e \notin Outcomes
    <2>1. heard' = heard
      <3>1. Heard(h) \in Nat
        BY <1>3, HeardIs
      <3>2. \A g \in Handlers : Heard(g)' = Heard(g)
        BY <1>4, <1>7, <3>1 DEF Hit
      <3>3. QED
        BY <3>2
    <2>2. Promise!Chat(h, e)
      BY <1>2, <2>1 DEF Promise!Chat, Promise!Told
    <2>3. QED
      BY <1>5, <1>7, <2>2 DEF Promise!Next
  <1>8. QED
    BY <1>6, <1>7

\* Every step of the node is a step of the promise: what the Zigbee task posts
\* announces an outcome, a handler that runs hears the next one or something
\* else, and all the rest, the other tasks' posts and their way through the
\* queue, changes nothing that was promised.
LEMMA PromiseStep ==
  ASSUME TypeOK, NewsInv, [NewsNext]_<<vars, news>>
  PROVE  [Promise!Next]_(Promise!vars)
  <1> USE DEF Promise!vars
  <1>1. [Next]_vars
    BY DEF NewsNext
  <1>2. UNCHANGED seen => [h \in Handlers |-> Heard(h)]' = [h \in Handlers |-> Heard(h)]
    BY DEF Heard
  <1>3. CASE Still
    <2>1. news' = news
      BY <1>3, AnnouncesIs DEF NewsNext
    <2>2. QED
      BY <1>2, <1>3, <2>1 DEF Still
  <1>4. CASE Posted
    <2>1. UNCHANGED seen
      BY <1>4 DEF Posted
    <2>2. news' = news \/ \E e \in Outcomes : news' = Append(news, e)
      BY DEF NewsNext
    <2>3. QED
      BY <1>2, <2>1, <2>2 DEF Promise!Next, Promise!Announce
  <1>5. ASSUME NEW t \in Tasks, Enqueue(t)
        PROVE  UNCHANGED Promise!vars
    <2>1. news' = news
      BY <1>5, AnnouncesIs DEF NewsNext
    <2>2. UNCHANGED seen
      BY <1>5 DEF Enqueue
    <2>3. QED
      BY <1>2, <2>1, <2>2
  <1>6. ASSUME NEW place \in {"join", "leave", "idle"}, RunHandler(place)
        PROVE  Promise!Next
    <2>1. news' = news
      BY <1>6, AnnouncesIs DEF NewsNext
    <2>2. QED
      BY <1>6, <2>1, PromiseRun
  <1>7. QED
    BY <1>1, <1>3, <1>4, <1>5, <1>6, StepIs

\* The node implements the safety part of NodeNews, for any number of handlers,
\* tasks, calls and failures: through posts of several tasks, the queue of the
\* event loop and handlers that call back into the node, the handlers are read
\* one list of outcomes, each outcome once, in turn.
THEOREM TellsInTurnHolds == NewsSpec => TellsInTurn
  <1>1. IInv /\ NewsInv /\ [NewsNext]_<<vars, news>> => [Promise!Next]_(Promise!vars)
    BY PromiseStep DEF IInv
  <1>2. NewsSpec => Promise!Safety
    BY <1>1, PromiseInit, NewsCorrect, PTL DEF NewsSpec, Promise!Safety
  <1>3. QED
    BY <1>2 DEF TellsInTurn

===============================================================================
