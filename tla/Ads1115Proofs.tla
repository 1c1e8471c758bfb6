----------------------------- MODULE Ads1115Proofs -----------------------------
(***************************************************************************)
(* The pin of GpioInput and the converter that uses it, for any handlers,  *)
(* inputs, ranges and queue sizes, and any transfers that fail.            *)
(*   - LastSetWins is not inductive: it says nothing while                 *)
(*     clearEventHandlers is under way.  FlagsInv says at each of its      *)
(*     statements how the flags, the registrations and the destination     *)
(*     asked for belong together; TurnInv, that on a converter's pin only  *)
(*     removeReadyPin and the destructor ever stop between two of them.    *)
(*   - Types: the types, when the device leaves the bus and when the       *)
(*     pointers go.                                                        *)
(*   - PointersInv: without the pointers the pin reports to nobody, and a  *)
(*     pin that was quiet when it was taken away stays so.                 *)
(*   - RequestInv: at each stage of an answer, what is under way is what   *)
(*     the watched request asked for.                                      *)
(***************************************************************************)
EXTENDS Ads1115, TLAPS

Counts == [Loops -> [Handlers -> 0 .. MaxRegistered]]

\* At most one of the flags is set, the handler it stands for is registered, and
\* a custom loop that has never failed to unregister one has no other; the two
\* flags of event loops are down from the first statement of clearEventHandlers
\* on.
FlagsInv ==
    /\ clearing \in {"no", "loops cleared", "handle cleared"}
    /\ customSet \in BOOLEAN /\ defaultSet \in BOOLEAN /\ stray \in BOOLEAN
    /\ queueEnabled \in BOOLEAN /\ queueHandle \in BOOLEAN
    /\ registered \in Counts
    /\ ~(customSet /\ defaultSet)
    /\ queueEnabled \/ clearing # "no" => ~customSet /\ ~defaultSet
    /\ customSet => /\ eventHandle \in Handlers /\ eventHandle = eventData
                    /\ registered["custom"][eventHandle] > 0
    /\ defaultSet => eventData \in Handlers /\ registered["default"][eventData] > 0
    /\ ~stray => \A h \in Handlers :
          registered["custom"][h] = IF customSet /\ h = eventHandle THEN 1 ELSE 0
    /\ customSet \/ defaultSet => eventData = wanted.handler
    /\ clearing = "no" => wanted.place = Place

TurnInv == owner = "ads1115" /\ app \notin {"remove: clear", "destroy: clear"} => clearing = "no"

Inv == FlagsInv /\ TurnInv

\* The variables FlagsInv speaks of.
flagInvVars == <<flagVars, registered, taskVars>>

-------------------------------------------------------------------------------
(* The operations of the pin keep FlagsInv. *)

LEMMA FlagsInit == GpioInit => FlagsInv
  <1> SUFFICES ASSUME GpioInit PROVE FlagsInv
    OBVIOUS
  <1>1. ~queueEnabled /\ ~customSet /\ ~defaultSet
    BY DEF GpioInit
  <1>2. Place = "nobody" /\ wanted.place = "nobody" /\ clearing = "no"
    BY <1>1 DEF GpioInit, Place, Nowhere
  <1>3. registered = [l \in Loops |-> [h \in Handlers |-> 0]]
    BY DEF GpioInit
  <1>4. \A h \in Handlers : registered["custom"][h] = 0
    BY <1>3 DEF Loops
  <1>5. registered \in Counts
    BY <1>3, GpioAssumption DEF Counts
  <1>6. {queueEnabled, queueHandle, customSet, defaultSet, stray} \subseteq BOOLEAN
    BY DEF GpioInit
  <1>7. QED
    BY <1>1, <1>2, <1>4, <1>5, <1>6 DEF FlagsInv

LEMMA FlagsUntouched ==
  ASSUME FlagsInv, UNCHANGED flagInvVars
  PROVE  FlagsInv'
  BY DEF FlagsInv, flagInvVars, flagVars, taskVars, Place, Counts

\* Every operation but the ones that set or clear a destination.
LEMMA FlagsPin ==
  ASSUME NEW low, NEW edge, NEW to, NEW l,
         Configure(low) \/ EnableInterrupt(edge) \/ DisableInterrupt \/ Edge(to) \/ TakeEvent(l)
  PROVE  UNCHANGED flagInvVars
  BY DEF Configure, EnableInterrupt, DisableInterrupt, Edge, TakeEvent,
         flagInvVars, flagVars, loopVars, pinVars, taskVars

\* What clearEventHandlers does to the registrations: the custom loop loses the
\* handler, or counts as stray; the default loop keeps what it has.
LEMMA WhatIsLeft ==
  ASSUME FlagsInv, NEW found \in BOOLEAN
  PROVE  /\ KeepsDefault = FALSE /\ Strays(found) \in BOOLEAN
         /\ Unregistered(found) \in Counts
         /\ ~Strays(found) => \A h \in Handlers : Unregistered(found)["custom"][h] = 0
  <1> DEFINE R == Unregistered(found)
  <1>1. KeepsDefault = FALSE /\ Strays(found) \in BOOLEAN
    BY DEF FlagsInv, KeepsDefault, Strays
  <1>2. CASE customSet /\ found
    <2>0. eventHandle \in Handlers /\ registered["custom"][eventHandle] > 0
          /\ registered["custom"] \in [Handlers -> 0 .. MaxRegistered]
      BY <1>2 DEF FlagsInv, Counts, Loops
    <2>1. eventHandle \in Handlers /\ registered["custom"][eventHandle] \in 1 .. MaxRegistered
      BY <2>0, GpioAssumption
    <2>2. R = [registered EXCEPT !["custom"][eventHandle] = @ - 1]
      BY <1>2, <2>1 DEF Unregistered
    <2>3. [registered["custom"] EXCEPT ![eventHandle] = @ - 1] \in [Handlers -> 0 .. MaxRegistered]
      BY <2>0, <2>1, GpioAssumption
    <2>4. R \in Counts /\ R["custom"] = [registered["custom"] EXCEPT ![eventHandle] = @ - 1]
      BY <2>2, <2>3 DEF FlagsInv, Counts, Loops
    <2>5. ASSUME ~stray, NEW h \in Handlers
          PROVE  R["custom"][h] = 0
      <3>1. registered["custom"] \in [Handlers -> 0 .. MaxRegistered]
        BY DEF FlagsInv, Counts, Loops
      <3>2. registered["custom"][h] = IF h = eventHandle THEN 1 ELSE 0
        BY <1>2, <2>5 DEF FlagsInv
      <3>3. R["custom"][h] = IF h = eventHandle THEN registered["custom"][h] - 1
                                                ELSE registered["custom"][h]
        BY <2>1, <2>4, <3>1
      <3>4. QED
        BY <3>2, <3>3
    <2>6. QED
      BY <1>1, <2>4, <2>5 DEF Strays
  <1>3. CASE ~(customSet /\ found)
    <2>1. R = registered
      BY <1>3 DEF Unregistered
    <2>2. ~Strays(found) => ~stray /\ ~customSet
      BY <1>3 DEF Strays, FlagsInv
    <2>3. QED
      BY <1>1, <2>1, <2>2 DEF FlagsInv
  <1>4. QED
    BY <1>2, <1>3

\* What a registration adds.
LEMMA OneMore ==
  ASSUME NEW regs \in Counts, NEW loop \in Loops, NEW h \in Handlers, CanRegister(regs, loop, h)
  PROVE  /\ Registered(regs, loop, h) \in Counts
         /\ Registered(regs, loop, h)[loop][h] = regs[loop][h] + 1
         /\ Registered(regs, loop, h)[loop][h] > 0
         /\ \A l \in Loops, k \in Handlers :
               l # loop \/ k # h => Registered(regs, loop, h)[l][k] = regs[l][k]
  <1>1. regs[loop] \in [Handlers -> 0 .. MaxRegistered] /\ regs[loop][h] \in 0 .. MaxRegistered
        /\ regs[loop][h] < MaxRegistered
    BY DEF Counts, CanRegister
  <1>2. regs[loop][h] + 1 \in 0 .. MaxRegistered /\ regs[loop][h] + 1 > 0
    BY <1>1, GpioAssumption
  <1>3. Registered(regs, loop, h) = [regs EXCEPT ![loop] = [regs[loop] EXCEPT ![h] = regs[loop][h] + 1]]
    BY DEF Registered
  <1>4. [regs[loop] EXCEPT ![h] = regs[loop][h] + 1] \in [Handlers -> 0 .. MaxRegistered]
    BY <1>1, <1>2
  <1>5. Registered(regs, loop, h) \in Counts
    BY <1>3, <1>4 DEF Counts
  <1>6. QED
    BY <1>1, <1>2, <1>3, <1>5 DEF Counts

LEMMA FlagsSetEventHandler ==
  ASSUME FlagsInv, clearing = "no", NEW h \in Handlers, NEW found \in BOOLEAN, NEW ok \in BOOLEAN,
         SetEventHandler(h, found, ok)
  PROVE  FlagsInv'
  <1> DEFINE left == Unregistered(found)
  <1>1. /\ queueEnabled' = FALSE /\ queueHandle' = FALSE /\ customSet' = FALSE
        /\ clearing' = "no" /\ stray' = Strays(found) /\ stray' \in BOOLEAN
    BY WhatIsLeft DEF SetEventHandler
  <1>2. /\ left \in Counts
        /\ ~stray' => \A k \in Handlers : left["custom"][k] = 0
    BY WhatIsLeft, <1>1
  <1> HIDE DEF left
  <1>3. CASE ok
    <2>1. /\ registered' = Registered(left, "default", h) /\ CanRegister(left, "default", h)
          /\ defaultSet' = TRUE /\ eventData' = h
          /\ wanted' = [place |-> "default", handler |-> h]
      BY <1>3 DEF SetEventHandler, left
    <2>2. /\ registered' \in Counts /\ registered'["default"][h] > 0
          /\ \A k \in Handlers : registered'["custom"][k] = left["custom"][k]
      BY <1>2, <2>1, OneMore DEF Loops
    <2>3. Place' = "default"
      BY <1>1, <2>1 DEF Place
    <2>4. QED
      BY <1>1, <1>2, <2>1, <2>2, <2>3 DEF FlagsInv
  <1>4. CASE ~ok
    <2>1. registered' = left /\ defaultSet' = FALSE /\ wanted' = Nowhere
      BY <1>4, WhatIsLeft DEF SetEventHandler, left
    <2>2. Place' = "nobody"
      BY <1>1, <2>1 DEF Place
    <2>3. QED
      BY <1>1, <1>2, <2>1, <2>2 DEF FlagsInv, Nowhere
  <1>5. QED
    BY <1>3, <1>4

LEMMA FlagsSetLoopEventHandler ==
  ASSUME FlagsInv, clearing = "no", NEW h \in Handlers, NEW found \in BOOLEAN, NEW ok \in BOOLEAN,
         SetLoopEventHandler(h, found, ok)
  PROVE  FlagsInv'
  <1> DEFINE left == Unregistered(found)
  <1>1. /\ queueEnabled' = FALSE /\ queueHandle' = FALSE /\ defaultSet' = FALSE
        /\ clearing' = "no" /\ stray' = Strays(found) /\ stray' \in BOOLEAN
    BY WhatIsLeft DEF SetLoopEventHandler
  <1>2. /\ left \in Counts
        /\ ~stray' => \A k \in Handlers : left["custom"][k] = 0
    BY WhatIsLeft, <1>1
  <1> HIDE DEF left
  <1>3. CASE ok
    <2>1. /\ registered' = Registered(left, "custom", h) /\ CanRegister(left, "custom", h)
          /\ customSet' = TRUE /\ eventData' = h /\ eventHandle' = h
          /\ wanted' = [place |-> "custom", handler |-> h]
      BY <1>3 DEF SetLoopEventHandler, left
    <2>2. /\ registered' \in Counts /\ registered'["custom"][h] > 0
          /\ registered'["custom"][h] = left["custom"][h] + 1
          /\ \A k \in Handlers : k # h => registered'["custom"][k] = left["custom"][k]
      BY <1>2, <2>1, OneMore DEF Loops
    <2>3. ~stray' => \A k \in Handlers : registered'["custom"][k] = IF k = h THEN 1 ELSE 0
      BY <1>2, <2>2
    <2>4. Place' = "custom"
      BY <1>1, <2>1 DEF Place
    <2>5. QED
      BY <1>1, <2>1, <2>2, <2>3, <2>4 DEF FlagsInv
  <1>4. CASE ~ok
    <2>1. registered' = left /\ customSet' = FALSE /\ wanted' = Nowhere
      BY <1>4, WhatIsLeft DEF SetLoopEventHandler, left
    <2>2. Place' = "nobody"
      BY <1>1, <2>1 DEF Place
    <2>3. QED
      BY <1>1, <1>2, <2>1, <2>2 DEF FlagsInv, Nowhere
  <1>5. QED
    BY <1>3, <1>4

LEMMA FlagsSetQueueHandle ==
  ASSUME FlagsInv, clearing = "no", SetQueueHandle
  PROVE  FlagsInv'
  <1>1. PICK found \in BOOLEAN : registered' = Unregistered(found) /\ stray' = Strays(found)
    BY DEF SetQueueHandle
  <1>2. /\ registered' \in Counts /\ stray' \in BOOLEAN
        /\ ~stray' => \A k \in Handlers : registered'["custom"][k] = 0
    BY <1>1, WhatIsLeft
  <1>3. /\ queueEnabled' = TRUE /\ queueHandle' = TRUE /\ customSet' = FALSE /\ defaultSet' = FALSE
        /\ clearing' = "no" /\ wanted'.place = "queue"
    BY <1>1, WhatIsLeft DEF SetQueueHandle
  <1>4. Place' = "queue"
    BY <1>3 DEF Place
  <1>5. QED
    BY <1>2, <1>3, <1>4 DEF FlagsInv

LEMMA FlagsClear ==
  ASSUME FlagsInv, ClearLoops \/ ClearHandle \/ ClearEnabled
  PROVE  FlagsInv'
  <1>1. CASE ClearLoops
    <2>1. PICK found \in BOOLEAN : registered' = Unregistered(found) /\ stray' = Strays(found)
      BY <1>1 DEF ClearLoops
    <2>2. /\ registered' \in Counts /\ stray' \in BOOLEAN
          /\ ~stray' => \A k \in Handlers : registered'["custom"][k] = 0
      BY <2>1, WhatIsLeft
    <2>3. /\ customSet' = FALSE /\ defaultSet' = FALSE
          /\ clearing' = "loops cleared" /\ UNCHANGED <<queueEnabled, queueHandle>>
      BY <1>1, <2>1, WhatIsLeft DEF ClearLoops
    <2>4. QED
      BY <2>2, <2>3 DEF FlagsInv
  <1>2. CASE ClearHandle
    BY <1>2 DEF ClearHandle, FlagsInv, Place, loopVars
  <1>3. CASE ClearEnabled
    BY <1>3 DEF ClearEnabled, FlagsInv, Place, Nowhere, loopVars
  <1>4. QED
    BY <1>1, <1>2, <1>3

LEMMA FlagsGpioNext ==
  ASSUME FlagsInv, GpioNext
  PROVE  FlagsInv'
  <1>1. CASE UNCHANGED flagInvVars
    BY <1>1, FlagsUntouched
  <1>2. CASE clearing = "no" /\ \E h \in Handlers, found, ok \in BOOLEAN :
                                   SetEventHandler(h, found, ok)
    BY <1>2, FlagsSetEventHandler
  <1>3. CASE clearing = "no" /\ \E h \in Handlers, found, ok \in BOOLEAN :
                                   SetLoopEventHandler(h, found, ok)
    BY <1>3, FlagsSetLoopEventHandler
  <1>4. CASE clearing = "no" /\ SetQueueHandle
    BY <1>4, FlagsSetQueueHandle
  <1>5. CASE ClearLoops \/ ClearHandle \/ ClearEnabled
    BY <1>5, FlagsClear
  <1>6. QED
    BY <1>1, <1>2, <1>3, <1>4, <1>5, FlagsPin DEF GpioNext

-------------------------------------------------------------------------------
(* The steps of the converter, of its device and of its event handler *)

\* Steps that neither set nor clear a destination, nor start or end a clearing.
LEMMA UntouchedFlags ==
  ASSUME \/ SetReadyPin \/ SetEnable \/ SetThresholds
         \/ RemoveReadyPin \/ RemoveArgs \/ RemoveThresholds
         \/ \E c \in Configs : SetConfig(c)
         \/ \E m \in Muxes, v \in BOOLEAN : GetRaw(m, v)
         \/ Destroy \/ DestroyArgs \/ DestroyInterrupt
         \/ ConversionEnds \/ PollStep \/ HandlerStep
  PROVE  UNCHANGED flagInvVars
  <1>1. CASE UNCHANGED gpioVars
    BY <1>1 DEF gpioVars, loopVars, flagInvVars
  <1>2. CASE Configure(FALSE) \/ EnableInterrupt("NEGEDGE") \/ DisableInterrupt
                \/ Edge(0) \/ Edge(1) \/ TakeEvent("default")
    BY <1>2, FlagsPin
  <1>3. QED
    BY <1>1, <1>2 DEF SetReadyPin, SetEnable, SetThresholds, RemoveReadyPin, RemoveArgs,
       RemoveThresholds, SetConfig, GetRaw, Destroy, DestroyArgs, DestroyInterrupt,
       ConversionEnds, PollStep, Poll, HandlerStep, HandlerBegins, HandlerReads, HandlerCalls

LEMMA QuietSteps ==
  ASSUME Inv,
         \/ SetReadyPin \/ SetEnable \/ SetThresholds
         \/ RemoveReadyPin \/ RemoveArgs \/ RemoveThresholds
         \/ \E c \in Configs : SetConfig(c)
         \/ \E m \in Muxes, v \in BOOLEAN : GetRaw(m, v)
         \/ Destroy \/ DestroyArgs \/ DestroyInterrupt
         \/ ConversionEnds \/ PollStep \/ HandlerStep
  PROVE  Inv'
  <1>1. UNCHANGED flagInvVars
    BY UntouchedFlags
  <1>2. FlagsInv'
    BY <1>1, FlagsUntouched DEF Inv
  <1>3. UNCHANGED <<owner, clearing>>
    BY <1>1 DEF flagInvVars, taskVars, SetReadyPin, SetEnable, SetThresholds, RemoveReadyPin, RemoveArgs,
       RemoveThresholds, SetConfig, GetRaw, Destroy, DestroyArgs, DestroyInterrupt,
       ConversionEnds, PollStep, Poll, HandlerStep, HandlerBegins, HandlerReads, HandlerCalls
  <1>4. app \in {"remove: clear", "destroy: clear"} => UNCHANGED app
    BY DEF SetReadyPin, SetEnable, SetThresholds, RemoveReadyPin, RemoveArgs, Idle, Polling,
       RemoveThresholds, SetConfig, GetRaw, Destroy, DestroyArgs, DestroyInterrupt,
       ConversionEnds, PollStep, Poll, HandlerStep, HandlerBegins, HandlerReads, HandlerCalls
  <1>5. QED
    BY <1>2, <1>3, <1>4 DEF Inv, TurnInv

LEMMA SetHandlerStep ==
  ASSUME Inv, SetHandler, EventHandler \in Handlers
  PROVE  Inv'
  <1>1. clearing = "no"
    BY DEF Inv, TurnInv, SetHandler, Running
  <1>2. FlagsInv'
    BY <1>1, FlagsSetEventHandler DEF Inv, SetHandler
  <1>3. clearing' = "no"
    BY <1>1 DEF SetHandler, SetEventHandler
  <1>4. QED
    BY <1>2, <1>3 DEF Inv, TurnInv

\* removeReadyPin and the destructor go on when clearEventHandlers has returned.
LEMMA ClearPinStep ==
  ASSUME Inv, ClearPin
  PROVE  Inv'
  <1>1. FlagsInv'
    BY FlagsClear DEF Inv, ClearPin
  <1>2. app \in {"remove: clear", "destroy: clear"} /\ (clearing' = "no" \/ UNCHANGED app)
    BY DEF ClearPin
  <1>3. QED
    BY <1>1, <1>2 DEF Inv, TurnInv

-------------------------------------------------------------------------------
(* The theorems *)

LEMMA InvInit == Init => Inv
  BY FlagsInit DEF Init, Inv, TurnInv, GpioInit

LEMMA InvNext ==
  ASSUME Inv, [Next]_vars
  PROVE  Inv'
  <1>1. CASE OnPinOfItsOwn
    <2>1. FlagsInv'
      BY <1>1, FlagsGpioNext DEF OnPinOfItsOwn, Inv
    <2>2. owner' = "application"
      BY <1>1 DEF OnPinOfItsOwn, adsVars
    <2>3. QED
      BY <2>1, <2>2 DEF Inv, TurnInv
  <1>2. CASE SetHandler
    BY <1>2, SetHandlerStep, AdsAssumption
  <1>3. CASE ClearPin
    BY <1>3, ClearPinStep
  <1>4. CASE UNCHANGED vars
    <2>1. UNCHANGED flagInvVars /\ UNCHANGED <<owner, app, clearing>>
      BY <1>4 DEF vars, gpioVars, loopVars, taskVars, flagInvVars, adsVars
    <2>2. QED
      BY <2>1, FlagsUntouched DEF Inv, TurnInv
  <1>5. QED
    BY <1>1, <1>2, <1>3, <1>4, QuietSteps DEF Next

LEMMA InvImpliesLastSetWins == Inv => LastSetWins
  BY DEF Inv, FlagsInv, LastSetWins, Place, Loops

LEMMA InvHolds == Spec => []Inv
  BY InvInit, InvNext, PTL DEF Spec

\* Between two calls the interrupt reports to the destination that was set last,
\* with its data; the handler set last is registered there, and a custom loop
\* that has never failed to unregister one has no other: whatever order the calls
\* of gpio and converter come in, and wherever a registration fails
\* (cppgpio_input.cpp:178-256).
THEOREM LastSetWinsHolds == Spec => []LastSetWins
  BY InvHolds, InvImpliesLastSetWins, PTL

-------------------------------------------------------------------------------
(* The converter: what its variables hold. *)

RemovePhases  == {"remove: args", "remove: clear", "remove: thresholds"}
DestroyPhases == {"destroy: args", "destroy: clear", "destroy: interrupt", "gone"}
Apps == {"idle", "poll raw", "poll volts", "set: enable", "set: handler", "set: thresholds"}
          \union RemovePhases \union DestroyPhases

Values == [mux : Muxes, pga : Pgas]
Chips  == [busy : BOOLEAN, mux : Muxes, pga : Pgas, ready : BOOLEAN, rdy : BOOLEAN,
           result : Values]
Reading == [at : {"read"}, mux : Muxes, handle : BOOLEAN, again : BOOLEAN]
Calling == [at : {"call"}, mux : Muxes, value : Values, again : BOOLEAN]

\* More than GpioTypeOK says: the queues hold the data of handlers.
PinTypes ==
    /\ activeLow \in BOOLEAN /\ trigger \in Edges /\ attached \in BOOLEAN /\ level \in {0, 1}
    /\ eventHandle \in Handlers \union {None} /\ eventData \in Handlers \union {None}
    /\ events \in [Loops -> Seq(Handlers \union {None})]
    /\ \A l \in Loops : Len(events[l]) <= EventQueueSize
    /\ wanted.place \in Loops \union {"queue", "nobody"}
    /\ halted \in BOOLEAN

BusTypes == device \in BOOLEAN /\ crash \in {"no", "abort", "pointer"}

ObjectTypes ==
    /\ owner \in {"application", "ads1115"}
    /\ useReadyPin \in BOOLEAN /\ voltage \in BOOLEAN /\ config \in Configs
    /\ args \in {"null", "set", "freed"}
    /\ unanswered \in BOOLEAN /\ raced \in BOOLEAN
    /\ app \in Apps

DeviceTypes ==
    /\ chip \in Chips /\ (handler = NoHandler \/ handler \in Reading \/ handler \in Calling)
    /\ calls \in 0 .. MaxRegistered

\* The device leaves the bus, and then the pointers, with the object.
LifeInv == /\ device <=> app \notin DestroyPhases
           /\ args = "freed" => app \in DestroyPhases

Types == PinTypes /\ BusTypes /\ ObjectTypes /\ DeviceTypes /\ LifeInv

\* The events of a converter find event_handler registered: the default loop
\* never loses it.
EventsInv ==
    owner = "ads1115" =>
      /\ wanted.place = "default" => wanted.handler = EventHandler
      /\ events["default"] # <<>> => registered["default"][EventHandler] > 0

-------------------------------------------------------------------------------
(* The types of the pin *)

PinTypeVars == <<activeLow, trigger, attached, level, eventHandle, eventData, events, wanted, halted>>

LEMMA PinTypesUntouched ==
  ASSUME PinTypes, UNCHANGED PinTypeVars
  PROVE  PinTypes'
  BY DEF PinTypes, PinTypeVars

LEMMA PinTypesInit == GpioInit => PinTypes
  <1> SUFFICES ASSUME GpioInit PROVE PinTypes
    OBVIOUS
  <1>1. events = [l \in Loops |-> <<>>]
    BY DEF GpioInit
  <1>2. events \in [Loops -> Seq(Handlers \union {None})]
    BY <1>1
  <1>3. \A l \in Loops : Len(events[l]) <= EventQueueSize
    BY <1>1, GpioAssumption
  <1>4. QED
    BY <1>2, <1>3 DEF GpioInit, PinTypes, Edges, Nowhere, Loops

LEMMA EdgeTypes ==
  ASSUME PinTypes, NEW to \in {0, 1}, Edge(to)
  PROVE  PinTypes'
  <1> DEFINE D == Handlers \union {None}
  <1>1. level' \in {0, 1} /\ UNCHANGED <<activeLow, trigger, attached, eventHandle, eventData, wanted>>
        /\ halted' \in BOOLEAN
    BY DEF Edge, flagVars, taskVars, PinTypes
  <1>2. CASE UNCHANGED events
    BY <1>1, <1>2 DEF PinTypes
  <1>3. CASE ~UNCHANGED events
    <2>1. PICK loop \in Loops : /\ Len(events[loop]) < EventQueueSize
                                /\ events' = [events EXCEPT ![loop] = Append(@, eventData)]
      BY <1>3 DEF Edge, Post
    <2>2. events[loop] \in Seq(D) /\ eventData \in D
      BY DEF PinTypes
    <2> HIDE DEF D
    <2>3. Append(events[loop], eventData) \in Seq(D)
          /\ Len(Append(events[loop], eventData)) = Len(events[loop]) + 1
      BY <2>2
    <2>4. Len(Append(events[loop], eventData)) <= EventQueueSize
      BY <2>1, <2>2, <2>3, GpioAssumption
    <2>5. events' \in [Loops -> Seq(D)] /\ \A l \in Loops : Len(events'[l]) <= EventQueueSize
      BY <2>1, <2>3, <2>4 DEF PinTypes, D
    <2>6. QED
      BY <1>1, <2>5 DEF PinTypes, D
  <1>4. QED
    BY <1>2, <1>3

LEMMA TakeEventTypes ==
  ASSUME PinTypes, NEW loop \in Loops, TakeEvent(loop)
  PROVE  PinTypes'
  <1> DEFINE D == Handlers \union {None}
  <1>1. events[loop] \in Seq(D) /\ events[loop] # <<>>
    BY DEF PinTypes, TakeEvent
  <1>2. UNCHANGED <<activeLow, trigger, attached, level, eventHandle, eventData, wanted, halted>>
        /\ events' = [events EXCEPT ![loop] = Tail(@)]
    BY DEF TakeEvent, pinVars, flagVars, taskVars
  <1> HIDE DEF D
  <1>3. Tail(events[loop]) \in Seq(D) /\ Len(Tail(events[loop])) = Len(events[loop]) - 1
        /\ Len(events[loop]) \in Nat
    BY <1>1
  <1>4. Len(Tail(events[loop])) <= EventQueueSize
    BY <1>3, GpioAssumption DEF PinTypes
  <1>5. events' \in [Loops -> Seq(D)] /\ \A l \in Loops : Len(events'[l]) <= EventQueueSize
    BY <1>2, <1>3, <1>4 DEF PinTypes, D
  <1>6. QED
    BY <1>2, <1>5 DEF PinTypes, D

LEMMA ConfigureTypes ==
  ASSUME PinTypes, NEW low \in BOOLEAN, NEW edge \in Edges,
         Configure(low) \/ EnableInterrupt(edge) \/ DisableInterrupt
  PROVE  PinTypes'
  BY DEF PinTypes, Configure, EnableInterrupt, DisableInterrupt, Edges, Opposite, flagVars, loopVars,
         taskVars

LEMMA DestinationTypes ==
  ASSUME PinTypes, NEW h \in Handlers, NEW found \in BOOLEAN, NEW ok \in BOOLEAN,
         SetEventHandler(h, found, ok) \/ SetLoopEventHandler(h, found, ok) \/ SetQueueHandle
  PROVE  PinTypes'
  <1>1. UNCHANGED <<activeLow, trigger, attached, level, events, halted>>
    BY DEF SetEventHandler, SetLoopEventHandler, SetQueueHandle, pinVars
  <1>2. eventHandle' \in Handlers \union {None} /\ eventData' \in Handlers \union {None}
    BY DEF PinTypes, SetEventHandler, SetLoopEventHandler, SetQueueHandle
  <1>3. wanted'.place \in Loops \union {"queue", "nobody"}
    BY DEF SetEventHandler, SetLoopEventHandler, SetQueueHandle, Nowhere, Loops
  <1>4. QED
    BY <1>1, <1>2, <1>3 DEF PinTypes

LEMMA ClearTypes ==
  ASSUME PinTypes, ClearLoops \/ ClearHandle \/ ClearEnabled
  PROVE  PinTypes'
  <1>1. UNCHANGED <<activeLow, trigger, attached, level, events, eventData, halted>>
    BY DEF ClearLoops, ClearHandle, ClearEnabled, pinVars, loopVars
  <1>2. eventHandle' \in Handlers \union {None}
    BY DEF PinTypes, ClearLoops, ClearHandle, ClearEnabled
  <1>3. wanted' = wanted \/ wanted' = Nowhere
    BY DEF ClearLoops, ClearHandle, ClearEnabled
  <1>4. wanted'.place \in Loops \union {"queue", "nobody"}
    BY <1>3 DEF PinTypes, Nowhere
  <1>5. QED
    BY <1>1, <1>2, <1>4 DEF PinTypes

LEMMA GpioNextTypes ==
  ASSUME PinTypes, GpioNext
  PROVE  PinTypes'
  <1>1. CASE \E low \in BOOLEAN, edge \in Edges : Configure(low) \/ EnableInterrupt(edge)
                                                    \/ DisableInterrupt
    BY <1>1, ConfigureTypes
  <1>2. CASE \E h \in Handlers, found, ok \in BOOLEAN : SetEventHandler(h, found, ok)
                                                       \/ SetLoopEventHandler(h, found, ok)
    BY <1>2, DestinationTypes
  <1>3. CASE SetQueueHandle
    BY <1>3, DestinationTypes, AdsAssumption DEF PinTypes
  <1>4. CASE ClearLoops \/ ClearHandle \/ ClearEnabled
    BY <1>4, ClearTypes
  <1>5. CASE Edge(1 - level)
    BY <1>5, EdgeTypes DEF PinTypes
  <1>6. CASE \E loop \in Loops : TakeEvent(loop)
    BY <1>6, TakeEventTypes
  <1>7. QED
    BY <1>1, <1>2, <1>3, <1>4, <1>5, <1>6 DEF GpioNext, Edges

-------------------------------------------------------------------------------
(* The types of the converter *)

LEMMA ConfigTypes ==
  /\ FirstConfig \in Configs
  /\ \A c \in Configs, m \in Muxes : [c EXCEPT !.mux = m] \in Configs
  /\ \A c \in Configs, b \in BOOLEAN : [c EXCEPT !.ready = b] \in Configs
  <1>1. PICK m \in Muxes, p \in Pgas : TRUE
    BY AdsAssumption
  <1>2. [mux |-> m, pga |-> p, ready |-> FALSE] \in Configs
    BY DEF Configs
  <1>3. \E c \in Configs : ~c.ready
    BY <1>2
  <1>4. FirstConfig \in Configs
    BY <1>3 DEF FirstConfig
  <1>5. QED
    BY <1>4 DEF Configs

LEMMA TypesInit == Init => Types
  <1> SUFFICES ASSUME Init PROVE Types
    OBVIOUS
  <1>1. PinTypes
    BY PinTypesInit DEF Init
  <1>2. BusTypes
    BY DEF Init, AddDevice, BusTypes
  <1>3. config \in Configs
    BY ConfigTypes DEF Init
  <1>4. ObjectTypes
    BY <1>3 DEF Init, ObjectTypes, Apps
  <1>5. config.mux \in Muxes /\ config.pga \in Pgas
    BY <1>3 DEF Configs
  <1>6. [mux |-> config.mux, pga |-> config.pga] \in Values
    BY <1>5 DEF Values
  <1>7. chip \in Chips
    BY <1>5, <1>6 DEF Init, Chips
  <1>8. LifeInv
    BY DEF Init, AddDevice, LifeInv, DestroyPhases
  <1>9. QED
    BY <1>1, <1>2, <1>4, <1>7, <1>8, GpioAssumption DEF Types, DeviceTypes, Init

LEMMA BusTypesWrite ==
  ASSUME BusTypes, NEW ok, NEW handle, WriteRegister(ok) \/ WriteReadWord(handle, ok)
  PROVE  BusTypes' /\ UNCHANGED device
  BY DEF BusTypes, WriteRegister, WriteReadWord, i2cVars

LEMMA ConvertTypes ==
  ASSUME DeviceTypes, NEW c \in Configs, Convert(c)
  PROVE  chip' \in Chips
  <1>1. c.mux \in Muxes /\ c.pga \in Pgas /\ c.ready \in BOOLEAN
    BY DEF Configs
  <1>2. chip \in Chips
    BY DEF DeviceTypes
  <1>3. [chip EXCEPT !.busy = TRUE, !.mux = c.mux, !.pga = c.pga, !.ready = c.ready] \in Chips
    BY <1>1, <1>2 DEF Chips
  <1>4. [chip EXCEPT !.ready = c.ready] \in Chips
    BY <1>1, <1>2 DEF Chips
  <1>5. QED
    BY <1>3, <1>4 DEF Convert

LEMMA WriteThresholdsTypes ==
  ASSUME BusTypes, chip \in Chips, NEW on \in BOOLEAN, WriteThresholds(on)
  PROVE  BusTypes' /\ UNCHANGED device /\ chip' \in Chips
  <1>1. PICK mode \in {chip.rdy, on, FALSE} : chip' = [chip EXCEPT !.rdy = mode]
    BY DEF WriteThresholds
  <1>2. BusTypes' /\ UNCHANGED device
    BY BusTypesWrite DEF WriteThresholds
  <1>3. chip' \in Chips
    BY <1>1 DEF Chips
  <1>4. QED
    BY <1>2, <1>3

\* The steps of the pin's owner, taken together.
LEMMA TypesOfPin ==
  ASSUME Types, OnPinOfItsOwn
  PROVE  Types'
  <1>1. PinTypes'
    BY GpioNextTypes DEF Types, OnPinOfItsOwn
  <1>2. UNCHANGED <<i2cVars, adsVars>>
    BY DEF OnPinOfItsOwn
  <1>3. QED
    BY <1>1, <1>2 DEF Types, BusTypes, ObjectTypes, DeviceTypes, LifeInv, i2cVars, adsVars

\* The steps of setReadyPin and removeReadyPin up to the thresholds, and of the
\* destructor, which touch neither the device's registers nor the bus.
LEMMA TypesOfPinSteps ==
  ASSUME Types, SetReadyPin \/ SetEnable \/ SetHandler \/ RemoveReadyPin \/ RemoveArgs \/ ClearPin
                  \/ Destroy \/ DestroyArgs \/ DestroyInterrupt
  PROVE  Types'
  <1>1. PinTypes'
    <2>1. CASE UNCHANGED gpioVars
      BY <2>1, PinTypesUntouched
         DEF Types, gpioVars, pinVars, flagVars, loopVars, taskVars, PinTypeVars
    <2>2. CASE Configure(FALSE) \/ EnableInterrupt("NEGEDGE") \/ DisableInterrupt
      BY <2>2, ConfigureTypes DEF Types, Edges
    <2>3. CASE \E found, ok \in BOOLEAN : SetEventHandler(EventHandler, found, ok)
      BY <2>3, DestinationTypes, AdsAssumption DEF Types
    <2>4. CASE ClearLoops \/ ClearHandle \/ ClearEnabled
      BY <2>4, ClearTypes DEF Types
    <2>5. QED
      BY <2>1, <2>2, <2>3, <2>4 DEF SetReadyPin, SetEnable, SetHandler, RemoveReadyPin, RemoveArgs,
         ClearPin, Destroy, DestroyArgs, DestroyInterrupt
  <1>2. UNCHANGED <<chip, handler, calls>>
    BY DEF turnVars, SetReadyPin, SetEnable, SetHandler, RemoveReadyPin, RemoveArgs,
       ClearPin, Destroy, DestroyArgs, DestroyInterrupt
  <1>3. BusTypes'
    BY DEF Types, BusTypes, i2cVars, SetReadyPin, SetEnable, SetHandler, RemoveReadyPin, RemoveArgs,
       ClearPin, Destroy, DestroyArgs, DestroyInterrupt, RemoveDevice
  <1>4. ObjectTypes'
    BY ConfigTypes DEF Types, ObjectTypes, objVars, askVars, Apps, RemovePhases, DestroyPhases,
       SetReadyPin, SetEnable, SetHandler, RemoveReadyPin, RemoveArgs,
       ClearPin, Destroy, DestroyArgs, DestroyInterrupt
  <1>5. LifeInv'
    <2>1. CASE Destroy
      BY <2>1 DEF Destroy, RemoveDevice, LifeInv, DestroyPhases
    <2>2. CASE ~Destroy
      <3>1. UNCHANGED device
        BY <2>2 DEF i2cVars, SetReadyPin, SetEnable, SetHandler, RemoveReadyPin, RemoveArgs,
           ClearPin, DestroyArgs, DestroyInterrupt
      <3>2. app \in DestroyPhases <=> app' \in DestroyPhases
        BY <2>2 DEF DestroyPhases, Idle, SetReadyPin, SetEnable, SetHandler, RemoveReadyPin,
           RemoveArgs, ClearPin, DestroyArgs, DestroyInterrupt
      <3>3. args' = "freed" => args = "freed" \/ DestroyArgs
        BY <2>2 DEF objVars, SetReadyPin, SetEnable, SetHandler, RemoveReadyPin, RemoveArgs,
           ClearPin, DestroyArgs, DestroyInterrupt
      <3>4. DestroyArgs => app' \in DestroyPhases
        BY DEF DestroyArgs, DestroyPhases
      <3>5. QED
        BY <3>1, <3>2, <3>3, <3>4 DEF Types, LifeInv
    <2>3. QED
      BY <2>1, <2>2
  <1>6. QED
    BY <1>1, <1>2, <1>3, <1>4, <1>5 DEF Types, DeviceTypes

\* The steps that write to the bus or to the device's registers.
LEMMA TypesOfSetThresholds ==
  ASSUME Types, SetThresholds \/ RemoveThresholds
  PROVE  Types'
  <1>1. PICK on \in BOOLEAN : WriteThresholds(on)
    BY DEF SetThresholds, RemoveThresholds
  <1>2. BusTypes' /\ UNCHANGED device /\ chip' \in Chips
    <2>1. chip \in Chips /\ BusTypes
      BY DEF Types, DeviceTypes
    <2>2. QED
      BY <1>1, <2>1, WriteThresholdsTypes
  <1>3. PinTypes'
    BY PinTypesUntouched DEF Types, SetThresholds, RemoveThresholds, gpioVars, pinVars, flagVars,
       loopVars, taskVars, PinTypeVars
  <1>4. ObjectTypes'
    BY ConfigTypes DEF Types, ObjectTypes, Apps, SetThresholds, RemoveThresholds, askVars
  <1>5. LifeInv'
    BY <1>2 DEF Types, LifeInv, DestroyPhases, SetThresholds, RemoveThresholds
  <1>6. UNCHANGED <<handler, calls>>
    BY DEF SetThresholds, RemoveThresholds, turnVars
  <1>7. QED
    BY <1>2, <1>3, <1>4, <1>5, <1>6 DEF Types, DeviceTypes

LEMMA TypesOfSetConfig ==
  ASSUME Types, NEW c \in Configs, SetConfig(c)
  PROVE  Types'
  <1>1. PinTypes'
    BY PinTypesUntouched DEF Types, SetConfig, gpioVars, pinVars, flagVars, loopVars, taskVars, PinTypeVars
  <1>2. BusTypes' /\ DeviceTypes'
    BY DEF Types, BusTypes, DeviceTypes, SetConfig, i2cVars, turnVars
  <1>3. ObjectTypes' /\ LifeInv'
    BY DEF Types, ObjectTypes, LifeInv, SetConfig, i2cVars
  <1>4. QED
    BY <1>1, <1>2, <1>3 DEF Types

LEMMA TypesOfGetRaw ==
  ASSUME Types, NEW m \in Muxes, NEW v \in BOOLEAN, GetRaw(m, v)
  PROVE  Types'
  <1>1. config' \in Configs
    BY ConfigTypes DEF Types, ObjectTypes, GetRaw
  <1>2. BusTypes' /\ UNCHANGED device
    BY BusTypesWrite DEF Types, GetRaw
  <1>3. chip' \in Chips
    <2>1. CASE UNCHANGED chip
      BY <2>1 DEF Types, DeviceTypes
    <2>2. CASE Convert(config')
      BY <1>1, <2>2, ConvertTypes DEF Types
    <2>3. QED
      BY <2>1, <2>2 DEF GetRaw
  <1>4. PinTypes'
    <2>1. CASE UNCHANGED gpioVars
      BY <2>1, PinTypesUntouched DEF Types, gpioVars, pinVars, flagVars, loopVars, taskVars, PinTypeVars
    <2>2. CASE Edge(1)
      BY <2>2, EdgeTypes DEF Types
    <2>3. QED
      BY <2>1, <2>2 DEF GetRaw
  <1>5. app' \in {"idle", "poll raw", "poll volts"} /\ app = "idle"
    BY DEF GetRaw, Idle
  <1>6. UNCHANGED <<owner, useReadyPin, args, handler, calls, raced>>
    BY DEF GetRaw, turnVars
  <1>7. voltage' \in BOOLEAN /\ unanswered' \in BOOLEAN
    BY DEF GetRaw, Types, ObjectTypes
  <1>8. ObjectTypes'
    BY <1>1, <1>5, <1>6, <1>7 DEF Types, ObjectTypes, Apps
  <1>9. LifeInv'
    BY <1>2, <1>5, <1>6 DEF Types, LifeInv, DestroyPhases
  <1>10. QED
    BY <1>2, <1>3, <1>4, <1>6, <1>8, <1>9 DEF Types, DeviceTypes

LEMMA TypesOfPoll ==
  ASSUME Types, NEW ok \in BOOLEAN, Poll(ok)
  PROVE  Types'
  <1>1. PinTypes'
    BY PinTypesUntouched DEF Types, Poll, gpioVars, pinVars, flagVars, loopVars, taskVars, PinTypeVars
  <1>2. BusTypes' /\ UNCHANGED device
    BY BusTypesWrite DEF Types, Poll
  <1>3. ObjectTypes'
    BY DEF Types, ObjectTypes, Apps, Poll, objVars
  <1>4. LifeInv' /\ DeviceTypes'
    BY <1>2 DEF Types, LifeInv, DeviceTypes, Poll, Polling, DestroyPhases, objVars, turnVars
  <1>5. QED
    BY <1>1, <1>2, <1>3, <1>4 DEF Types

LEMMA TypesOfDevice ==
  ASSUME Types, ConversionEnds
  PROVE  Types'
  <1>1. PinTypes'
    <2>1. CASE UNCHANGED gpioVars
      BY <2>1, PinTypesUntouched DEF Types, gpioVars, pinVars, flagVars, loopVars, taskVars, PinTypeVars
    <2>2. CASE Edge(0)
      BY <2>2, EdgeTypes DEF Types
    <2>3. QED
      BY <2>1, <2>2 DEF ConversionEnds
  <1>2. [mux |-> chip.mux, pga |-> chip.pga] \in Values /\ chip \in Chips
    BY DEF Types, DeviceTypes, Chips, Values
  <1>3. chip' \in Chips
    BY <1>2 DEF ConversionEnds, Chips
  <1>4. BusTypes' /\ ObjectTypes' /\ LifeInv' /\ UNCHANGED <<handler, calls>>
    BY DEF Types, BusTypes, ObjectTypes, LifeInv, ConversionEnds, i2cVars, objVars, turnVars
  <1>5. QED
    BY <1>1, <1>3, <1>4 DEF Types, DeviceTypes

LEMMA TypesOfHandler ==
  ASSUME Inv, Types, EventsInv, HandlerStep
  PROVE  Types'
  <1>1. PinTypes'
    <2>1. CASE UNCHANGED gpioVars
      BY <2>1, PinTypesUntouched DEF Types, gpioVars, pinVars, flagVars, loopVars, taskVars, PinTypeVars
    <2>2. CASE TakeEvent("default")
      BY <2>2, TakeEventTypes DEF Types, Loops
    <2>3. QED
      BY <2>1, <2>2 DEF HandlerStep, HandlerBegins, HandlerReads, HandlerCalls
  <1>2. BusTypes' /\ UNCHANGED device
    <2>1. CASE UNCHANGED i2cVars
      BY <2>1 DEF Types, BusTypes, i2cVars
    <2>2. CASE Crash
      BY <2>2 DEF Types, BusTypes, Crash
    <2>3. CASE \E ok \in Transfers : WriteReadWord(handler.handle, ok)
      BY <2>3, BusTypesWrite DEF Types
    <2>4. QED
      BY <2>1, <2>2, <2>3 DEF HandlerStep, HandlerBegins, HandlerReads, HandlerCalls
  <1>3. ObjectTypes'
    BY DEF Types, ObjectTypes, HandlerStep, HandlerBegins, HandlerReads, HandlerCalls, objVars, askVars
  <1>4. LifeInv'
    BY <1>2 DEF Types, LifeInv, HandlerStep, HandlerBegins, HandlerReads, HandlerCalls, objVars
  <1>5. UNCHANGED chip
    BY DEF HandlerStep, HandlerBegins, HandlerReads, HandlerCalls
  <1>6. handler' = NoHandler \/ handler' \in Reading \/ handler' \in Calling
    <2>1. CASE HandlerBegins
      <3>1. config.mux \in Muxes
        BY DEF Types, ObjectTypes, Configs
      <3>2. [at |-> "read", mux |-> config.mux, handle |-> args = "set", again |-> calls > 0]
              \in Reading
        BY <3>1 DEF Reading
      <3>3. handler' = handler
              \/ handler' = [at |-> "read", mux |-> config.mux, handle |-> args = "set",
                             again |-> calls > 0]
        BY <2>1 DEF HandlerBegins
      <3>4. QED
        BY <3>2, <3>3 DEF Types, DeviceTypes
    <2>2. CASE \E ok \in Transfers : HandlerReads(ok)
      <3>1. chip.result \in Values /\ handler.mux \in Muxes /\ handler.again \in BOOLEAN
        BY <2>2 DEF Types, DeviceTypes, Chips, HandlerReads, NoHandler, Reading, Calling
      <3>2. QED
        BY <2>2, <3>1 DEF HandlerReads, Calling
    <2>3. CASE HandlerCalls
      BY <2>3 DEF HandlerCalls, Types, DeviceTypes
    <2>4. QED
      BY <2>1, <2>2, <2>3 DEF HandlerStep
  <1>7. calls' \in 0 .. MaxRegistered
    <2>1. CASE calls > 0 \/ ~HandlerBegins
      <3>1. UNCHANGED calls \/ (calls > 0 /\ calls' = calls - 1)
        BY <2>1 DEF HandlerStep, HandlerBegins, HandlerReads, HandlerCalls
      <3>2. QED
        BY <3>1, GpioAssumption DEF Types, DeviceTypes
    <2>2. CASE HandlerBegins /\ ~(calls > 0)
      <3>1. events["default"] # <<>> /\ owner = "ads1115"
            /\ calls' = registered["default"][EventHandler] - 1
        BY <2>2 DEF HandlerBegins, TakeEvent, Running
      <3>2. registered["default"][EventHandler] \in 0 .. MaxRegistered
        BY AdsAssumption DEF Inv, FlagsInv, Counts, Loops
      <3>3. QED
        BY <3>1, <3>2, GpioAssumption DEF EventsInv
    <2>3. QED
      BY <2>1, <2>2
  <1>8. QED
    BY <1>1, <1>2, <1>3, <1>4, <1>5, <1>6, <1>7 DEF Types, DeviceTypes

LEMMA TypesNext ==
  ASSUME Inv, Types, EventsInv, [Next]_vars
  PROVE  Types'
  <1>1. CASE UNCHANGED vars
    <2>1. PinTypes'
      BY <1>1, PinTypesUntouched DEF Types, vars, gpioVars, pinVars, flagVars, loopVars, taskVars, PinTypeVars
    <2>2. UNCHANGED <<i2cVars, adsVars>>
      BY <1>1 DEF vars
    <2>3. QED
      BY <2>1, <2>2 DEF Types, BusTypes, ObjectTypes, DeviceTypes, LifeInv, i2cVars, adsVars
  <1>2. CASE Next
    BY <1>2, TypesOfPin, TypesOfPinSteps, TypesOfSetThresholds, TypesOfSetConfig, TypesOfGetRaw,
       TypesOfPoll, TypesOfDevice, TypesOfHandler DEF Next, PollStep, Transfers
  <1>3. QED
    BY <1>1, <1>2

-------------------------------------------------------------------------------
(* What the default event loop has registered *)

LEMMA EventsInit == Init => EventsInv
  BY DEF Init, GpioInit, EventsInv, Nowhere, Loops

\* The default loop keeps every registration.
LEMMA DefaultKeeps ==
  ASSUME Inv, owner = "ads1115", Next, registered["default"][EventHandler] > 0
  PROVE  registered'["default"][EventHandler] > 0
  <1>1. CASE UNCHANGED registered
    BY <1>1
  <1>2. ASSUME NEW found \in BOOLEAN
        PROVE  /\ Unregistered(found) \in Counts
               /\ Unregistered(found)["default"] = registered["default"]
    BY WhatIsLeft DEF Unregistered, Inv, FlagsInv, Counts, Loops
  <1>3. CASE SetHandler
    <2>1. PICK found \in BOOLEAN, ok \in BOOLEAN : SetEventHandler(EventHandler, found, ok)
      BY <1>3 DEF SetHandler
    <2>2. CASE ok
      <3>1. /\ CanRegister(Unregistered(found), "default", EventHandler)
            /\ registered' = Registered(Unregistered(found), "default", EventHandler)
        BY <2>1, <2>2 DEF SetEventHandler
      <3>2. QED
        BY <1>2, <3>1, OneMore, AdsAssumption DEF Loops
    <2>3. CASE ~ok
      BY <1>2, <2>1, <2>3 DEF SetEventHandler
    <2>4. QED
      BY <2>2, <2>3
  <1>4. CASE ClearPin
    BY <1>2, <1>4 DEF ClearPin, ClearLoops, ClearHandle, ClearEnabled, loopVars
  <1>5. QED
    <2>1. CASE SetReadyPin \/ SetEnable \/ SetThresholds \/ RemoveReadyPin \/ RemoveArgs
                 \/ RemoveThresholds \/ (\E c \in Configs : SetConfig(c))
                 \/ (\E m \in Muxes, v \in BOOLEAN : GetRaw(m, v))
                 \/ Destroy \/ DestroyArgs \/ DestroyInterrupt \/ ConversionEnds \/ PollStep \/ HandlerStep
      <3>1. UNCHANGED flagInvVars
        BY <2>1, UntouchedFlags
      <3>2. QED
        BY <1>1, <3>1 DEF flagInvVars
    <2>2. QED
      BY <1>3, <1>4, <2>1 DEF Next, OnPinOfItsOwn

\* An interrupt that reports to the default loop does so for a handler there.
LEMMA PostedToDefault ==
  ASSUME Inv, Types, EventsInv, owner = "ads1115", NEW to, Edge(to),
         events["default"] = <<>>, events'["default"] # <<>>
  PROVE  registered["default"][EventHandler] > 0
  <1>1. Place = "default"
    BY DEF Edge, Post, Types, PinTypes, Loops
  <1>2. defaultSet /\ clearing = "no"
    BY <1>1 DEF Place, Inv, FlagsInv
  <1>3. wanted.handler = EventHandler
    BY <1>1, <1>2 DEF Inv, FlagsInv, EventsInv
  <1>4. QED
    BY <1>2, <1>3 DEF Inv, FlagsInv

LEMMA EventsNext ==
  ASSUME Inv, Types, EventsInv, [Next]_vars
  PROVE  EventsInv'
  <1>1. CASE UNCHANGED vars
    BY <1>1 DEF vars, gpioVars, loopVars, taskVars, adsVars, EventsInv
  <1>2. CASE Next
    <2>1. UNCHANGED owner
      BY <1>2 DEF Next, OnPinOfItsOwn, adsVars, SetReadyPin, SetEnable, SetHandler, SetThresholds,
         RemoveReadyPin, RemoveArgs, RemoveThresholds, ClearPin, SetConfig, GetRaw, Destroy,
         DestroyArgs, DestroyInterrupt, ConversionEnds, PollStep, Poll, HandlerStep, HandlerBegins,
         HandlerReads, HandlerCalls
    <2>2. CASE owner = "ads1115"
      <3>1. wanted' = wanted \/ wanted' = Nowhere
              \/ wanted' = [place |-> "default", handler |-> EventHandler]
        <4>1. CASE SetHandler
          BY <4>1 DEF SetHandler, SetEventHandler
        <4>2. CASE ~SetHandler
          BY <1>2, <2>2, <4>2 DEF Next, OnPinOfItsOwn, SetReadyPin, SetEnable, SetThresholds,
             RemoveReadyPin, RemoveArgs, RemoveThresholds, ClearPin, SetConfig, GetRaw, Destroy,
             DestroyArgs, DestroyInterrupt, ConversionEnds, PollStep, Poll, HandlerStep, HandlerBegins,
             HandlerReads, HandlerCalls, Configure, EnableInterrupt, DisableInterrupt, Edge, TakeEvent,
             ClearLoops, ClearHandle, ClearEnabled, gpioVars, taskVars
        <4>3. QED
          BY <4>1, <4>2
      <3>2. wanted'.place = "default" => wanted'.handler = EventHandler
        BY <2>2, <3>1 DEF EventsInv, Nowhere
      <3>3. events'["default"] # <<>> =>
              \/ events["default"] # <<>>
              \/ ConversionEnds /\ Edge(0)
              \/ (\E m \in Muxes, v \in BOOLEAN : GetRaw(m, v)) /\ Edge(1)
        <4>1. TakeEvent("default") => events["default"] # <<>>
          BY DEF TakeEvent
        <4>2. QED
          BY <1>2, <2>2, <4>1 DEF Next, OnPinOfItsOwn, SetReadyPin, SetEnable, SetHandler,
             SetThresholds, SetEventHandler,
             RemoveReadyPin, RemoveArgs, RemoveThresholds, ClearPin, SetConfig, GetRaw, Destroy,
             DestroyArgs, DestroyInterrupt, ConversionEnds, PollStep, Poll, HandlerStep, HandlerBegins,
             HandlerReads, HandlerCalls, Configure, EnableInterrupt, DisableInterrupt,
             ClearLoops, ClearHandle, ClearEnabled, gpioVars, loopVars
      <3>4. events'["default"] # <<>> => registered["default"][EventHandler] > 0
        BY <2>2, <3>3, PostedToDefault DEF EventsInv
      <3>5. QED
        BY <1>2, <2>2, <3>2, <3>4, DefaultKeeps DEF EventsInv
    <2>3. QED
      BY <2>1, <2>2 DEF EventsInv
  <1>3. QED
    BY <1>1, <1>2

LEMMA AllInvariants == Spec => [](Inv /\ Types /\ EventsInv)
  BY InvInit, InvNext, TypesInit, TypesNext, EventsInit, EventsNext, PTL DEF Spec

\* Every variable keeps its type, no queue of an event loop holds more than it
\* can, and the pointers are freed only after the device has left the bus
\* (~Ads1115), for any handlers, inputs, ranges and queue sizes.
THEOREM Ads1115Types == Spec => []TypeOK
  <1>1. Inv /\ Types => TypeOK
    <2> SUFFICES ASSUME Inv, Types PROVE TypeOK
      OBVIOUS
    <2>1. GpioTypeOK
      BY DEF Inv, Types, FlagsInv, Counts, PinTypes, GpioTypeOK
    <2>2. handler.at \in {"idle", "read", "call"} /\ calls \in 0 .. MaxRegistered
      BY DEF Types, DeviceTypes, NoHandler, Reading, Calling
    <2>3. args = "freed" => ~device
      BY DEF Types, LifeInv
    <2>4. QED
      BY <2>1, <2>2, <2>3 DEF Types, BusTypes, ObjectTypes, TypeOK
  <1>2. QED
    BY <1>1, AllInvariants, PTL

-------------------------------------------------------------------------------
(* Pointers and events *)

NoEvents == handler = NoHandler /\ calls = 0 /\ \A l \in Loops : events[l] = <<>>

Leaving == app \in RemovePhases \union DestroyPhases

\* While the pointers are not set no event can be posted: the interrupt is off,
\* or it finds nobody to report to.
SilentInv ==
    /\ app \in RemovePhases => ~attached
    /\ (args # "set" /\ ~Leaving) \/ app = "remove: thresholds" => wanted.place = "nobody"

\* A quiet pin that is taken away stays quiet, and without the pointers there
\* is no event that could follow them.
CalmInv ==
    /\ Leaving => Quiet
    /\ args # "set" => NoEvents
    /\ handler.at = "read" => handler.handle

PointersInv ==
    /\ owner = "ads1115" => SilentInv /\ (~raced => CalmInv)
    /\ PointersOutliveEvents

LEMMA PointersInit == Init => PointersInv
  BY DEF Init, GpioInit, AddDevice, PointersInv, PointersOutliveEvents, SilentInv, CalmInv, Nowhere,
     Leaving, RemovePhases, DestroyPhases, NoEvents, NoHandler

\* What the pin's interrupt finds when nobody is to be told.
LEMMA NobodyToTell ==
  ASSUME Inv, owner = "ads1115", app \notin {"remove: clear", "destroy: clear"},
         wanted.place = "nobody", NEW to, Edge(to)
  PROVE  UNCHANGED events
  <1>1. Place = "nobody"
    BY DEF Inv, TurnInv, FlagsInv
  <1>2. QED
    BY <1>1 DEF Edge, Post, Loops

LEMMA OffIsSilent ==
  ASSUME ~attached, NEW to, Edge(to)
  PROVE  UNCHANGED events
  BY DEF Edge, Fires

\* Without the pointers a converter's interrupt posts nothing.
LEMMA NoPointersNoEvent ==
  ASSUME Inv, owner = "ads1115", SilentInv, args # "set", ~Leaving, NEW to, Edge(to)
  PROVE  UNCHANGED events
  BY NobodyToTell DEF SilentInv, Leaving, RemovePhases, DestroyPhases

LEMMA SilentNext ==
  ASSUME Inv, Types, owner = "ads1115", SilentInv, Next
  PROVE  SilentInv'
  <1>1. CASE SetReadyPin \/ SetEnable
    BY <1>1 DEF SetReadyPin, SetEnable, Idle, SilentInv, Configure, EnableInterrupt, objVars,
       taskVars, Leaving, RemovePhases, DestroyPhases
  <1>2. CASE SetHandler
    BY <1>2 DEF SetHandler, SilentInv, Leaving, RemovePhases, DestroyPhases
  <1>3. CASE SetThresholds
    BY <1>3 DEF SetThresholds, SilentInv, gpioVars, taskVars, Leaving, RemovePhases, DestroyPhases
  <1>4. CASE RemoveReadyPin
    BY <1>4 DEF RemoveReadyPin, DisableInterrupt, SilentInv, taskVars, Leaving, RemovePhases,
       DestroyPhases
  <1>5. CASE RemoveArgs \/ RemoveThresholds
    <2>1. UNCHANGED <<attached, wanted>>
      BY <1>5 DEF RemoveArgs, RemoveThresholds, gpioVars, pinVars, taskVars
    <2>2. \/ app = "remove: args" /\ app' = "remove: clear"
          \/ app = "remove: thresholds" /\ app' = "idle"
      BY <1>5 DEF RemoveArgs, RemoveThresholds
    <2>3. QED
      BY <2>1, <2>2 DEF SilentInv, Leaving, RemovePhases, DestroyPhases
  <1>6. CASE ClearPin
    <2>1. UNCHANGED attached /\ app \in RemovePhases \union DestroyPhases
      BY <1>6 DEF ClearPin, ClearLoops, ClearHandle, ClearEnabled, pinVars, RemovePhases, DestroyPhases
    <2>2. app' \in RemovePhases \union DestroyPhases /\ (app' \in RemovePhases => app \in RemovePhases)
      BY <1>6 DEF ClearPin, RemovePhases, DestroyPhases
    <2>3. app' = "remove: thresholds" => wanted' = Nowhere
      BY <1>6 DEF ClearPin, ClearLoops, ClearHandle, ClearEnabled
    <2>4. app' = "remove: thresholds" => wanted'.place = "nobody"
      <3>1. Nowhere.place = "nobody"
        BY DEF Nowhere
      <3>2. QED
        BY <2>3, <3>1
    <2>5. app' \in RemovePhases => ~attached'
      BY <2>1, <2>2 DEF SilentInv
    <2>6. QED
      BY <2>2, <2>4, <2>5 DEF SilentInv, Leaving
  <1>7. CASE Destroy \/ DestroyArgs \/ DestroyInterrupt
    BY <1>7 DEF Destroy, DestroyArgs, DestroyInterrupt, SilentInv, Leaving, RemovePhases, DestroyPhases
  <1>8. CASE ConversionEnds \/ PollStep \/ HandlerStep \/ (\E c \in Configs : SetConfig(c))
               \/ \E m \in Muxes, v \in BOOLEAN : GetRaw(m, v)
    <2>1. UNCHANGED <<attached, wanted, args>>
      BY <1>8 DEF ConversionEnds, PollStep, Poll, HandlerStep, HandlerBegins, HandlerReads,
         HandlerCalls, SetConfig, GetRaw, Edge, TakeEvent, gpioVars, pinVars, taskVars, objVars
    <2>2. UNCHANGED app \/ {app, app'} \subseteq {"idle", "poll raw", "poll volts"}
      BY <1>8 DEF ConversionEnds, PollStep, Poll, Polling, HandlerStep, HandlerBegins, HandlerReads,
         HandlerCalls, SetConfig, GetRaw, Idle
    <2>3. QED
      BY <2>1, <2>2 DEF SilentInv, Leaving, RemovePhases, DestroyPhases
  <1>9. QED
    BY <1>1, <1>2, <1>3, <1>4, <1>5, <1>6, <1>7, <1>8 DEF Next, OnPinOfItsOwn

\* The calls that take the pin away find it quiet, or it was raced.
LEMMA CalmStarts ==
  ASSUME Types, RemoveReadyPin \/ Destroy, ~raced'
  PROVE  CalmInv'
  <1>1. Quiet /\ UNCHANGED <<chip, handler, calls, events>>
    BY DEF RemoveReadyPin, Destroy, DisableInterrupt, gpioVars, loopVars, turnVars
  <1>2. Quiet'
    BY <1>1 DEF Quiet
  <1>3. QED
    BY <1>2 DEF CalmInv, Quiet, NoEvents, NoHandler

LEMMA CalmLeaves ==
  ASSUME Types, CalmInv, RemoveArgs \/ RemoveThresholds \/ ClearPin \/ DestroyArgs \/ DestroyInterrupt
  PROVE  CalmInv'
  <1>1. Leaving
    BY DEF Leaving, RemoveArgs, RemoveThresholds, ClearPin, DestroyArgs, DestroyInterrupt,
       RemovePhases, DestroyPhases
  <1>2. UNCHANGED <<handler, calls, events>>
    BY DEF RemoveArgs, RemoveThresholds, ClearPin, DestroyArgs, DestroyInterrupt, DisableInterrupt,
       ClearLoops, ClearHandle, ClearEnabled, gpioVars, loopVars, turnVars
  <1>3. chip'.busy = chip.busy
    BY DEF RemoveArgs, RemoveThresholds, ClearPin, DestroyArgs, DestroyInterrupt, WriteThresholds,
       Types, DeviceTypes, Chips
  <1>4. Quiet'
    BY <1>1, <1>2, <1>3 DEF CalmInv, Quiet
  <1>5. QED
    BY <1>4 DEF CalmInv, Quiet, NoEvents, NoHandler

LEMMA CalmSets ==
  ASSUME CalmInv, ~Leaving, ~Leaving',
         UNCHANGED turnVars, UNCHANGED events \/ args' = "set", args' = args \/ args' = "set"
  PROVE  CalmInv'
  BY DEF CalmInv, NoEvents, turnVars

LEMMA CalmHandler ==
  ASSUME Types, CalmInv, HandlerStep
  PROVE  CalmInv' /\ ~Leaving /\ args = "set"
  <1>1. events["default"] # <<>> \/ handler # NoHandler \/ calls # 0
    BY DEF HandlerStep, HandlerBegins, HandlerReads, HandlerCalls, TakeEvent, NoHandler
  <1>2. ~Leaving /\ args = "set"
    BY <1>1 DEF CalmInv, Quiet, NoEvents, Loops
  <1>3. UNCHANGED <<app, args>>
    BY DEF HandlerStep, HandlerBegins, HandlerReads, HandlerCalls, objVars
  <1>4. handler'.at = "read" => handler'.handle
    <2>1. CASE handler' = [at |-> "read", mux |-> config.mux, handle |-> args = "set",
                           again |-> calls > 0]
      BY <1>2, <2>1
    <2>2. CASE handler' = handler
      BY <2>2 DEF CalmInv
    <2>3. CASE handler'.at # "read"
      BY <2>3
    <2>4. QED
      BY <2>1, <2>2, <2>3 DEF HandlerStep, HandlerBegins, HandlerReads, HandlerCalls, NoHandler
  <1>5. QED
    BY <1>2, <1>3, <1>4 DEF CalmInv, Leaving

LEMMA CalmNext ==
  ASSUME Inv, Types, owner = "ads1115", SilentInv, ~raced => CalmInv, Next, ~raced'
  PROVE  CalmInv'
  <1>1. CASE RemoveReadyPin \/ Destroy
    BY <1>1, CalmStarts
  <1>2. CASE ~(RemoveReadyPin \/ Destroy)
    <2>1. CalmInv
      BY <1>2 DEF Next, OnPinOfItsOwn, SetReadyPin, SetEnable, SetHandler, SetThresholds, RemoveArgs,
         RemoveThresholds, ClearPin, SetConfig, GetRaw, DestroyArgs, DestroyInterrupt, ConversionEnds,
         PollStep, Poll, HandlerStep, HandlerBegins, HandlerReads, HandlerCalls, askVars
    <2>2. CASE RemoveArgs \/ RemoveThresholds \/ ClearPin \/ DestroyArgs \/ DestroyInterrupt
      BY <2>1, <2>2, CalmLeaves
    <2>3. CASE HandlerStep
      BY <2>1, <2>3, CalmHandler
    <2>4. CASE SetReadyPin \/ SetEnable \/ SetHandler \/ SetThresholds \/ PollStep
                 \/ \E c \in Configs : SetConfig(c)
      <3>1. ~Leaving /\ ~Leaving' /\ UNCHANGED <<turnVars, events>>
        BY <2>4 DEF SetReadyPin, SetEnable, SetHandler, SetThresholds, PollStep, Poll, Polling,
           SetConfig, Idle, Leaving, RemovePhases, DestroyPhases, Configure, EnableInterrupt,
           SetEventHandler, gpioVars, loopVars
      <3>2. args' = args \/ args' = "set"
        BY <2>4 DEF SetReadyPin, SetEnable, SetHandler, SetThresholds, PollStep, Poll, SetConfig, objVars
      <3>3. QED
        BY <2>1, <3>1, <3>2, CalmSets
    <2>5. CASE ConversionEnds \/ \E m \in Muxes, v \in BOOLEAN : GetRaw(m, v)
      <3>1. ~Leaving
        BY <2>1, <2>5 DEF ConversionEnds, GetRaw, Idle, CalmInv, Quiet, Leaving, RemovePhases,
           DestroyPhases
      <3>2. UNCHANGED <<turnVars, args>> /\ ~Leaving'
        BY <2>5, <3>1 DEF ConversionEnds, GetRaw, Leaving, RemovePhases, DestroyPhases, objVars
      <3>3. UNCHANGED events \/ args = "set"
        <4>1. CASE UNCHANGED gpioVars
          BY <4>1 DEF gpioVars, loopVars
        <4>2. CASE Edge(0) \/ Edge(1)
          BY <3>1, <4>2, NoPointersNoEvent
        <4>3. QED
          BY <2>5, <4>1, <4>2 DEF ConversionEnds, GetRaw
      <3>4. QED
        BY <2>1, <3>1, <3>2, <3>3, CalmSets
    <2>6. QED
      BY <1>2, <2>2, <2>3, <2>4, <2>5 DEF Next, OnPinOfItsOwn
  <1>3. QED
    BY <1>1, <1>2

\* Where a pointer is followed, it is there, or the pin was raced.
LEMMA PointersFollowed ==
  ASSUME Types, PointersInv, Next
  PROVE  PointersOutliveEvents'
  <1>1. CASE UNCHANGED crash
    <2>1. raced' = raced \/ crash = "no"
      BY DEF Next, OnPinOfItsOwn, adsVars, SetReadyPin, SetEnable, SetHandler, SetThresholds,
         RemoveReadyPin, RemoveArgs, RemoveThresholds, ClearPin, SetConfig, GetRaw, Destroy,
         DestroyArgs, DestroyInterrupt, ConversionEnds, PollStep, Poll, HandlerStep, HandlerBegins,
         HandlerReads, HandlerCalls, Idle, Running, askVars
    <2>2. QED
      BY <1>1, <2>1 DEF PointersInv, PointersOutliveEvents
  <1>2. CASE PollStep
    <2>1. device
      BY <1>2 DEF PollStep, Poll, Polling, Types, LifeInv, DestroyPhases
    <2>2. QED
      BY <1>2, <2>1 DEF PollStep, Poll, WriteReadWord, PointersOutliveEvents
  <1>3. CASE HandlerStep
    <2>1. UNCHANGED raced /\ owner = "ads1115"
      BY <1>3 DEF HandlerStep, HandlerBegins, HandlerReads, HandlerCalls, Running, askVars
    <2>2. CASE raced
      BY <2>1, <2>2 DEF PointersOutliveEvents
    <2>3. CASE ~raced
      <3>1. CalmInv /\ ~Leaving /\ args = "set"
        BY <1>3, <2>1, <2>3, CalmHandler DEF PointersInv
      <3>2. device
        BY <3>1 DEF Leaving, Types, LifeInv
      <3>3. crash' # "pointer"
        BY <1>3, <3>1, <3>2 DEF CalmInv, HandlerStep, HandlerBegins, HandlerReads, HandlerCalls,
           WriteReadWord, i2cVars, Running
      <3>4. QED
        BY <3>3 DEF PointersOutliveEvents
    <2>4. QED
      BY <2>2, <2>3
  <1>4. QED
    BY <1>1, <1>2, <1>3 DEF Next, OnPinOfItsOwn, i2cVars, SetReadyPin, SetEnable, SetHandler,
       SetThresholds, WriteThresholds, WriteRegister, RemoveReadyPin, RemoveArgs, RemoveThresholds,
       ClearPin, SetConfig, GetRaw, Destroy, RemoveDevice, DestroyArgs, DestroyInterrupt,
       ConversionEnds

LEMMA PointersNext ==
  ASSUME Inv, Types, PointersInv, [Next]_vars
  PROVE  PointersInv'
  <1>1. CASE UNCHANGED vars
    BY <1>1 DEF vars, gpioVars, pinVars, loopVars, taskVars, i2cVars, adsVars, PointersInv, SilentInv,
       CalmInv, Leaving, Quiet, NoEvents, PointersOutliveEvents
  <1>2. CASE Next
    <2>1. UNCHANGED owner
      BY <1>2 DEF Next, OnPinOfItsOwn, adsVars, SetReadyPin, SetEnable, SetHandler, SetThresholds,
         RemoveReadyPin, RemoveArgs, RemoveThresholds, ClearPin, SetConfig, GetRaw, Destroy,
         DestroyArgs, DestroyInterrupt, ConversionEnds, PollStep, Poll, HandlerStep, HandlerBegins,
         HandlerReads, HandlerCalls
    <2>2. PointersOutliveEvents'
      BY <1>2, PointersFollowed
    <2>3. owner = "ads1115" => SilentInv'
      BY <1>2, SilentNext DEF PointersInv
    <2>4. owner = "ads1115" /\ ~raced' => CalmInv'
      BY <1>2, CalmNext DEF PointersInv
    <2>5. QED
      BY <2>1, <2>2, <2>3, <2>4 DEF PointersInv
  <1>3. QED
    BY <1>1, <1>2

\* event_handler follows a null or freed pointer only when the ready pin was
\* taken away, or the object destroyed, with a conversion or its event under
\* way (ads1115.cpp:174-178, 77-78), whatever was set and removed before.
THEOREM PointersOutliveEventsHolds == Spec => []PointersOutliveEvents
  <1>1. PointersInv => PointersOutliveEvents
    BY DEF PointersInv
  <1>2. QED
    BY <1>1, AllInvariants, PointersInit, PointersNext, PTL DEF Spec

-------------------------------------------------------------------------------
(* The request that is watched *)

\* How the interrupt follows setReadyPin and removeReadyPin.
ReadyPinInv ==
    /\ ~activeLow
    /\ attached => trigger = "NEGEDGE"
    /\ app \in {"poll raw", "poll volts", "set: enable", "set: handler", "set: thresholds"} =>
         ~useReadyPin
    /\ app \in RemovePhases \union {"set: enable"}
         \/ (~useReadyPin /\ app \in {"idle", "poll raw", "poll volts"}) => ~attached
    /\ chip.busy => level = 1

\* The flag of getVoltage is set only while the answer that clears it is on its
\* way, or could not come.
VoltsInv ==
    /\ ~useReadyPin \/ app \in RemovePhases => ~voltage
    /\ useReadyPin /\ app = "idle" /\ voltage /\ ~unanswered =>
         \/ (chip.busy /\ chip.ready)
         \/ handler # NoHandler
         \/ events["default"] # <<>>
         \/ ~(attached /\ Place = "default" /\ chip.rdy)

Current == [mux |-> config.mux, pga |-> config.pga]

\* event_handler has called back for the event under way.
Repeating == IF handler = NoHandler THEN calls > 0 ELSE handler.again

\* What is under way is what was asked for, at each stage of the answer; the unit
\* only until event_handler has called back for the first time.
AskedInv ==
    asked # Nothing =>
      /\ \E volts \in BOOLEAN :
            /\ asked = [mux |-> config.mux, value |-> Current, volts |-> volts,
                        range |-> config.pga]
            /\ useReadyPin /\ ~Repeating => volts = voltage
            /\ ~useReadyPin => volts = (app = "poll volts")
      /\ IF useReadyPin THEN app = "idle" ELSE Polling /\ NoEvents
      /\ IF chip.busy THEN chip.mux = config.mux /\ chip.pga = config.pga /\ NoEvents
                      ELSE chip.result = Current
      /\ handler # NoHandler => handler.mux = config.mux
      /\ handler.at = "call" => handler.value = Current

RequestInv == owner = "ads1115" => ReadyPinInv /\ VoltsInv /\ AskedInv

LEMMA RequestInit == Init => RequestInv
  <1> SUFFICES ASSUME Init, owner = "ads1115" PROVE ReadyPinInv /\ VoltsInv /\ AskedInv
    BY DEF RequestInv
  <1>1. app = "idle" /\ useReadyPin = FALSE /\ voltage = FALSE /\ args = "null" /\ asked = Nothing
    BY DEF Init
  <1>2. ~activeLow /\ ~attached /\ chip.busy = FALSE
    BY DEF Init, GpioInit
  <1>3. ReadyPinInv
    BY <1>1, <1>2 DEF ReadyPinInv, RemovePhases, Init, GpioInit
  <1>4. QED
    BY <1>1, <1>3 DEF VoltsInv, AskedInv

\* Only these steps write to the device's registers, and none sets it to work.
LEMMA ThresholdsKeepBusy ==
  ASSUME Types, NEW on, WriteThresholds(on)
  PROVE  chip'.busy = chip.busy
  BY DEF WriteThresholds, Types, DeviceTypes, Chips

LEMMA ReadyPinSets ==
  ASSUME Types, ReadyPinInv, SetReadyPin \/ SetEnable \/ SetHandler \/ SetThresholds
  PROVE  ReadyPinInv'
  <1>1. CASE SetReadyPin
    BY <1>1 DEF SetReadyPin, Configure, ReadyPinInv, Idle, objVars, RemovePhases
  <1>2. CASE SetEnable
    <2>1. /\ app = "set: enable" /\ app' = "set: handler"
          /\ UNCHANGED <<activeLow, level, chip, useReadyPin>>
      BY <1>2 DEF SetEnable, EnableInterrupt, objVars
    <2>2. attached = FALSE /\ useReadyPin = FALSE /\ ~activeLow
      BY <2>1 DEF ReadyPinInv, Types, PinTypes, ObjectTypes
    <2>3. attached' => trigger' = "NEGEDGE"
      BY <1>2, <2>2 DEF SetEnable, EnableInterrupt, Opposite
    <2>4. chip'.busy => level' = 1
      BY <2>1 DEF ReadyPinInv
    <2>5. QED
      BY <2>1, <2>2, <2>3, <2>4 DEF ReadyPinInv, RemovePhases
  <1>3. CASE SetHandler
    <2>1. UNCHANGED pinVars
      BY <1>3 DEF SetHandler, SetEventHandler
    <2>2. UNCHANGED <<activeLow, attached, trigger, level, chip, useReadyPin>>
          /\ app = "set: handler" /\ app' = "set: thresholds"
      BY <1>3, <2>1 DEF SetHandler, pinVars
    <2>3. QED
      BY <2>2 DEF ReadyPinInv, RemovePhases
  <1>4. CASE SetThresholds
    <2>1. chip'.busy = chip.busy
      BY <1>4, ThresholdsKeepBusy DEF SetThresholds
    <2>2. UNCHANGED <<activeLow, attached, trigger, level>>
          /\ useReadyPin' = TRUE /\ app = "set: thresholds" /\ app' = "idle"
      BY <1>4 DEF SetThresholds, gpioVars, pinVars
    <2>3. QED
      BY <2>1, <2>2 DEF ReadyPinInv, RemovePhases
  <1>5. QED
    BY <1>1, <1>2, <1>3, <1>4

LEMMA ReadyPinRemoves ==
  ASSUME Types, ReadyPinInv, RemoveReadyPin \/ RemoveArgs \/ RemoveThresholds \/ ClearPin
           \/ Destroy \/ DestroyArgs \/ DestroyInterrupt
  PROVE  ReadyPinInv'
  <1>1. UNCHANGED <<activeLow, level, trigger>> /\ (UNCHANGED attached \/ attached' = FALSE)
    BY DEF RemoveReadyPin, RemoveArgs, RemoveThresholds, ClearPin, Destroy, DestroyArgs,
       DestroyInterrupt, DisableInterrupt, ClearLoops, ClearHandle, ClearEnabled, gpioVars, pinVars
  <1>2. chip'.busy = chip.busy
    BY ThresholdsKeepBusy
       DEF RemoveReadyPin, RemoveArgs, RemoveThresholds, ClearPin, Destroy, DestroyArgs, DestroyInterrupt
  <1>3. \/ app' \in DestroyPhases
        \/ app' \in {"remove: clear", "remove: thresholds"} /\ app \in RemovePhases
        \/ app' = "remove: args" /\ attached' = FALSE
        \/ app' = "idle" /\ ~useReadyPin' /\ app \in RemovePhases
    BY DEF RemoveReadyPin, RemoveArgs, RemoveThresholds, ClearPin, Destroy, DestroyArgs,
       DestroyInterrupt, DisableInterrupt, RemovePhases, DestroyPhases
  <1>4. app \in RemovePhases => attached = FALSE
    BY DEF ReadyPinInv, Types, PinTypes
  <1>5. app' \in DestroyPhases \/ attached' = FALSE
    BY <1>1, <1>3, <1>4 DEF RemovePhases
  <1>6. app' \in DestroyPhases \union RemovePhases \/ ~useReadyPin'
    BY <1>3 DEF RemovePhases
  <1>7. attached' => trigger' = "NEGEDGE"
    BY <1>1 DEF ReadyPinInv
  <1>8. QED
    BY <1>1, <1>2, <1>5, <1>6, <1>7 DEF ReadyPinInv, RemovePhases, DestroyPhases

LEMMA ReadyPinQuiet ==
  ASSUME Types, ReadyPinInv, ConversionEnds \/ PollStep \/ HandlerStep
           \/ (\E c \in Configs : SetConfig(c)) \/ \E m \in Muxes, v \in BOOLEAN : GetRaw(m, v)
  PROVE  ReadyPinInv'
  <1>1. UNCHANGED <<activeLow, attached, trigger, useReadyPin>>
    BY DEF ConversionEnds, PollStep, Poll, HandlerStep, HandlerBegins, HandlerReads, HandlerCalls,
       SetConfig, GetRaw, Edge, TakeEvent, gpioVars, pinVars, objVars
  <1>2. \/ UNCHANGED app
        \/ /\ app \in {"idle", "poll raw", "poll volts"} /\ ~useReadyPin
           /\ app' \in {"idle", "poll raw", "poll volts"}
    <2>1. CASE PollStep
      BY <2>1 DEF PollStep, Poll, Polling, ReadyPinInv
    <2>2. CASE \E m \in Muxes, v \in BOOLEAN : GetRaw(m, v)
      BY <2>2 DEF GetRaw, Idle
    <2>3. QED
      BY <2>1, <2>2 DEF ConversionEnds, HandlerStep, HandlerBegins, HandlerReads, HandlerCalls, SetConfig
  <1>3. chip'.busy => level' = 1
    <2>1. CASE UNCHANGED <<chip, level>>
      BY <2>1 DEF ReadyPinInv
    <2>2. CASE ConversionEnds
      <3>1. chip'.busy = FALSE
        BY <2>2 DEF ConversionEnds, Types, DeviceTypes, Chips
      <3>2. QED
        BY <3>1
    <2>3. CASE Edge(1)
      BY <2>3 DEF Edge
    <2>4. QED
      BY <2>1, <2>2, <2>3 DEF PollStep, Poll, HandlerStep, HandlerBegins, HandlerReads, HandlerCalls,
         SetConfig, GetRaw, TakeEvent, gpioVars, pinVars
  <1>4. QED
    BY <1>1, <1>2, <1>3 DEF ReadyPinInv, RemovePhases

LEMMA ReadyPinNext ==
  ASSUME Types, owner = "ads1115", ReadyPinInv, Next
  PROVE  ReadyPinInv'
  BY ReadyPinSets, ReadyPinRemoves, ReadyPinQuiet DEF Next, OnPinOfItsOwn

\* The interrupt finds what it found before.
LEMMA PlaceUntouched ==
  ASSUME UNCHANGED flagInvVars
  PROVE  Place' = Place
  BY DEF flagInvVars, flagVars, Place

LEMMA VoltsConversionEnds ==
  ASSUME Inv, Types, owner = "ads1115", ReadyPinInv, VoltsInv, ConversionEnds
  PROVE  VoltsInv'
  <1>1. UNCHANGED <<useReadyPin, voltage, app, handler>>
    BY DEF ConversionEnds, objVars, turnVars
  <1>2. chip'.rdy = chip.rdy /\ chip'.ready = chip.ready /\ chip.busy
    BY DEF ConversionEnds, Types, DeviceTypes, Chips
  <1>3. Place' = Place /\ UNCHANGED attached
    <2>1. UNCHANGED flagInvVars /\ UNCHANGED attached
      BY FlagsPin DEF ConversionEnds, gpioVars, pinVars, loopVars, flagInvVars, Edge
    <2>2. QED
      BY <2>1, PlaceUntouched
  <1>4. ~useReadyPin \/ app \in RemovePhases => ~voltage
    BY DEF VoltsInv
  <1>5. ASSUME useReadyPin, app = "idle", voltage, ~unanswered', handler = NoHandler,
               attached, Place = "default", chip.rdy
        PROVE  events'["default"] # <<>>
    <2>1. ~unanswered
      BY <1>5 DEF ConversionEnds, Types, ObjectTypes
    <2>2. CASE chip.ready
      <3>1. Edge(0) /\ Fires(0)
        BY <1>2, <1>5, <2>2 DEF ConversionEnds, ReadyPinInv, Fires
      <3>2. Post("default")
        BY <1>5, <3>1 DEF Edge
      <3>3. events' # events
        BY <1>5, <2>2, <3>1 DEF ConversionEnds, Loops, Types, ObjectTypes
      <3>4. events' = [events EXCEPT !["default"] = Append(@, eventData)]
        BY <3>2, <3>3 DEF Post
      <3>5. events["default"] \in Seq(Handlers \union {None}) /\ DOMAIN events = Loops
        BY DEF Types, PinTypes, Loops
      <3>6. events'["default"] = Append(events["default"], eventData)
        BY <3>4, <3>5 DEF Loops
      <3>7. Len(events'["default"]) = Len(events["default"]) + 1 /\ Len(events["default"]) \in Nat
        BY <3>5, <3>6
      <3>8. QED
        BY <3>7
    <2>3. CASE ~chip.ready
      <3>1. UNCHANGED events
        BY <2>3 DEF ConversionEnds, gpioVars, loopVars
      <3>2. QED
        BY <1>5, <2>1, <2>3, <3>1 DEF VoltsInv
    <2>4. QED
      BY <2>2, <2>3
  <1>6. QED
    BY <1>1, <1>2, <1>3, <1>4, <1>5 DEF VoltsInv

LEMMA VoltsHandler ==
  ASSUME Types, VoltsInv, HandlerStep
  PROVE  VoltsInv'
  <1>1. UNCHANGED <<useReadyPin, app>>
    BY DEF HandlerStep, HandlerBegins, HandlerReads, HandlerCalls, objVars
  <1>2. CASE voltage' = FALSE
    BY <1>2 DEF VoltsInv
  <1>3. CASE UNCHANGED voltage /\ handler' # NoHandler
    BY <1>1, <1>3 DEF VoltsInv
  <1>4. CASE HandlerBegins
    <2>1. UNCHANGED voltage
      BY <1>4 DEF HandlerBegins, objVars
    <2>2. CASE args = "freed"
      <3>1. app # "idle"
        BY <2>2 DEF Types, LifeInv, DestroyPhases
      <3>2. QED
        BY <1>1, <2>1, <3>1 DEF VoltsInv
    <2>3. CASE args # "freed"
      BY <1>3, <1>4, <2>1, <2>3 DEF HandlerBegins, NoHandler
    <2>4. QED
      BY <2>2, <2>3
  <1>5. CASE \E ok \in Transfers : HandlerReads(ok)
    BY <1>3, <1>5 DEF HandlerReads, NoHandler, objVars
  <1>6. CASE HandlerCalls
    <2>1. handler # NoHandler
      BY <1>6 DEF HandlerCalls, NoHandler
    <2>2. voltage' = FALSE \/ UNCHANGED <<handler, voltage>>
      BY <1>6 DEF HandlerCalls
    <2>3. QED
      BY <1>2, <1>3, <2>1, <2>2
  <1>7. QED
    BY <1>4, <1>5, <1>6 DEF HandlerStep

LEMMA VoltsGetRaw ==
  ASSUME Inv, Types, VoltsInv, NEW m \in Muxes, NEW v \in BOOLEAN, GetRaw(m, v)
  PROVE  VoltsInv'
  <1>1. app = "idle" /\ UNCHANGED <<useReadyPin, handler>> /\ app' \notin RemovePhases
    BY DEF GetRaw, Idle, RemovePhases, turnVars
  <1>2. ~useReadyPin => ~voltage'
    BY <1>1 DEF GetRaw, VoltsInv
  <1>3. CASE WriteRegister(TRUE) /\ Convert(config')
             /\ unanswered' = (unanswered \/ (useReadyPin /\ voltage' /\ ~config.ready))
    <2>1. config'.ready = config.ready
      BY DEF GetRaw, Types, ObjectTypes, Configs
    <2>2. chip'.ready = config'.ready /\ chip'.busy
      BY <1>3 DEF Convert, Types, DeviceTypes, Chips
    <2>3. QED
      BY <1>1, <1>2, <1>3, <2>1, <2>2 DEF VoltsInv
  <1>4. CASE unanswered' = (unanswered \/ (useReadyPin /\ voltage'))
    BY <1>1, <1>2, <1>4 DEF VoltsInv
  <1>5. QED
    BY <1>3, <1>4 DEF GetRaw

LEMMA VoltsOther ==
  ASSUME Types, ReadyPinInv, VoltsInv,
         \/ SetReadyPin \/ SetEnable \/ SetHandler \/ SetThresholds \/ RemoveReadyPin \/ RemoveArgs
         \/ RemoveThresholds \/ ClearPin \/ Destroy \/ DestroyArgs \/ DestroyInterrupt \/ PollStep
  PROVE  VoltsInv'
  <1>1. UNCHANGED voltage \/ voltage' = FALSE
    BY DEF objVars, SetReadyPin, SetEnable, SetHandler, SetThresholds, RemoveReadyPin, RemoveArgs,
       RemoveThresholds, ClearPin, Destroy, DestroyArgs, DestroyInterrupt, PollStep, Poll
  <1>2. ~useReadyPin' \/ app' \in RemovePhases =>
          voltage' = FALSE \/ ~useReadyPin \/ app \in RemovePhases
    BY DEF objVars, RemovePhases, SetReadyPin, SetEnable, SetHandler, SetThresholds, RemoveReadyPin,
       RemoveArgs, RemoveThresholds, ClearPin, Destroy, DestroyArgs, DestroyInterrupt, PollStep, Poll
  <1>3. app' = "idle" => ~useReadyPin' \/ SetThresholds \/ PollStep
    BY DEF Idle, SetReadyPin, SetEnable, SetHandler, RemoveReadyPin,
       RemoveArgs, RemoveThresholds, ClearPin, Destroy, DestroyArgs, DestroyInterrupt
  <1>4. SetThresholds \/ PollStep => ~useReadyPin
    BY DEF SetThresholds, PollStep, Poll, Polling, ReadyPinInv
  <1>5. ~useReadyPin' \/ app' \in RemovePhases => ~voltage'
    BY <1>1, <1>2 DEF VoltsInv
  <1>6. app' = "idle" => ~voltage'
    BY <1>1, <1>3, <1>4, <1>5 DEF VoltsInv
  <1>7. QED
    BY <1>5, <1>6 DEF VoltsInv

LEMMA VoltsNext ==
  ASSUME Inv, Types, owner = "ads1115", ReadyPinInv, VoltsInv, Next
  PROVE  VoltsInv'
  <1>1. ASSUME NEW c \in Configs, SetConfig(c)
        PROVE  VoltsInv'
    BY <1>1 DEF SetConfig, VoltsInv, gpioVars, pinVars, flagVars, loopVars, turnVars, Place
  <1>2. QED
    BY <1>1, VoltsConversionEnds, VoltsHandler, VoltsGetRaw, VoltsOther DEF Next, OnPinOfItsOwn

\* A request that is watched finds nothing under way and a flag that is its own.
LEMMA AskedStarts ==
  ASSUME Inv, Types, ReadyPinInv, VoltsInv, owner = "ads1115",
         NEW m \in Muxes, NEW v \in BOOLEAN, GetRaw(m, v), asked' # Nothing
  PROVE  AskedInv'
  <1>1. /\ WriteRegister(TRUE) /\ Convert(config') /\ Edge(1)
        /\ app' = IF useReadyPin THEN "idle" ELSE IF v THEN "poll volts" ELSE "poll raw"
        /\ asked' = Watched(m, v)
    BY DEF GetRaw
  <1>2. Quiet /\ (useReadyPin => PinWorks /\ (unanswered => v))
        /\ asked' = [mux |-> m, value |-> [mux |-> m, pga |-> config.pga], volts |-> v,
                     range |-> config.pga]
    BY <1>1 DEF Watched
  <1>3. app = "idle" /\ UNCHANGED <<useReadyPin, handler, calls>>
        /\ config' = [config EXCEPT !.mux = m] /\ voltage' = (voltage \/ (v /\ useReadyPin))
    BY DEF GetRaw, Idle, turnVars
  <1>4. config'.mux = m /\ config'.pga = config.pga
    BY <1>3 DEF Types, ObjectTypes, Configs
  <1>5. Current' = [mux |-> m, pga |-> config.pga]
    BY <1>4 DEF Current
  <1>6. UNCHANGED events
    <2>1. ~Fires(1)
      BY <1>3 DEF ReadyPinInv, Fires
    <2>2. QED
      BY <1>1, <2>1 DEF Edge
  <1>7. NoEvents' /\ handler' = NoHandler /\ handler'.at = "idle"
    BY <1>2, <1>3, <1>6 DEF NoEvents, Quiet, NoHandler
  <1>8. chip'.busy = TRUE /\ chip'.mux = config'.mux /\ chip'.pga = config'.pga
    BY <1>1, <1>2 DEF Convert, Quiet, Types, DeviceTypes, Chips
  <1>9. useReadyPin => voltage' = v
    <2>1. ASSUME useReadyPin, ~v
          PROVE  ~voltage
      <3>1. attached /\ defaultSet /\ chip.rdy /\ ~unanswered
        BY <1>2, <2>1 DEF PinWorks
      <3>2. Place = "default"
        BY <3>1 DEF Place, Inv, FlagsInv
      <3>3. QED
        BY <1>2, <1>3, <2>1, <3>1, <3>2 DEF VoltsInv, Quiet, Loops
    <2>2. QED
      BY <1>3, <2>1 DEF Types, ObjectTypes
  <1>10. ~useReadyPin => Polling' /\ v = (app' = "poll volts")
    BY <1>1 DEF Polling
  <1>11. \E volts \in BOOLEAN :
            /\ asked' = [mux |-> config'.mux, value |-> Current', volts |-> volts,
                         range |-> config'.pga]
            /\ useReadyPin' /\ ~Repeating' => volts = voltage'
            /\ ~useReadyPin' => volts = (app' = "poll volts")
    BY <1>2, <1>3, <1>4, <1>5, <1>9, <1>10
  <1>12. IF useReadyPin' THEN app' = "idle" ELSE Polling' /\ NoEvents'
    BY <1>1, <1>3, <1>7, <1>10
  <1>13. QED
    BY <1>7, <1>8, <1>11, <1>12 DEF AskedInv

\* The answer comes from the conversion that was asked for.
LEMMA AskedConverted ==
  ASSUME Types, ReadyPinInv, AskedInv, ConversionEnds, asked' # Nothing
  PROVE  AskedInv'
  <1>1. asked # Nothing /\ chip.busy /\ UNCHANGED asked
    BY DEF ConversionEnds
  <1>2. /\ chip.mux = config.mux /\ chip.pga = config.pga /\ NoEvents
        /\ UNCHANGED <<config, useReadyPin, voltage, app, handler, calls>>
    BY <1>1 DEF ConversionEnds, AskedInv, objVars, turnVars
  <1>3. chip'.busy = FALSE /\ chip'.result = [mux |-> chip.mux, pga |-> chip.pga]
    BY DEF ConversionEnds, Types, DeviceTypes, Chips
  <1>4. chip'.result = Current /\ Current' = Current
    BY <1>2, <1>3 DEF Current
  <1>5. ASSUME ~useReadyPin
        PROVE  NoEvents'
    <2>1. ~attached
      BY <1>1, <1>5 DEF AskedInv, Polling, ReadyPinInv
    <2>2. UNCHANGED events
      BY <2>1, OffIsSilent DEF ConversionEnds, gpioVars, loopVars
    <2>3. QED
      BY <1>2, <2>2 DEF NoEvents
  <1>6. handler' = NoHandler /\ handler'.at = "idle"
    BY <1>2 DEF NoEvents, NoHandler
  <1>7. Polling' = Polling /\ Repeating' = Repeating
    BY <1>2 DEF Polling, Repeating
  <1>8. QED
    BY <1>1, <1>2, <1>3, <1>4, <1>5, <1>6, <1>7 DEF AskedInv

LEMMA AskedHandler ==
  ASSUME Types, AskedInv, HandlerStep, asked' # Nothing
  PROVE  AskedInv'
  <1>1. asked # Nothing /\ UNCHANGED <<config, useReadyPin, app, chip, asked>>
    BY DEF HandlerStep, HandlerBegins, HandlerReads, HandlerCalls, objVars, askVars
  <1>2. ~NoEvents
    BY DEF HandlerStep, HandlerBegins, HandlerReads, HandlerCalls, TakeEvent, NoHandler, NoEvents, Loops
  <1>3. useReadyPin /\ ~chip.busy /\ chip.result = Current /\ Current' = Current
    BY <1>1, <1>2 DEF AskedInv, Current
  <1>4. /\ handler' # NoHandler => handler'.mux = config.mux
        /\ handler'.at = "call" => handler'.value = Current
        /\ Repeating' \/ (~Repeating /\ UNCHANGED voltage)
    <2>1. CASE HandlerBegins
      <3>1. UNCHANGED voltage /\ handler = NoHandler /\ calls \in Nat
        BY <2>1, GpioAssumption DEF HandlerBegins, objVars, Types, DeviceTypes
      <3>2. CASE UNCHANGED handler
        <4>1. args = "freed"
          BY <2>1, <3>1, <3>2 DEF HandlerBegins, NoHandler
        <4>2. app # "idle"
          BY <4>1 DEF Types, LifeInv, DestroyPhases
        <4>3. QED
          BY <1>1, <1>3, <4>2 DEF AskedInv
      <3>3. CASE handler' = [at |-> "read", mux |-> config.mux, handle |-> args = "set",
                             again |-> calls > 0]
        <4>1. handler'.mux = config.mux /\ handler'.at = "read" /\ handler'.again = (calls > 0)
              /\ handler' # NoHandler
          BY <3>3 DEF NoHandler
        <4>2. QED
          BY <3>1, <4>1 DEF Repeating
      <3>4. QED
        BY <2>1, <3>2, <3>3 DEF HandlerBegins
    <2>2. CASE \E ok \in Transfers : HandlerReads(ok)
      <3>1. handler' = [at |-> "call", mux |-> handler.mux, value |-> chip.result,
                        again |-> handler.again]
              /\ handler # NoHandler /\ handler' # NoHandler /\ UNCHANGED voltage
        BY <2>2 DEF HandlerReads, NoHandler, objVars
      <3>2. QED
        BY <1>1, <1>3, <3>1 DEF AskedInv, Repeating
    <2>3. CASE HandlerCalls
      <3>1. CASE args # "set"
        BY <1>1, <2>3, <3>1 DEF HandlerCalls, AskedInv, Repeating
      <3>2. CASE args = "set"
        <4>1. calls # 0 /\ UNCHANGED calls /\ handler' = NoHandler /\ calls \in Nat
          BY <2>3, <3>2, GpioAssumption DEF HandlerCalls, Types, DeviceTypes
        <4>2. QED
          BY <4>1 DEF Repeating, NoHandler
      <3>3. QED
        BY <3>1, <3>2
    <2>4. QED
      BY <2>1, <2>2, <2>3 DEF HandlerStep
  <1>5. PICK volts \in BOOLEAN :
            /\ asked = [mux |-> config.mux, value |-> Current, volts |-> volts,
                        range |-> config.pga]
            /\ useReadyPin /\ ~Repeating => volts = voltage
    BY <1>1 DEF AskedInv
  <1>6. app' = "idle"
    BY <1>1, <1>3 DEF AskedInv
  <1>7. QED
    BY <1>1, <1>3, <1>4, <1>5, <1>6 DEF AskedInv

LEMMA AskedNext ==
  ASSUME Inv, Types, ReadyPinInv, VoltsInv, AskedInv, owner = "ads1115", Next
  PROVE  AskedInv'
  <1>1. CASE asked' = Nothing
    BY <1>1 DEF AskedInv
  <1>2. CASE asked' # Nothing
    <2>1. CASE HandlerStep
      BY <1>2, <2>1, AskedHandler
    <2>2. CASE ConversionEnds
      BY <1>2, <2>2, AskedConverted
    <2>3. CASE \E m \in Muxes, v \in BOOLEAN : GetRaw(m, v)
      BY <1>2, <2>3, AskedStarts
    <2>4. CASE ~HandlerStep /\ ~ConversionEnds /\ ~(\E m \in Muxes, v \in BOOLEAN : GetRaw(m, v))
      <3>1. asked # Nothing /\ app \notin {"idle", "poll raw", "poll volts"}
        BY <1>2, <2>4 DEF Next, OnPinOfItsOwn, SetReadyPin, SetEnable, SetHandler, SetThresholds,
           RemoveReadyPin, RemoveArgs, RemoveThresholds, ClearPin, SetConfig, Destroy, DestroyArgs,
           DestroyInterrupt, PollStep, Poll, askVars
      <3>2. QED
        BY <3>1 DEF AskedInv, Polling
    <2>5. QED
      BY <2>1, <2>2, <2>3, <2>4
  <1>3. QED
    BY <1>1, <1>2

LEMMA RequestNext ==
  ASSUME Inv, Types, RequestInv, [Next]_vars
  PROVE  RequestInv'
  <1>1. CASE UNCHANGED vars
    BY <1>1 DEF vars, gpioVars, pinVars, flagVars, loopVars, i2cVars, adsVars, RequestInv, ReadyPinInv,
       VoltsInv, AskedInv, NoEvents, Place, Current, Polling, Repeating
  <1>2. CASE Next
    <2>1. UNCHANGED owner
      BY <1>2 DEF Next, OnPinOfItsOwn, adsVars, SetReadyPin, SetEnable, SetHandler, SetThresholds,
         RemoveReadyPin, RemoveArgs, RemoveThresholds, ClearPin, SetConfig, GetRaw, Destroy,
         DestroyArgs, DestroyInterrupt, ConversionEnds, PollStep, Poll, HandlerStep, HandlerBegins,
         HandlerReads, HandlerCalls
    <2>2. CASE owner = "ads1115"
      <3>1. ReadyPinInv'
        BY <1>2, <2>2, ReadyPinNext DEF RequestInv
      <3>2. VoltsInv'
        BY <1>2, <2>2, VoltsNext DEF RequestInv
      <3>3. AskedInv'
        BY <1>2, <2>2, AskedNext DEF RequestInv
      <3>4. QED
        BY <3>1, <3>2, <3>3 DEF RequestInv
    <2>3. QED
      BY <2>1, <2>2 DEF RequestInv
  <1>3. QED
    BY <1>1, <1>2

\* A first callback and a poll report what was asked for, in that unit and range.
LEMMA Reports ==
  ASSUME Types, RequestInv, Next, asked # Nothing
  PROVE  /\ Called /\ ~handler.again => Told
         /\ Polling /\ app' = "idle"
              => Report(config.mux, chip.result, app = "poll volts") = asked
  <1>1. ASSUME Called, ~handler.again
        PROVE  Told
    <2>1. HandlerCalls
      <3>1. HandlerStep
        BY <1>1 DEF Called, Next, OnPinOfItsOwn, adsVars, turnVars, SetReadyPin, SetEnable, SetHandler,
           SetThresholds, RemoveReadyPin, RemoveArgs, RemoveThresholds, ClearPin, SetConfig, GetRaw,
           Destroy, DestroyArgs, DestroyInterrupt, ConversionEnds, PollStep, Poll
      <3>2. ~HandlerBegins
        BY <1>1 DEF Called, HandlerBegins, NoHandler
      <3>3. \A ok \in Transfers : ~HandlerReads(ok)
        BY <1>1 DEF Called, HandlerReads
      <3>4. QED
        BY <3>1, <3>2, <3>3 DEF HandlerStep
    <2>2. AskedInv /\ handler # NoHandler /\ ~Repeating
      BY <1>1, <2>1 DEF HandlerCalls, Running, RequestInv, NoHandler, Repeating
    <2>3. useReadyPin
      BY <2>2 DEF AskedInv, NoEvents
    <2>4. handler.mux = config.mux /\ handler.value = Current
      BY <1>1, <2>2 DEF Called, AskedInv
    <2>5. asked = [mux |-> config.mux, value |-> Current, volts |-> voltage, range |-> config.pga]
      BY <2>2, <2>3 DEF AskedInv
    <2>6. QED
      BY <2>4, <2>5 DEF Told, Report
  <1>2. ASSUME Polling, app' = "idle"
        PROVE  Report(config.mux, chip.result, app = "poll volts") = asked
    <2>1. PollStep
      BY <1>2 DEF Next, OnPinOfItsOwn, adsVars, SetReadyPin, SetEnable, SetHandler, SetThresholds,
         RemoveReadyPin, RemoveArgs, RemoveThresholds, ClearPin, SetConfig, GetRaw, Destroy,
         DestroyArgs, DestroyInterrupt, ConversionEnds, HandlerStep, HandlerBegins,
         HandlerReads, HandlerCalls, Idle, Polling
    <2>2. PICK ok \in Transfers : Poll(ok)
      BY <2>1 DEF PollStep
    <2>3. ok
      BY <1>2, <2>2 DEF Poll, Polling
    <2>4. AskedInv /\ ~chip.busy
      BY <2>2, <2>3 DEF Poll, Running, RequestInv
    <2>5. ~useReadyPin /\ chip.result = Current
      BY <1>2, <2>4 DEF AskedInv, Polling
    <2>6. asked = [mux |-> config.mux, value |-> Current, volts |-> (app = "poll volts"),
                   range |-> config.pga]
      BY <2>4, <2>5 DEF AskedInv
    <2>7. QED
      BY <2>5, <2>6 DEF Report
  <1>3. QED
    BY <1>1, <1>2

\* A request made while nothing is under way, its ready pin working and no
\* getVoltage without an answer before it, that no call of the application
\* follows before its answer: the first callback for it, or its poll, reports the
\* input, the value, the unit and the range that were asked for, for any inputs,
\* ranges and queue sizes and however often event_handler is registered
\* (ads1115.cpp: getRaw, getVoltage, event_handler).
THEOREM ReportsTheRequestHolds == Spec => ReportsTheRequest
  <1>1. Types /\ RequestInv /\ [Next]_vars =>
          [ /\ Called /\ ~handler.again => Told
            /\ Polling /\ app' = "idle" /\ asked # Nothing
                 => Report(config.mux, chip.result, app = "poll volts") = asked ]_vars
    BY Reports DEF Called
  <1>2. QED
    BY <1>1, AllInvariants, RequestInit, RequestNext, PTL DEF Spec, ReportsTheRequest

===============================================================================
