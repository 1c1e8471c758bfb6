------------------------------- MODULE GpioInput -------------------------------
(***************************************************************************)
(* src/cppgpio/cppgpio_input.cpp: one input pin, its interrupt, and where  *)
(* the interrupt is reported: to a FreeRTOS queue, to a custom event loop  *)
(* or to the default one.                                                  *)
(*   - a task configures the pin and sets or clears the place;             *)
(*   - the interrupt preempts the task between two statements, except in   *)
(*     its critical sections (both run on the same core);                  *)
(*   - the tasks of the event loops take the events later and call the     *)
(*     handlers that are registered then.                                  *)
(* The event loops and the pin are external.  The data given with a        *)
(* handler is named after the handler.  The code never keeps the instance  *)
(* that a registration gives, and ignores the results of unregistering: a  *)
(* handler of the default loop is never unregistered.                      *)
(***************************************************************************)
EXTENDS Naturals, Sequences, FiniteSets

CONSTANTS Handlers,       \* event handlers, each with its data
          None,           \* nullptr
          EventQueueSize, \* bound: events of this pin in the queue of an event loop
          MaxRegistered   \* bound: registrations of one handler, the loop has memory for no more

ASSUME GpioAssumption == /\ None \notin Handlers
                         /\ EventQueueSize \in Nat \ {0} /\ MaxRegistered \in Nat \ {0}

Loops == {"default", "custom"}
Edges == {"POSEDGE", "NEGEDGE"}

VARIABLES
    activeLow, trigger, attached,   \* _active_low, the pin's int_type, isr handler added
    level,                          \* the pin (external)
    queueEnabled, queueHandle,      \* _queue_enabled, _queue_handle # nullptr
    customSet, defaultSet,          \* _custom_event_handler_set, _event_handler_set
    eventHandle, eventData,         \* _event_handle, _event_data
    registered,                     \* how often each event loop has each handler for this pin
    events,                         \* the events each loop has not dispatched
    halted,                         \* the interrupt has sent to a null queue
    clearing,                       \* how far a clearEventHandlers of its own is
    wanted,                         \* history: the last place that was set
    stray                           \* history: a custom loop has kept a handler

pinVars  == <<activeLow, trigger, attached, level>>
flagVars == <<queueEnabled, queueHandle, customSet, defaultSet, eventHandle, eventData>>
loopVars == <<registered, events>>
taskVars == <<clearing, wanted, stray>>
gpioVars == <<pinVars, flagVars, loopVars, halted, taskVars>>

Nowhere == [place |-> "nobody", handler |-> None]

GpioInit == /\ activeLow \in BOOLEAN /\ trigger = "POSEDGE" /\ attached = FALSE
            /\ level \in {0, 1}
            /\ queueEnabled = FALSE /\ queueHandle = FALSE
            /\ customSet = FALSE /\ defaultSet = FALSE
            /\ eventHandle = None /\ eventData = None
            /\ registered = [l \in Loops |-> [h \in Handlers |-> 0]]
            /\ events = [l \in Loops |-> <<>>] /\ halted = FALSE
            /\ clearing = "no" /\ wanted = Nowhere /\ stray = FALSE

-------------------------------------------------------------------------------
(* The pin *)

Opposite(edge) == IF edge = "POSEDGE" THEN "NEGEDGE" ELSE "POSEDGE"

\* gpio_config sets the trigger anew and leaves the interrupt handler in place.
Configure(low) ==
    /\ activeLow' = low
    /\ trigger' = "POSEDGE"
    /\ UNCHANGED <<attached, level, flagVars, loopVars, halted, taskVars>>

\* The interrupt service, the trigger and the handler are set in turn, up to the
\* first that fails.
EnableInterrupt(edge) ==
    /\ \/ UNCHANGED <<trigger, attached>>
       \/ /\ trigger' = IF activeLow THEN Opposite(edge) ELSE edge
          /\ attached' \in {attached, TRUE}
    /\ UNCHANGED <<activeLow, level, flagVars, loopVars, halted, taskVars>>

DisableInterrupt ==
    /\ attached' = FALSE
    /\ UNCHANGED <<activeLow, trigger, level, flagVars, loopVars, halted, taskVars>>

-------------------------------------------------------------------------------
(* gpio_isr_callback *)

\* The place the interrupt finds in the flags.
Place == IF queueEnabled THEN "queue"
         ELSE IF customSet THEN "custom"
         ELSE IF defaultSet THEN "default" ELSE "nobody"

Fires(to) == attached /\ to # level /\ trigger = (IF to = 1 THEN "POSEDGE" ELSE "NEGEDGE")

\* The queue of an event loop, which other events share, drops the event when it
\* is full, and nobody looks at the result.
Post(loop) ==
    \/ /\ loop \in Loops /\ Len(events[loop]) < EventQueueSize
       /\ events' = [events EXCEPT ![loop] = Append(@, eventData)]
    \/ UNCHANGED events

\* A FreeRTOS queue is the application's and is not modelled; a null one halts
\* the program.
Edge(to) ==
    /\ level' = to
    /\ IF Fires(to) THEN Post(Place) /\ halted' = (Place = "queue" /\ ~queueHandle)
                    ELSE UNCHANGED <<events, halted>>
    /\ UNCHANGED <<activeLow, trigger, attached, flagVars, registered, taskVars>>

\* The task of an event loop takes the next event (external).
TakeEvent(loop) ==
    /\ events[loop] # <<>>
    /\ events' = [events EXCEPT ![loop] = Tail(@)]
    /\ UNCHANGED <<pinVars, flagVars, registered, halted, taskVars>>

-------------------------------------------------------------------------------
(* clearEventHandlers: the first `if`, then the two assignments. *)

\* A custom loop takes one registration of the handler away, unless that fails.
\* The default loop has no registration with the null instance it is asked for.
Unregistered(found) ==
    IF customSet /\ found /\ registered["custom"][eventHandle] > 0
      THEN [registered EXCEPT !["custom"][eventHandle] = @ - 1] ELSE registered

Strays(found) == stray \/ (customSet /\ ~found)

\* The flag of the default loop is left alone when the other one is cleared.
KeepsDefault == customSet /\ defaultSet

ClearLoops ==
    /\ clearing = "no"
    /\ clearing' = "loops cleared"
    /\ \E found \in BOOLEAN : registered' = Unregistered(found) /\ stray' = Strays(found)
    /\ customSet' = FALSE
    /\ defaultSet' = KeepsDefault
    /\ eventHandle' = IF customSet THEN None ELSE eventHandle
    /\ UNCHANGED <<pinVars, queueEnabled, queueHandle, eventData, events, halted, wanted>>

ClearHandle ==
    /\ clearing = "loops cleared"
    /\ clearing' = "handle cleared"
    /\ queueHandle' = FALSE
    /\ UNCHANGED <<pinVars, queueEnabled, customSet, defaultSet, eventHandle, eventData,
                   loopVars, halted, wanted, stray>>

ClearEnabled ==
    /\ clearing = "handle cleared"
    /\ clearing' = "no"
    /\ queueEnabled' = FALSE
    /\ wanted' = Nowhere
    /\ UNCHANGED <<pinVars, queueHandle, customSet, defaultSet, eventHandle, eventData,
                   loopVars, halted, stray>>

-------------------------------------------------------------------------------
(* The critical sections, each with its clearEventHandlers. *)

Registered(regs, loop, h) == [regs EXCEPT ![loop][h] = @ + 1]

CanRegister(regs, loop, h) == regs[loop][h] < MaxRegistered

\* A registration may fail; nothing is set then.
SetEventHandler(h, found, ok) ==
    /\ ok => CanRegister(Unregistered(found), "default", h)
    /\ registered' = IF ok THEN Registered(Unregistered(found), "default", h)
                           ELSE Unregistered(found)
    /\ stray' = Strays(found)
    /\ queueEnabled' = FALSE /\ queueHandle' = FALSE /\ customSet' = FALSE
    /\ defaultSet' = (ok \/ KeepsDefault)
    /\ eventHandle' = IF customSet THEN None ELSE eventHandle
    /\ eventData' = IF ok THEN h ELSE eventData
    /\ wanted' = IF ok THEN [place |-> "default", handler |-> h] ELSE Nowhere
    /\ UNCHANGED <<pinVars, events, halted, clearing>>

SetLoopEventHandler(h, found, ok) ==
    /\ ok => CanRegister(Unregistered(found), "custom", h)
    /\ registered' = IF ok THEN Registered(Unregistered(found), "custom", h)
                           ELSE Unregistered(found)
    /\ stray' = Strays(found)
    /\ queueEnabled' = FALSE /\ queueHandle' = FALSE
    /\ customSet' = ok /\ defaultSet' = KeepsDefault
    /\ eventHandle' = IF ok THEN h ELSE IF customSet THEN None ELSE eventHandle
    /\ eventData' = IF ok THEN h ELSE eventData
    /\ wanted' = IF ok THEN [place |-> "custom", handler |-> h] ELSE Nowhere
    /\ UNCHANGED <<pinVars, events, halted, clearing>>

\* Mutant: the handlers are not cleared first.
SetQueueOnly ==
    /\ queueEnabled' = TRUE /\ queueHandle' = TRUE
    /\ wanted' = [place |-> "queue", handler |-> None]
    /\ UNCHANGED <<pinVars, customSet, defaultSet, eventHandle, eventData, loopVars,
                   halted, clearing, stray>>

SetQueueHandle ==
    /\ \E found \in BOOLEAN : registered' = Unregistered(found) /\ stray' = Strays(found)
    /\ queueEnabled' = TRUE /\ queueHandle' = TRUE
    /\ customSet' = FALSE /\ defaultSet' = KeepsDefault
    /\ eventHandle' = IF customSet THEN None ELSE eventHandle
    /\ wanted' = [place |-> "queue", handler |-> None]
    /\ UNCHANGED <<pinVars, eventData, events, halted, clearing>>

\* What the application may call on a pin of its own.
GpioNext ==
    /\ ~halted
    /\ \/ /\ clearing = "no"
          /\ \/ \E low \in BOOLEAN : Configure(low)
             \/ \E edge \in Edges : EnableInterrupt(edge)
             \/ DisableInterrupt
             \/ \E h \in Handlers, found, ok \in BOOLEAN : SetEventHandler(h, found, ok)
                                                        \/ SetLoopEventHandler(h, found, ok)
             \/ SetQueueHandle
       \/ ClearLoops \/ ClearHandle \/ ClearEnabled
       \/ Edge(1 - level)
       \/ \E loop \in Loops : TakeEvent(loop)

-------------------------------------------------------------------------------
(* Properties *)

GpioTypeOK ==
    /\ activeLow \in BOOLEAN /\ trigger \in Edges /\ attached \in BOOLEAN /\ level \in {0, 1}
    /\ {queueEnabled, queueHandle, customSet, defaultSet, halted, stray} \subseteq BOOLEAN
    /\ {eventHandle, eventData} \subseteq Handlers \union {None}
    /\ registered \in [Loops -> [Handlers -> 0..MaxRegistered]]
    /\ \A l \in Loops : Len(events[l]) <= EventQueueSize
    /\ clearing \in {"no", "loops cleared", "handle cleared"}
    /\ wanted.place \in Loops \union {"queue", "nobody"}

\* However the three kinds of destinations follow each other, also after failed
\* registrations and unregistrations: between two calls the interrupt reports to
\* the destination that was set last, with its data, and the handler set last is
\* registered there; and unless it failed to unregister one, a custom loop has
\* no handler of an earlier call (cppgpio_input.cpp:178-256).  Nothing of the
\* kind holds of the default loop, which keeps them all.
LastSetWins ==
    clearing = "no" =>
        /\ Place = wanted.place
        /\ Place \in Loops => /\ eventData = wanted.handler
                              /\ registered[Place][wanted.handler] > 0
        /\ ~stray => \A h \in Handlers :
              registered["custom"][h] = IF Place = "custom" /\ h = wanted.handler THEN 1 ELSE 0
===============================================================================
