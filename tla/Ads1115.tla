-------------------------------- MODULE Ads1115 --------------------------------
(***************************************************************************)
(* src/ads1115/ads1115.cpp: an analogue converter on the I2C bus whose     *)
(* "ready" output may be an interrupt pin (GpioInput).                     *)
(*   - the application's task configures the object and asks for           *)
(*     conversions; without a ready pin getRaw polls and returns the       *)
(*     value, with one it returns at once;                                 *)
(*   - the device converts (external);                                     *)
(*   - the task of the default event loop runs event_handler, which reads  *)
(*     the value and calls the application back, once for each time it is  *)
(*     registered.                                                         *)
(* The pin belongs to an Ads1115, or an application uses it as it likes.   *)
(***************************************************************************)
EXTENDS GpioInput, I2c

CONSTANTS Muxes, Pgas,   \* inputs and ranges the application uses
          EventHandler,  \* Ads1115::event_handler
          Nothing        \* no request is being watched

ASSUME AdsAssumption == EventHandler \in Handlers /\ Muxes # {} /\ Pgas # {}

VARIABLES
    owner,        \* whose the pin is: "application" or "ads1115"
    useReadyPin, config, \* _useReadyPin; the MUX, PGA and COMP_QUE of _config
    voltage,      \* _intArgs->voltage
    args,         \* the pointers of _intArgs: "null", "set"; "freed" with it
    app,          \* where the application's task is
    handler,      \* where event_handler is, with its locals
    calls,        \* how often the event under way has still to be handled after that
    chip,         \* the device: its registers and the conversion under way (external)
    asked,        \* history: a request nothing has disturbed
    unanswered,   \* history: a request that no event will answer has left `voltage` set
    raced         \* history: the ready pin was taken away from a busy device

adsVars  == <<owner, useReadyPin, config, voltage, args, app, handler, calls, chip,
              asked, unanswered, raced>>
vars     == <<gpioVars, i2cVars, adsVars>>
objVars  == <<useReadyPin, config, voltage, args>>
turnVars == <<handler, calls>>
askVars  == <<asked, unanswered, raced>>

Configs   == [mux : Muxes, pga : Pgas, ready : BOOLEAN]
\* The constructor's: MUX_0_1, FSR_2_048, comparator off.
FirstConfig == CHOOSE c \in Configs : ~c.ready

NoHandler == [at |-> "idle"]
Running   == crash = "no" /\ ~halted /\ owner = "ads1115"
Idle      == Running /\ app = "idle"

Init ==
    /\ GpioInit /\ AddDevice
    /\ owner \in {"application", "ads1115"}
    /\ useReadyPin = FALSE /\ voltage = FALSE /\ args = "null"
    /\ config = FirstConfig
    /\ chip = [busy |-> FALSE, mux |-> config.mux, pga |-> config.pga, ready |-> FALSE,
               rdy |-> FALSE, result |-> [mux |-> config.mux, pga |-> config.pga]]
    /\ app = "idle" /\ handler = NoHandler /\ calls = 0
    /\ owner = "ads1115" => level = 1 /\ ~activeLow
    /\ asked = Nothing /\ unanswered = FALSE /\ raced = FALSE

\* Nothing is converting and no event is on its way.
Quiet == ~chip.busy /\ handler = NoHandler /\ calls = 0 /\ \A l \in Loops : events[l] = <<>>

-------------------------------------------------------------------------------
(* The device *)

\* Asserts the ready pin when the configuration says so and the thresholds, in
\* `rdy`, make the comparator's output a ready pin.  A request is given up when
\* the event loop drops its event.
ConversionEnds ==
    /\ Running /\ chip.busy
    /\ chip' = [chip EXCEPT !.busy = FALSE, !.result = [mux |-> chip.mux, pga |-> chip.pga]]
    /\ IF chip.ready /\ chip.rdy THEN Edge(0) ELSE UNCHANGED gpioVars
    /\ LET dropped == chip.ready /\ chip.rdy /\ Fires(0) /\ Place \in Loops /\ events' = events
       IN /\ asked' = IF dropped THEN Nothing ELSE asked
          /\ unanswered' = (unanswered \/ (dropped /\ voltage))
    /\ UNCHANGED <<i2cVars, owner, objVars, app, turnVars, raced>>

\* A configuration that arrives during a conversion may or may not restart it.
Convert(c) ==
    \E restarts \in {TRUE} \union {~chip.busy} :
        chip' = IF restarts
                  THEN [chip EXCEPT !.busy = TRUE, !.mux = c.mux, !.pga = c.pga, !.ready = c.ready]
                  ELSE [chip EXCEPT !.ready = c.ready]

\* The two threshold registers, one write each; together they count as one
\* transfer, which may fail half way.
WriteThresholds(on) ==
    \/ WriteRegister(TRUE) /\ chip' = [chip EXCEPT !.rdy = on]
    \/ WriteRegister(FALSE) /\ \E mode \in {chip.rdy, on, FALSE} : chip' = [chip EXCEPT !.rdy = mode]

-------------------------------------------------------------------------------
(* The application *)

\* What getRaw reports; `value` is the conversion register.
Report(mux, value, inVolts) ==
    [mux |-> mux, value |-> value, volts |-> inVolts, range |-> config.pga]

\* Nothing failed in setReadyPin, which does not look, and no setConfig has
\* switched the ready pin off.
PinWorks == attached /\ defaultSet /\ chip.rdy /\ config.ready

\* A flag that a getVoltage without an answer left behind (ads1115.cpp:238) is
\* excluded.
Watched(mux, inVolts) ==
    IF Quiet /\ (useReadyPin => PinWorks /\ (unanswered => inVolts))
      THEN [mux |-> mux, value |-> [mux |-> mux, pga |-> config.pga], volts |-> inVolts,
            range |-> config.pga]
      ELSE Nothing

\* setReadyPin.  Its steps let the interrupt and the event loop run in between.
SetReadyPin ==
    /\ Idle /\ ~useReadyPin
    /\ app' = "set: enable" /\ asked' = Nothing
    /\ Configure(FALSE)
    /\ UNCHANGED <<i2cVars, owner, objVars, turnVars, chip, unanswered, raced>>

SetEnable ==
    /\ Running /\ app = "set: enable"
    /\ app' = "set: handler"
    /\ EnableInterrupt("NEGEDGE")
    /\ UNCHANGED <<i2cVars, owner, objVars, turnVars, chip, askVars>>

\* Mutant: the pointers are not filled in again.
SetHandlerKeepsArgs ==
    /\ Running /\ app = "set: handler" /\ app' = "set: thresholds"
    /\ \E found, ok \in BOOLEAN : SetEventHandler(EventHandler, found, ok)
    /\ UNCHANGED <<i2cVars, owner, objVars, turnVars, chip, askVars>>

SetHandler ==
    /\ Running /\ app = "set: handler"
    /\ app' = "set: thresholds"
    /\ args' = "set"
    /\ \E found, ok \in BOOLEAN : SetEventHandler(EventHandler, found, ok)
    /\ UNCHANGED <<i2cVars, owner, useReadyPin, config, voltage, turnVars, chip, askVars>>

SetThresholds ==
    /\ Running /\ app = "set: thresholds"
    /\ app' = "idle"
    /\ useReadyPin' = TRUE /\ config' = [config EXCEPT !.ready = TRUE]
    /\ WriteThresholds(TRUE)
    /\ UNCHANGED <<gpioVars, owner, voltage, args, turnVars, askVars>>

\* removeReadyPin.
RemoveReadyPin ==
    /\ Idle /\ useReadyPin
    /\ app' = "remove: args" /\ asked' = Nothing /\ raced' = ~Quiet
    /\ voltage' = FALSE /\ unanswered' = FALSE
    /\ DisableInterrupt
    /\ UNCHANGED <<i2cVars, owner, useReadyPin, config, args, turnVars, chip>>

RemoveArgs ==
    /\ Running /\ app = "remove: args"
    /\ app' = "remove: clear"
    /\ args' = "null"
    /\ UNCHANGED <<gpioVars, i2cVars, owner, useReadyPin, config, voltage, turnVars, chip, askVars>>

RemoveThresholds ==
    /\ Running /\ app = "remove: thresholds"
    /\ app' = "idle"
    /\ useReadyPin' = FALSE /\ config' = [config EXCEPT !.ready = TRUE]
    /\ WriteThresholds(FALSE)
    /\ UNCHANGED <<gpioVars, owner, voltage, args, turnVars, askVars>>

\* The statements of clearEventHandlers, where removeReadyPin or ~GpioInput calls it.
ClearPin ==
    /\ Running /\ app \in {"remove: clear", "destroy: clear"}
    /\ ClearLoops \/ ClearHandle \/ ClearEnabled
    /\ app' = IF clearing' # "no" THEN app
              ELSE IF app = "remove: clear" THEN "remove: thresholds" ELSE "destroy: interrupt"
    /\ UNCHANGED <<i2cVars, owner, objVars, turnVars, chip, askVars>>

\* setConfig, of which setMux and setPga are cases.  A configuration of the
\* application's own may switch the comparator, and so the ready pin, off.
SetConfig(c) ==
    /\ Idle /\ c # config
    /\ config' = c /\ asked' = Nothing
    /\ UNCHANGED <<gpioVars, i2cVars, owner, useReadyPin, voltage, args, app, turnVars, chip, unanswered, raced>>

\* getRaw, and getVoltage around it.  A failed write gives 0.
GetRaw(mux, inVolts) ==
    /\ Idle
    /\ config' = [config EXCEPT !.mux = mux]
    /\ voltage' = (voltage \/ (inVolts /\ useReadyPin))
    /\ \/ /\ WriteRegister(TRUE)
          /\ Convert(config') /\ Edge(1)
          /\ app' = IF useReadyPin THEN "idle" ELSE IF inVolts THEN "poll volts" ELSE "poll raw"
          /\ asked' = Watched(mux, inVolts)
          /\ unanswered' = (unanswered \/ (useReadyPin /\ voltage' /\ ~config.ready))
       \/ /\ WriteRegister(FALSE)
          /\ asked' = Nothing
          /\ unanswered' = (unanswered \/ (useReadyPin /\ voltage'))
          /\ UNCHANGED <<gpioVars, chip, app>>
    /\ UNCHANGED <<owner, useReadyPin, args, turnVars, raced>>

Polling == app \in {"poll raw", "poll volts"}

\* isBusy answers no, and getRaw reads the value.  The rounds in which it
\* answers yes change nothing, unless the bus fails.
Poll(ok) ==
    /\ Running /\ Polling /\ (~chip.busy \/ ~ok)
    /\ WriteReadWord(TRUE, ok)
    /\ app' = IF ok THEN "idle" ELSE app
    /\ asked' = Nothing
    /\ UNCHANGED <<gpioVars, owner, objVars, turnVars, chip, unanswered, raced>>

\* Mutant: the device stays on the bus.
DestroyKeepsDevice ==
    /\ Idle /\ app' = "destroy: args" /\ asked' = Nothing /\ raced' = ~Quiet
    /\ UNCHANGED <<gpioVars, i2cVars, owner, objVars, turnVars, chip, unanswered>>

\* ~Ads1115, then the destructor of its _readyGpio.
Destroy ==
    /\ Idle
    /\ app' = "destroy: args" /\ asked' = Nothing /\ raced' = ~Quiet
    /\ RemoveDevice
    /\ UNCHANGED <<gpioVars, owner, objVars, turnVars, chip, unanswered>>

\* The members that nobody can reach any more are forgotten.
DestroyArgs ==
    /\ Running /\ app = "destroy: args"
    /\ app' = "destroy: clear"
    /\ args' = "freed"
    /\ useReadyPin' = FALSE /\ config' = FirstConfig /\ voltage' = FALSE /\ unanswered' = FALSE
    /\ UNCHANGED <<gpioVars, i2cVars, owner, turnVars, chip, asked, raced>>

DestroyInterrupt ==
    /\ Running /\ app = "destroy: interrupt"
    /\ app' = "gone"
    /\ DisableInterrupt
    /\ UNCHANGED <<i2cVars, owner, objVars, turnVars, chip, askVars>>

-------------------------------------------------------------------------------
(* event_handler, on the task of the default event loop *)

Crash == crash' = "pointer" /\ UNCHANGED device

\* Each registration of event_handler gets the event in turn: the address of
\* _intArgs, which is followed when it is handled.
HandlerBegins ==
    /\ Running /\ handler = NoHandler
    /\ IF calls > 0 THEN calls' = calls - 1 /\ UNCHANGED gpioVars
       ELSE TakeEvent("default") /\ calls' = registered["default"][EventHandler] - 1
    /\ IF args = "freed" THEN Crash /\ UNCHANGED handler
       ELSE /\ handler' = [at |-> "read", mux |-> config.mux, handle |-> args = "set",
                           again |-> calls > 0]
            /\ UNCHANGED i2cVars
    /\ UNCHANGED <<owner, objVars, app, chip, askVars>>

HandlerReads(ok) ==
    /\ Running /\ handler.at = "read"
    /\ WriteReadWord(handler.handle, ok)
    /\ handler' = [at |-> "call", mux |-> handler.mux, value |-> chip.result,
                   again |-> handler.again]
    /\ UNCHANGED <<gpioVars, owner, objVars, app, calls, chip, askVars>>

\* Mutant: the next value is in volts too.
HandlerKeepsVolts ==
    /\ Running /\ handler.at = "call"
    /\ IF args # "set" THEN Crash /\ UNCHANGED <<handler, asked, unanswered>>
       ELSE /\ handler' = NoHandler /\ asked' = IF calls = 0 THEN Nothing ELSE asked
            /\ unanswered' = FALSE /\ UNCHANGED i2cVars
    /\ UNCHANGED <<gpioVars, owner, objVars, app, calls, chip, raced>>

\* Mutant: the callback is called with voltages only.
HandlerCallsVolts ==
    /\ Running /\ handler.at = "call"
    /\ IF args # "set" THEN Crash /\ UNCHANGED <<handler, voltage, asked, unanswered>>
       ELSE /\ handler' = NoHandler /\ voltage' = FALSE
            /\ asked' = IF calls = 0 /\ voltage THEN Nothing ELSE asked
            /\ unanswered' = FALSE /\ UNCHANGED i2cVars
    /\ UNCHANGED <<gpioVars, owner, useReadyPin, config, args, app, calls, chip, raced>>

HandlerCalls ==
    /\ Running /\ handler.at = "call"
    /\ IF args # "set" THEN Crash /\ UNCHANGED <<handler, voltage, asked, unanswered>>
       ELSE /\ handler' = NoHandler /\ voltage' = FALSE
            /\ asked' = IF calls = 0 THEN Nothing ELSE asked
            /\ unanswered' = FALSE /\ UNCHANGED i2cVars
    /\ UNCHANGED <<gpioVars, owner, useReadyPin, config, args, app, calls, chip, raced>>

-------------------------------------------------------------------------------
OnPinOfItsOwn == owner = "application" /\ GpioNext /\ UNCHANGED <<i2cVars, adsVars>>

HandlerStep == HandlerBegins \/ (\E ok \in Transfers : HandlerReads(ok)) \/ HandlerCalls
PollStep    == \E ok \in Transfers : Poll(ok)

Next ==
    \/ OnPinOfItsOwn
    \/ SetReadyPin \/ SetEnable \/ SetHandler \/ SetThresholds
    \/ RemoveReadyPin \/ RemoveArgs \/ RemoveThresholds \/ ClearPin
    \/ \E c \in Configs : SetConfig(c)
    \/ \E m \in Muxes, v \in BOOLEAN : GetRaw(m, v)
    \/ Destroy \/ DestroyArgs \/ DestroyInterrupt
    \/ ConversionEnds \/ PollStep \/ HandlerStep

\* The device finishes what it started; the tasks are scheduled.
Fairness == WF_vars(ConversionEnds) /\ WF_vars(PollStep) /\ WF_vars(HandlerStep)

Spec == Init /\ [][Next]_vars /\ Fairness

-------------------------------------------------------------------------------
(* Properties *)

TypeOK ==
    /\ GpioTypeOK
    /\ crash \in {"no", "abort", "pointer"}
    /\ calls \in 0..MaxRegistered
    /\ args \in {"null", "set", "freed"} /\ {voltage, unanswered, raced} \subseteq BOOLEAN
    /\ config \in Configs
    /\ handler.at \in {"idle", "read", "call"}
    /\ args = "freed" => ~device

\* The callback is called while a request is watched, and reports it.
Called == handler.at = "call" /\ handler'.at = "idle" /\ asked # Nothing
Told   == Report(handler.mux, handler.value, voltage) = asked

\* A request made while nothing is under way, its ready pin working and no
\* getVoltage without an answer before it, that no call of the application
\* follows before its answer: the first call of the callback for it, or its poll,
\* reports the input, the value, the unit and the range that were asked for,
\* whatever other requests, ready pins and ranges came before
\* (ads1115.cpp:23-46, 195-242).
ReportsTheRequest ==
    [][ /\ Called /\ ~handler.again => Told
        /\ Polling /\ app' = "idle" /\ asked # Nothing
              => Report(config.mux, chip.result, app = "poll volts") = asked ]_vars

\* "callback a function that will be called with the result of the conversion"
\* (ads1115.h:167): so does every call for it.
EveryCallReportsTheRequest == [][Called => Told]_vars

\* event_handler follows a null or freed pointer only when the ready pin was
\* removed, or the object destroyed, while a conversion or its event was under
\* way (ads1115.cpp:174-178, 77-78): a quiet ready pin can be taken away, set
\* again and destroyed at will.
PointersOutliveEvents == crash = "pointer" => raced

\* Such a request is answered, unless the event loop drops its event, or a call
\* of the application or an abort comes first (ads1115.cpp:23-46, 195-252).
Answered == asked # Nothing ~> (asked = Nothing \/ crash # "no")
================================================================================
