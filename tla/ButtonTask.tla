------------------------------- MODULE ButtonTask -------------------------------
(***************************************************************************)
(* src/periodicTask/buttonTask.cpp: a push button polled by a timer        *)
(* interrupt that debounces it over the last eight samples and reports     *)
(* short and long presses to handlers on an event loop of its own.         *)
(*                                                                         *)
(* The contact (external) bounces: while it opens or closes each read of   *)
(* the pin may give anything, for at most MaxBounce samples; it then rests *)
(* for at least three.  There is one ButtonTask: the interrupt's state     *)
(* is in static locals, which several objects would share.                 *)
(* The application's calls are split where the interrupt may come between  *)
(* two statements; those that set or clear a handler stop the timer.       *)
(***************************************************************************)
EXTENDS PeriodicTask, Sequences

CONSTANTS LongMs,      \* the long press of the constructor, in ms
          ShorterMs,   \* the thresholds of setLongPress, in ms
          SleepMs,     \* 5000 in canSleep
          MaxBounce,   \* samples during which the contact may bounce
          IdleWrap     \* 2^32 of _idleCounter

ASSUME ButtonAssumption ==
    /\ LongMs \in Nat /\ SleepMs \in Nat
    /\ ShorterMs \subseteq 0 .. LongMs
    /\ MaxBounce \in 0 .. 3
    /\ IdleWrap \in Nat /\ \A p \in Periods : SleepMs \div p \in 7 .. (IdleWrap - 2)

VARIABLES
    history,     \* button_history, newest sample last
    counter,     \* longPressCounter
    pressed,     \* pressed
    idle,        \* _idleCounter
    longPress,   \* _longPress
    handlerSet,  \* _shortPressHandlerSet, _longPressHandlerSet
    loop,        \* _evtLoopCreated
    app,         \* where the application's task is in its calls
    longTouched, \* history: the long flag has been assigned, it is no left-over of memory
    contact,     \* "up", "closing", "down", "opening"
    samples,     \* samples taken since contact changed
    held,        \* history: samples since the contact began to close
    got          \* history: what was detected since then (see Detections)

isrState == <<history, counter, pressed, idle>>
handlers == <<handlerSet, loop, longTouched>>
config   == <<timerVars, longPress, handlers, app>>
button   == <<contact, samples, held>>
vars == <<isrState, config, button, got>>

\* Long enough to report a press that is held: nothing changes after it.
MaxTicks == LongMs + 6

Kinds == {"SHORT", "LONG"}
Idle  == [at |-> "idle"]

\* A press found while no handler of its kind is set is posted to nobody.
Unheard == [SHORT |-> "unheard SHORT", LONG |-> "unheard LONG"]
Shorts == {"SHORT", Unheard.SHORT}
Longs  == {"LONG", Unheard.LONG}
Detections == {"nothing", "twice"} \union Shorts \union Longs

AllBits(b) == [i \in 1 .. 8 |-> b]

Init == /\ history = AllBits(0) /\ counter = 0 /\ pressed = FALSE /\ idle = 0
        /\ TimerInit
        /\ longPress = LongMs \div period
        /\ handlerSet \in {f \in [Kinds -> BOOLEAN] : ~f["SHORT"]} \* LONG is not initialised
        /\ loop = FALSE /\ longTouched = FALSE /\ app = Idle
        /\ contact = "up" /\ samples = 0 /\ held = 0
        /\ got = "SHORT"                \* nothing is owed for a contact never closed

-------------------------------------------------------------------------------
(* The contact *)

Moving == contact \in {"closing", "opening"}

\* What one read of the pin can give.
Level == CASE contact = "up"   -> {0}
           [] contact = "down" -> {1}
           [] OTHER            -> {0, 1}

After(place) == CASE place = "up"      -> "closing"
                  [] place = "closing" -> "down"
                  [] place = "down"    -> "opening"
                  [] place = "opening" -> "up"

ContactMoves ==
    /\ ~Moving => samples >= 3
    /\ contact' = After(contact)
    /\ samples' = 0
    /\ IF contact = "up" THEN held' = 0 /\ got' = "nothing"
                         ELSE UNCHANGED <<held, got>>
    /\ UNCHANGED <<isrState, config>>

-------------------------------------------------------------------------------
(* timerCallback, in the timer interrupt *)

\* The masks of the debouncing: 00...111 and 11...000, three samples ignored.
SeesPress(h)   == (\A i \in 1 .. 2 : h[i] = 0) /\ (\A i \in 6 .. 8 : h[i] = 1)
SeesRelease(h) == (\A i \in 1 .. 2 : h[i] = 1) /\ (\A i \in 6 .. 8 : h[i] = 0)

\* esp_event_isr_post_to, if the handler's flag is set.
Report(e) ==
    got' = IF got # "nothing" THEN "twice" ELSE IF handlerSet[e] THEN e ELSE Unheard[e]

\* Mutant: a high read does not clear _idleCounter.
IdleNeverCleared(btn, counts) == IF counts THEN (idle + 1) % IdleWrap ELSE idle

\* _idleCounter is cleared by a high read and counted by the last branch.
IdleAfter(btn, counts) ==
    LET base == IF btn = 1 THEN 0 ELSE idle
    IN  IF counts THEN (base + 1) % IdleWrap ELSE base

Shifted(bit) == Append(Tail(history), bit)

DebouncedPress(btn, h) ==
    /\ SeesPress(h)
    /\ pressed' = TRUE
    /\ history' = AllBits(1)
    /\ idle' = IdleAfter(btn, FALSE)
    /\ UNCHANGED <<counter, got>>

\* A short press, unless a long one was detected since the press.
DebouncedRelease(btn, h) ==
    /\ SeesRelease(h)
    /\ IF pressed THEN Report("SHORT") ELSE UNCHANGED got
    /\ pressed' = FALSE
    /\ history' = AllBits(0)
    /\ idle' = IdleAfter(btn, FALSE)
    /\ UNCHANGED counter

\* Mutant: a long press leaves `pressed` set.
LongPressKeepsPressed(btn, h) ==
    /\ btn = 1 /\ counter > longPress
    /\ Report("LONG")
    /\ counter' = 0
    /\ history' = h
    /\ idle' = IdleAfter(btn, FALSE)
    /\ UNCHANGED pressed

\* Mutant: a sample too early.
LongPressEarly(btn, h) ==
    /\ btn = 1 /\ counter >= longPress
    /\ Report("LONG")
    /\ pressed' = FALSE
    /\ counter' = 0
    /\ history' = h
    /\ idle' = IdleAfter(btn, FALSE)

LongPress(btn, h) ==
    /\ btn = 1 /\ counter > longPress
    /\ Report("LONG")
    /\ pressed' = FALSE
    /\ counter' = 0
    /\ history' = h
    /\ idle' = IdleAfter(btn, FALSE)

\* Mutant: the counter runs twice as fast.
StillPressedFast(btn, h) ==
    /\ ~(btn = 1 /\ counter > longPress)
    /\ pressed /\ btn = 1
    /\ counter' = counter + 2
    /\ history' = h
    /\ idle' = IdleAfter(btn, FALSE)
    /\ UNCHANGED <<pressed, got>>

\* Mutant: the counter is not static and starts anew at each interrupt.
StillPressedForgets(btn, h) ==
    /\ ~(btn = 1 /\ counter > longPress)
    /\ pressed /\ btn = 1
    /\ counter' = 1
    /\ history' = h
    /\ idle' = IdleAfter(btn, FALSE)
    /\ UNCHANGED <<pressed, got>>

StillPressed(btn, h) ==
    /\ ~(btn = 1 /\ counter > longPress)
    /\ pressed /\ btn = 1
    /\ counter' = counter + 1
    /\ history' = h
    /\ idle' = IdleAfter(btn, FALSE)
    /\ UNCHANGED <<pressed, got>>

Otherwise(btn, h) ==
    /\ ~(btn = 1 /\ (counter > longPress \/ pressed))
    /\ counter' = 0
    /\ history' = h
    /\ idle' = IdleAfter(btn, TRUE)
    /\ UNCHANGED <<pressed, got>>

\* The pin is read twice: for btnPressed and for the history.
Sample ==
    /\ Moving => samples < MaxBounce
    /\ samples' = IF samples < MaxTicks THEN samples + 1 ELSE samples
    /\ held' = IF held < 2 * MaxTicks THEN held + 1 ELSE held
    /\ \E btn, bit \in Level :
          LET h == Shifted(bit)
          IN  \/ DebouncedPress(btn, h)
              \/ DebouncedRelease(btn, h)
              \/ /\ ~SeesPress(h) /\ ~SeesRelease(h)
                 /\ \/ LongPress(btn, h)
                    \/ StillPressed(btn, h)
                    \/ Otherwise(btn, h)
    /\ UNCHANGED <<contact, config>>

Tick == Alarm(Sample)

-------------------------------------------------------------------------------
(* The application's calls *)

Unsampled == UNCHANGED <<isrState, button, got>>

\* setPollPeriod keeps the threshold in ms, rounded down to the old period.
\* Before it has done so the interrupt uses the old number of samples.
SetPollPeriod(p) ==
    /\ app = Idle
    /\ app' = [at |-> "threshold", ms |-> longPress * period]
    /\ SetDelay(p)
    /\ UNCHANGED <<longPress, handlers>> /\ Unsampled

SetThreshold ==
    /\ app.at = "threshold"
    /\ app' = Idle
    /\ longPress' = app.ms \div period
    /\ UNCHANGED <<timerVars, handlers>> /\ Unsampled

SetLongPress(ms) ==
    /\ app = Idle
    /\ longPress' = ms \div period
    /\ UNCHANGED <<timerVars, handlers, app>> /\ Unsampled

\* A handler that is set is cleared first, by a whole clear...PressHandler,
\* which starts the timer again.
BeginSet(k) ==
    /\ app = Idle
    /\ app' = [at |-> IF handlerSet[k] THEN "clear" ELSE "set", kind |-> k, replace |-> TRUE]
    /\ Stop
    /\ UNCHANGED <<longPress, handlers>> /\ Unsampled

StopAgain ==
    /\ app.at = "stop"
    /\ app' = [app EXCEPT !.at = "set"]
    /\ Stop
    /\ UNCHANGED <<longPress, handlers>> /\ Unsampled

\* Both do nothing when there is nothing to do.
CreateCustomEventLoop == loop' = TRUE
ClearCustomEventLoop  == loop' = FALSE

SetHandler ==
    /\ app.at = "set"
    /\ CreateCustomEventLoop
    /\ handlerSet' = [handlerSet EXCEPT ![app.kind] = TRUE]
    /\ longTouched' = (longTouched \/ app.kind = "LONG")
    /\ app' = Idle
    /\ Start
    /\ UNCHANGED longPress /\ Unsampled

BeginClear(k) ==
    /\ app = Idle
    /\ app' = [at |-> "clear", kind |-> k, replace |-> FALSE]
    /\ Stop
    /\ UNCHANGED <<longPress, handlers>> /\ Unsampled

\* Mutant: the event loop is deleted with the first handler.
ClearDropsLoop ==
    /\ app.at = "clear"
    /\ handlerSet' = [handlerSet EXCEPT ![app.kind] = FALSE]
    /\ loop' = (loop /\ ~handlerSet[app.kind])
    /\ longTouched' = (longTouched \/ app.kind = "LONG")
    /\ app' = IF app.replace THEN [app EXCEPT !.at = "stop"] ELSE Idle
    /\ Start
    /\ UNCHANGED longPress /\ Unsampled

\* The event loop goes with the last handler, when there was one to clear.
ClearHandler ==
    /\ app.at = "clear"
    /\ handlerSet' = [handlerSet EXCEPT ![app.kind] = FALSE]
    /\ IF handlerSet[app.kind] /\ \A k \in Kinds : ~handlerSet'[k]
         THEN ClearCustomEventLoop ELSE UNCHANGED loop
    /\ longTouched' = (longTouched \/ app.kind = "LONG")
    /\ app' = IF app.replace THEN [app EXCEPT !.at = "stop"] ELSE Idle
    /\ Start
    /\ UNCHANGED longPress /\ Unsampled

CanSleep == idle > SleepMs \div period

Next == \/ Tick
        \/ ContactMoves
        \/ \E p \in Periods : SetPollPeriod(p)
        \/ \E ms \in ShorterMs : SetLongPress(ms)
        \/ \E k \in Kinds : BeginSet(k) \/ BeginClear(k)
        \/ SetThreshold \/ StopAgain \/ SetHandler \/ ClearHandler

Spec == Init /\ [][Next]_vars

-------------------------------------------------------------------------------
(* Properties *)

TypeOK == /\ history \in [1 .. 8 -> {0, 1}]
          /\ counter \in 0 .. (LongMs + 1)
          /\ pressed \in BOOLEAN
          /\ idle \in 0 .. (IdleWrap - 1)
          /\ period \in Periods /\ longPress \in 0 .. LongMs
          /\ handlerSet \in [Kinds -> BOOLEAN] /\ {polling, loop, longTouched} \subseteq BOOLEAN
          /\ app.at \in {"idle", "threshold", "stop", "set", "clear"}
          /\ contact \in {"up", "closing", "down", "opening"}
          /\ samples \in 0 .. MaxTicks /\ held \in 0 .. (2 * MaxTicks)
          /\ got \in Detections

\* A contact that bounces for at most three samples and then rests is detected
\* exactly once for each time it was closed, as a short or as a long press,
\* whatever the two reads of a bouncing sample give and however the polling
\* period and the threshold are changed meanwhile.
OneReportPerPress ==
    /\ got # "twice"
    /\ contact = "up" /\ samples >= 3 => got # "nothing"

\* A button is only detected as long when its contact has been closed for the
\* three samples of the debouncing and then longer than the threshold in force.
LongWasHeld == [][got' \in Longs /\ got \notin Longs => held > longPress + 3]_vars

\* A button held down is detected as long before it is released, whatever
\* periods and thresholds were set meanwhile.
HeldIsLong == contact = "down" /\ samples = MaxTicks => got \in Longs

\* Once the contact has closed, the application is not told to sleep before the
\* press is reported, nor while the button is held: the low samples of a
\* bouncing or a just released contact do not add up to the idle time.
SleepsOnlyAfterReport ==
    CanSleep => \/ contact = "closing"
                \/ contact = "down" /\ samples = 0
                \/ contact \in {"opening", "up"} /\ ~pressed

\* A handler that was set has an event loop to be posted to, and two handlers
\* share it until both are cleared; no flag or loop changes while the interrupt
\* may look at it, and outside the calls that change them the button is polled,
\* also after calls that replaced a handler or had nothing to clear.  (Before the
\* long press handler is set for the first time its flag is what the memory held.)
HandlersHaveLoop ==
    /\ handlerSet["SHORT"] => loop
    /\ handlerSet["LONG"] /\ longTouched => loop
    /\ polling <=> app.at \in {"idle", "threshold", "stop"}
===============================================================================
