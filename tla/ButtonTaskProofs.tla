--------------------------- MODULE ButtonTaskProofs ---------------------------
(***************************************************************************)
(* The press handlers and the debouncing of a button, for any polling      *)
(* periods, thresholds and bounces.                                        *)
(*   - HandlersHaveLoop is inductive once the calls of the application are *)
(*     known to be about a handler: clear...PressHandler decides on the    *)
(*     event loop by the flag of the other handler, and a replaced handler *)
(*     passes through it first.                                            *)
(*   - PressInv says what the last eight samples, the counters and the     *)
(*     flag can be at each place of the contact: how far the levels before *)
(*     the bounce still fill the history, and which of the new ones do.    *)
(*   - ThresholdInv bounds the threshold while the period changes first.   *)
(***************************************************************************)
EXTENDS ButtonTask, SequenceTheorems, TLAPS

\* The application's calls, each at one of its statements.
Calls == [at : {"clear", "stop", "set"}, kind : Kinds, replace : BOOLEAN]

AppTypeOK ==
    /\ handlerSet \in [Kinds -> BOOLEAN]
    /\ \/ app = Idle
       \/ app.at = "threshold"
       \/ app \in Calls

CallsInv == AppTypeOK /\ HandlersHaveLoop

callVars == <<polling, handlers, app>>

LEMMA CallsInit == Init => CallsInv
  BY DEF Init, CallsInv, AppTypeOK, HandlersHaveLoop, TimerInit, Idle, Kinds

LEMMA CallsUntouched ==
  ASSUME CallsInv, UNCHANGED callVars
  PROVE  CallsInv'
  BY DEF CallsInv, AppTypeOK, HandlersHaveLoop, callVars, handlers

\* The timer interrupt, the contact and the thresholds leave the calls alone.
LEMMA CallsQuiet ==
  ASSUME CallsInv, Tick \/ ContactMoves \/ \E ms \in ShorterMs : SetLongPress(ms)
  PROVE  CallsInv'
  BY CallsUntouched DEF Tick, Alarm, Sample, ContactMoves, SetLongPress, config, timerVars, callVars

LEMMA CallsSetPollPeriod ==
  ASSUME CallsInv, NEW p \in Periods, SetPollPeriod(p) \/ SetThreshold
  PROVE  CallsInv'
  BY DEF SetPollPeriod, SetThreshold, SetDelay, CallsInv, AppTypeOK, HandlersHaveLoop,
         Idle, timerVars, handlers

LEMMA CallMoves ==
  ASSUME NEW call \in Calls, NEW place \in {"clear", "stop", "set"}
  PROVE  [call EXCEPT !.at = place] \in Calls /\ [call EXCEPT !.at = place].at = place
  BY DEF Calls

LEMMA CallsBegin ==
  ASSUME CallsInv, NEW k \in Kinds, BeginSet(k) \/ BeginClear(k) \/ StopAgain
  PROVE  CallsInv'
  <1>1. UNCHANGED handlers /\ polling' = FALSE
    BY DEF BeginSet, BeginClear, StopAgain, Stop
  <1>2. CASE BeginSet(k) \/ BeginClear(k)
    <2>1. \E place \in {"clear", "set"}, r \in BOOLEAN :
              app' = [at |-> place, kind |-> k, replace |-> r]
      BY <1>2 DEF BeginSet, BeginClear
    <2>2. app' \in Calls /\ app'.at \in {"clear", "set"}
      BY <2>1 DEF Calls
    <2>3. QED
      BY <1>1, <2>2 DEF CallsInv, AppTypeOK, HandlersHaveLoop, handlers
  <1>3. CASE StopAgain
    <2>1. app \in Calls /\ app' = [app EXCEPT !.at = "set"]
      BY <1>3 DEF StopAgain, CallsInv, AppTypeOK, Idle
    <2>2. app' \in Calls /\ app'.at = "set"
      BY <2>1, CallMoves
    <2>3. QED
      BY <1>1, <2>2 DEF CallsInv, AppTypeOK, HandlersHaveLoop, handlers
  <1>4. QED
    BY <1>2, <1>3

LEMMA CallsSetHandler ==
  ASSUME CallsInv, SetHandler
  PROVE  CallsInv'
  <1>1. app.kind \in Kinds
    BY DEF CallsInv, AppTypeOK, Calls, SetHandler, Idle
  <1>2. handlerSet' \in [Kinds -> BOOLEAN] /\ loop' = TRUE
    BY <1>1 DEF CallsInv, AppTypeOK, SetHandler, CreateCustomEventLoop
  <1>3. app' = Idle /\ polling' = TRUE
    BY DEF SetHandler, Start
  <1>4. QED
    BY <1>2, <1>3 DEF CallsInv, AppTypeOK, HandlersHaveLoop, Idle

\* The last handler takes the event loop with it; whoever is left keeps it.
LEMMA CallsClearHandler ==
  ASSUME CallsInv, ClearHandler
  PROVE  CallsInv'
  <1>1. app \in Calls
    BY DEF CallsInv, AppTypeOK, ClearHandler, Idle
  <1>2. handlerSet' \in [Kinds -> BOOLEAN] /\ handlerSet'[app.kind] = FALSE
    BY <1>1 DEF CallsInv, AppTypeOK, Calls, ClearHandler
  <1>3. \A k \in Kinds : handlerSet'[k] => handlerSet[k] /\ k # app.kind
    BY <1>1, <1>2 DEF CallsInv, AppTypeOK, Calls, ClearHandler
  <1>4. (\E k \in Kinds : handlerSet'[k]) => UNCHANGED loop
    BY DEF ClearHandler
  <1>5. handlerSet'["SHORT"] => loop'
    BY <1>3, <1>4 DEF CallsInv, HandlersHaveLoop, Kinds
  <1>6. handlerSet'["LONG"] /\ longTouched' => loop'
    <2>1. handlerSet'["LONG"] /\ longTouched' => longTouched
      BY <1>3 DEF ClearHandler, Kinds
    <2>2. QED
      BY <1>3, <1>4, <2>1 DEF CallsInv, HandlersHaveLoop, Kinds
  <1>7. polling' = TRUE /\ (app' = Idle \/ app' = [app EXCEPT !.at = "stop"])
    BY DEF ClearHandler, Start
  <1>8. \/ app' = Idle
        \/ app' \in Calls /\ app'.at = "stop"
    BY <1>1, <1>7, CallMoves
  <1>9. QED
    BY <1>2, <1>5, <1>6, <1>7, <1>8 DEF CallsInv, AppTypeOK, HandlersHaveLoop, Idle

LEMMA CallsNext ==
  ASSUME CallsInv, [Next]_vars
  PROVE  CallsInv'
  <1>1. CASE UNCHANGED vars
    BY <1>1, CallsUntouched DEF vars, config, timerVars, callVars
  <1>2. CASE Next
    BY <1>2, CallsQuiet, CallsSetPollPeriod, CallsBegin, CallsSetHandler, CallsClearHandler,
       PeriodicAssumption DEF Next, Kinds
  <1>3. QED
    BY <1>1, <1>2

\* A handler that is set has an event loop, and the button is not polled while
\* its flags and its loop change (buttonTask.cpp: set and clear of both handlers).
THEOREM HandlersHaveLoopHolds == Spec => []HandlersHaveLoop
  <1>1. CallsInv => HandlersHaveLoop
    BY DEF CallsInv
  <1>2. QED
    BY <1>1, CallsInit, CallsNext, PTL DEF Spec

-------------------------------------------------------------------------------
(* Numbers and bits *)

LEMMA DivBound ==
  ASSUME NEW a \in Nat, NEW p \in Nat \ {0}
  PROVE  a \div p \in Nat /\ (a \div p) * p <= a /\ a \div p <= a
  <1> DEFINE q == a \div p
  <1>1. q \in Int /\ q * p <= a /\ a < (q + 1) * p
    OBVIOUS
  <1>2. q \in Nat
    BY <1>1
  <1> HIDE DEF q
  <1>3. q <= q * p
    BY <1>2
  <1>4. QED
    BY <1>1, <1>2, <1>3 DEF q

LEMMA ModBound ==
  ASSUME NEW a \in Nat, NEW m \in Nat \ {0}
  PROVE  a % m \in 0 .. (m - 1) /\ a % m <= a
  OBVIOUS

\* The time to sleep is more samples than a bouncing contact can take.
LEMMA Bounds ==
  /\ LongMs \in Nat /\ IdleWrap \in Nat /\ IdleWrap >= 9
  /\ \A p \in Periods : SleepMs \div p \in Nat /\ SleepMs \div p >= 7
  <1>1. PICK p \in Periods : TRUE
    BY PeriodicAssumption
  <1>2. SleepMs \div p \in 7 .. (IdleWrap - 2) /\ IdleWrap \in Nat
    BY ButtonAssumption
  <1>3. \A q : q \in 7 .. (IdleWrap - 2) => q \in Nat /\ q >= 7 /\ IdleWrap >= 9
    BY <1>2
  <1>4. QED
    BY <1>2, <1>3, ButtonAssumption

\* The history moves by one place.
Slides(h, bit) == /\ h \in [1 .. 8 -> {0, 1}]
                  /\ \A i \in 1 .. 7 : h[i] = history[i + 1]
                  /\ h[8] = bit

LEMMA ShiftedIs ==
  ASSUME history \in [1 .. 8 -> {0, 1}], NEW b \in {0, 1}
  PROVE  Slides(Shifted(b), b)
  <1>1. history \in Seq({0, 1})
    BY SeqDef
  <1>2. Len(history) = 8 /\ history # <<>>
    BY <1>1, LenProperties
  <1> DEFINE t == Tail(history)
  <1>3. t \in Seq({0, 1}) /\ Len(t) = 7 /\ \A i \in 1 .. 7 : t[i] = history[i + 1]
    <2>1. t \in Seq({0, 1}) /\ Len(t) = Len(history) - 1
            /\ \A i \in 1 .. Len(t) : t[i] = history[i + 1]
      BY <1>1, <1>2, HeadTailProperties
    <2>2. Len(t) = 7
      BY <1>2, <2>1
    <2>3. QED
      BY <2>1, <2>2
  <1> DEFINE Bit == {0, 1}
  <1>4. t \in Seq(Bit) /\ b \in Bit
    BY <1>3
  <1> HIDE DEF t, Bit
  <1>5. /\ Append(t, b) \in Seq({0, 1}) /\ Len(Append(t, b)) = 8
        /\ (\A i \in 1 .. 7 : Append(t, b)[i] = t[i]) /\ Append(t, b)[8] = b
    <2>1. /\ Append(t, b) \in Seq(Bit) /\ Len(Append(t, b)) = Len(t) + 1
          /\ \A i \in 1 .. Len(t) : Append(t, b)[i] = t[i]
          /\ Append(t, b)[Len(t) + 1] = b
      BY <1>4, AppendProperties
    <2>2. Len(t) + 1 = 8
      BY <1>3
    <2>3. QED
      BY <1>3, <2>1, <2>2 DEF Bit
  <1>6. Append(t, b) \in [1 .. 8 -> {0, 1}]
    BY <1>5, LenProperties
  <1>7. QED
    BY <1>3, <1>5, <1>6 DEF Shifted, Slides, t

LEMMA AllBitsAre ==
  ASSUME NEW b \in {0, 1}
  PROVE  /\ AllBits(b) \in [1 .. 8 -> {0, 1}]
         /\ \A i \in 1 .. 8 : AllBits(b)[i] = b
         /\ \A h \in [1 .. 8 -> {0, 1}] : (\A i \in 1 .. 8 : h[i] = b) => h = AllBits(b)
  BY DEF AllBits

-------------------------------------------------------------------------------
(* What a press leaves behind, at each place of the contact *)

SampleTypes ==
    /\ history \in [1 .. 8 -> {0, 1}]
    /\ counter \in 0 .. (LongMs + 1) /\ pressed \in BOOLEAN /\ idle \in 0 .. (IdleWrap - 1)
    /\ contact \in {"up", "closing", "down", "opening"}
    /\ samples \in 0 .. MaxTicks /\ held \in 0 .. (2 * MaxTicks)
    /\ got \in Detections

\* A threshold in samples is one the application asked for in ms, rounded down.
ThresholdInv ==
    /\ period \in Periods /\ longPress \in 0 .. LongMs
    /\ IF app.at = "threshold" THEN app.ms \in 0 .. LongMs ELSE longPress * period <= LongMs

\* The press has been found, and perhaps reported as a long one.
Found == pressed \/ got \in Longs

\* The release has been found; the counter may be left over from the press.
Released == ~pressed /\ got # "nothing" /\ history = AllBits(0)

\* Nothing but lows before the samples of this closing.
Unseen == ~pressed /\ got = "nothing" /\ \A i \in 1 .. 8 : i <= 8 - held => history[i] = 0

ClosingInv ==
    /\ held = samples /\ samples <= 3
    /\ Unseen \/ (pressed /\ samples = 3 /\ history = AllBits(1))

DownInv ==
    \/ Found /\ history = AllBits(1) /\ (pressed => samples <= counter + 3)
    \/ /\ Unseen
       /\ samples <= 2 /\ held <= samples + 3
       /\ \A i \in 1 .. 8 : i > 8 - samples => history[i] = 1

OpeningInv ==
    /\ samples <= 3
    /\ \/ Released /\ samples = 3
       \/ Found /\ \A i \in 1 .. 8 : i <= 8 - samples => history[i] = 1

UpInv ==
    /\ samples >= 2 => counter = 0
    /\ \/ Released
       \/ /\ Found /\ samples <= 2
          /\ samples >= 1 => counter = 0
          /\ \A i \in 1 .. 8 : /\ i <= 5 - samples => history[i] = 1
                               /\ i > 8 - samples => history[i] = 0

WindowInv ==
    /\ contact = "closing" => ClosingInv
    /\ contact = "down"    => DownInv
    /\ contact = "opening" => OpeningInv
    /\ contact = "up"      => UpInv

\* The counter counts the samples since the press was found, the threshold is
\* one the application asked for, and a found press is not reported yet.
CountInv ==
    /\ pressed => got = "nothing" /\ counter + 3 <= held
    /\ pressed \/ counter = 0 \/ (Released /\ contact \in {"opening", "up"})
    /\ got # "twice"

\* The lows of a bouncing contact after its last certain high.
IdleInv ==
    /\ contact = "down" /\ samples >= 1 => idle <= 1
    /\ contact = "opening" => idle <= 1 + samples
    /\ contact = "up" /\ pressed => idle <= 4 + samples

\* The part of the state that the interrupt and the contact change.
PressInv == SampleTypes /\ WindowInv /\ CountInv /\ IdleInv

pressVars == <<isrState, button, got>>

LEMMA PressUntouched ==
  ASSUME PressInv, UNCHANGED pressVars
  PROVE  PressInv'
  BY DEF PressInv, SampleTypes, WindowInv, ClosingInv, DownInv, OpeningInv, UpInv, CountInv, IdleInv,
         Found, Released, Unseen, pressVars, isrState, button

LEMMA PressInit == Init => PressInv
  <1> SUFFICES ASSUME Init PROVE PressInv
    OBVIOUS
  <1>1. history = AllBits(0) /\ history \in [1 .. 8 -> {0, 1}]
    BY AllBitsAre DEF Init
  <1>2. /\ counter = 0 /\ pressed = FALSE /\ idle = 0 /\ contact = "up" /\ samples = 0 /\ held = 0
        /\ got = "SHORT"
    BY DEF Init
  <1>3. IdleWrap \in Nat /\ IdleWrap >= 9 /\ LongMs \in Nat
    BY Bounds
  <1>4. got \in Detections
    BY <1>2 DEF Detections, Shorts
  <1>5. /\ counter \in 0 .. (LongMs + 1) /\ idle \in 0 .. (IdleWrap - 1)
        /\ samples \in 0 .. MaxTicks /\ held \in 0 .. (2 * MaxTicks)
    BY <1>2, <1>3 DEF MaxTicks
  <1>6. SampleTypes
    BY <1>1, <1>2, <1>4, <1>5 DEF SampleTypes
  <1>7. WindowInv
    BY <1>1, <1>2 DEF WindowInv, UpInv, Released
  <1>8. QED
    BY <1>2, <1>6, <1>7 DEF PressInv, CountInv, IdleInv

-------------------------------------------------------------------------------
(* The contact moves *)

LEMMA PressContactMoves ==
  ASSUME PressInv, ContactMoves
  PROVE  PressInv'
  <1>1. /\ UNCHANGED <<history, counter, pressed, idle>> /\ samples' = 0
        /\ contact' = After(contact)
        /\ contact \in {"up", "down"} => samples >= 3
        /\ IF contact = "up" THEN held' = 0 /\ got' = "nothing" ELSE UNCHANGED <<held, got>>
    BY DEF ContactMoves, isrState, Moving
  <1>2. LongMs \in Nat /\ SampleTypes
    BY ButtonAssumption DEF PressInv
  <1>3. SampleTypes'
    BY <1>1, <1>2 DEF SampleTypes, After, MaxTicks, Detections
  <1>4. CASE contact = "up"
    <2>1. contact' = "closing" /\ held' = 0 /\ got' = "nothing" /\ samples >= 3
      BY <1>1, <1>4 DEF After
    <2>2. Released /\ counter = 0
      BY <1>2, <1>4, <2>1 DEF PressInv, WindowInv, UpInv, SampleTypes, MaxTicks
    <2>3. Unseen'
      BY <1>1, <2>1, <2>2, AllBitsAre DEF Unseen, Released
    <2>4. QED
      BY <1>1, <1>3, <2>1, <2>2, <2>3
         DEF PressInv, WindowInv, ClosingInv, CountInv, IdleInv, Released
  <1>5. CASE contact = "closing"
    <2>1. contact' = "down" /\ UNCHANGED <<held, got>>
      BY <1>1, <1>5 DEF After
    <2>2. ClosingInv
      BY <1>5 DEF PressInv, WindowInv
    <2>3. CASE Unseen
      <3>1. Unseen' /\ held' <= samples' + 3
        BY <1>1, <2>1, <2>2, <2>3 DEF Unseen, ClosingInv
      <3>2. \A i \in 1 .. 8 : ~(i > 8 - samples')
        BY <1>1
      <3>3. DownInv'
        BY <1>1, <3>1, <3>2 DEF DownInv
      <3>4. QED
        BY <1>1, <1>3, <1>5, <2>1, <3>3 DEF PressInv, WindowInv, CountInv, IdleInv
    <2>4. CASE pressed /\ history = AllBits(1)
      <3>1. DownInv'
        BY <1>1, <1>2, <2>4 DEF DownInv, Found, SampleTypes
      <3>2. QED
        BY <1>1, <1>3, <1>5, <2>1, <3>1 DEF PressInv, WindowInv, CountInv, IdleInv
    <2>5. QED
      BY <2>2, <2>3, <2>4 DEF ClosingInv
  <1>6. CASE contact = "down"
    <2>1. contact' = "opening" /\ samples >= 3 /\ UNCHANGED <<held, got>>
      BY <1>1, <1>6 DEF After
    <2>2. Found /\ history = AllBits(1)
      BY <1>2, <1>6, <2>1 DEF PressInv, WindowInv, DownInv, SampleTypes, MaxTicks
    <2>3. OpeningInv'
      BY <1>1, <2>1, <2>2, AllBitsAre DEF OpeningInv, Found
    <2>4. IdleInv'
      BY <1>1, <1>2, <1>6, <2>1 DEF PressInv, IdleInv, SampleTypes, MaxTicks
    <2>5. CountInv'
      BY <1>1, <1>6, <2>1 DEF PressInv, CountInv
    <2>6. QED
      BY <1>3, <2>1, <2>3, <2>4, <2>5 DEF PressInv, WindowInv
  <1>7. CASE contact = "opening"
    <2>1. contact' = "up" /\ UNCHANGED <<held, got>>
      BY <1>1, <1>7 DEF After
    <2>2. OpeningInv
      BY <1>7 DEF PressInv, WindowInv
    <2>3. UpInv'
      <3>1. CASE Released
        BY <1>1, <2>1, <3>1 DEF UpInv, Released
      <3>2. CASE Found /\ \A i \in 1 .. 8 : i <= 8 - samples => history[i] = 1
        BY <1>1, <1>2, <2>1, <2>2, <3>2 DEF UpInv, OpeningInv, Found, SampleTypes, MaxTicks
      <3>3. QED
        BY <2>2, <3>1, <3>2 DEF OpeningInv
    <2>4. IdleInv'
      BY <1>1, <1>2, <1>7, <2>1, <2>2 DEF PressInv, IdleInv, OpeningInv, SampleTypes, MaxTicks
    <2>5. CountInv'
      BY <1>1, <1>7, <2>1 DEF PressInv, CountInv, Released
    <2>6. QED
      BY <1>3, <2>1, <2>3, <2>4, <2>5 DEF PressInv, WindowInv
  <1>8. QED
    BY <1>2, <1>4, <1>5, <1>6, <1>7 DEF SampleTypes

-------------------------------------------------------------------------------
(* The interrupt takes a sample *)

\* One sample, of which btn and bit are the two reads of the pin.
Reads(btn, bit, h) ==
    /\ Slides(h, bit)
    /\ Moving => samples < MaxBounce
    /\ samples' = IF samples < MaxTicks THEN samples + 1 ELSE samples
    /\ held' = IF held < 2 * MaxTicks THEN held + 1 ELSE held
    /\ \/ DebouncedPress(btn, h)
       \/ DebouncedRelease(btn, h)
       \/ /\ ~SeesPress(h) /\ ~SeesRelease(h)
          /\ \/ LongPress(btn, h)
             \/ StillPressed(btn, h)
             \/ Otherwise(btn, h)
    /\ UNCHANGED contact

LEMMA LevelIs ==
  /\ Level \subseteq {0, 1}
  /\ contact = "up" => Level = {0}
  /\ contact = "down" => Level = {1}
  BY DEF Level

LEMMA SampleReads ==
  ASSUME PressInv, Sample
  PROVE  \E btn \in Level, bit \in Level, h \in [1 .. 8 -> {0, 1}] : Reads(btn, bit, h)
  <1>1. PICK btn \in Level, bit \in Level :
          \/ DebouncedPress(btn, Shifted(bit))
          \/ DebouncedRelease(btn, Shifted(bit))
          \/ /\ ~SeesPress(Shifted(bit)) /\ ~SeesRelease(Shifted(bit))
             /\ \/ LongPress(btn, Shifted(bit))
                \/ StillPressed(btn, Shifted(bit))
                \/ Otherwise(btn, Shifted(bit))
    BY DEF Sample
  <1>2. Slides(Shifted(bit), bit)
    BY ShiftedIs, LevelIs DEF PressInv, SampleTypes
  <1>3. Shifted(bit) \in [1 .. 8 -> {0, 1}]
    BY <1>2 DEF Slides
  <1>4. Reads(btn, bit, Shifted(bit))
    BY <1>1, <1>2 DEF Reads, Sample
  <1>5. QED
    BY <1>3, <1>4

LEMMA Reported ==
  ASSUME NEW e \in Kinds, Report(e), got = "nothing"
  PROVE  /\ got' \in Detections /\ got' # "twice" /\ got' # "nothing"
         /\ e = "LONG" => got' \in Longs
         /\ e = "SHORT" => got' \notin Longs
  <1>1. got' = e \/ got' = Unheard[e]
    BY DEF Report
  <1>2. Unheard["SHORT"] = "unheard SHORT" /\ Unheard["LONG"] = "unheard LONG"
        /\ Unheard.SHORT = "unheard SHORT" /\ Unheard.LONG = "unheard LONG"
    BY DEF Unheard
  <1>3. Shorts = {"SHORT", "unheard SHORT"} /\ Longs = {"LONG", "unheard LONG"}
    BY <1>2 DEF Shorts, Longs
  <1>4. QED
    BY <1>1, <1>2, <1>3 DEF Kinds, Detections

\* The counter is ahead of its threshold only while a press waits to be reported.
LEMMA LongIsPressed ==
  ASSUME SampleTypes, CountInv, longPress \in 0 .. LongMs, counter > longPress,
         ~(Released /\ contact \in {"opening", "up"})
  PROVE  pressed /\ got = "nothing" /\ counter + 3 <= held
  BY Bounds DEF SampleTypes, CountInv

LEMMA SampleCounter ==
  ASSUME SampleTypes, longPress \in 0 .. LongMs,
         NEW btn \in {0, 1}, NEW bit, NEW h \in [1 .. 8 -> {0, 1}], Reads(btn, bit, h)
  PROVE  /\ counter' \in 0 .. (LongMs + 1)
         /\ counter' = counter \/ counter' = 0 \/ (counter' = counter + 1 /\ pressed /\ counter <= longPress)
         /\ samples' \in 0 .. MaxTicks /\ held' \in 0 .. (2 * MaxTicks)
         /\ samples' = samples \/ samples' = samples + 1
         /\ held >= LongMs + 4 => held' >= LongMs + 4
         /\ held < LongMs + 4 => held' = held + 1
  <1>1. counter \in Nat /\ LongMs \in Nat /\ longPress \in Nat /\ longPress <= LongMs
        /\ counter <= LongMs + 1 /\ samples \in Nat /\ held \in Nat
        /\ samples <= LongMs + 6 /\ held <= 2 * (LongMs + 6)
    BY Bounds DEF SampleTypes, MaxTicks
  <1>2. counter' = counter \/ counter' = 0 \/ (counter' = counter + 1 /\ pressed /\ ~(counter > longPress))
    BY DEF Reads, DebouncedPress, DebouncedRelease, LongPress, StillPressed, Otherwise
  <1>3. counter' \in 0 .. (LongMs + 1)
        /\ (counter' = counter \/ counter' = 0 \/ (counter' = counter + 1 /\ pressed /\ counter <= longPress))
    BY <1>1, <1>2
  <1>4. /\ samples' = IF samples < LongMs + 6 THEN samples + 1 ELSE samples
        /\ held' = IF held < 2 * (LongMs + 6) THEN held + 1 ELSE held
    BY DEF Reads, MaxTicks
  <1>5. QED
    BY <1>1, <1>3, <1>4 DEF MaxTicks

\* A high read clears the idle counter, a low one counts at most one.
LEMMA SampleIdle ==
  ASSUME SampleTypes, NEW btn \in {0, 1}, NEW bit, NEW h \in [1 .. 8 -> {0, 1}], Reads(btn, bit, h)
  PROVE  /\ idle' \in 0 .. (IdleWrap - 1)
         /\ idle' <= idle + 1
         /\ btn = 1 => idle' <= 1
  <1>1. idle \in Nat /\ idle <= IdleWrap - 1 /\ IdleWrap \in Nat /\ IdleWrap >= 9
    BY Bounds DEF SampleTypes
  <1> DEFINE base == IF btn = 1 THEN 0 ELSE idle
  <1>2. base \in Nat /\ base <= idle /\ (btn = 1 => base = 0)
    BY <1>1
  <1>3. idle' = IdleAfter(btn, TRUE) \/ idle' = IdleAfter(btn, FALSE)
    BY DEF Reads, DebouncedPress, DebouncedRelease, LongPress, StillPressed, Otherwise
  <1>4. idle' = (base + 1) % IdleWrap \/ idle' = base
    BY <1>3 DEF IdleAfter
  <1> HIDE DEF base
  <1>5. (base + 1) % IdleWrap \in 0 .. (IdleWrap - 1) /\ (base + 1) % IdleWrap <= base + 1
    <2>1. base + 1 \in Nat /\ IdleWrap \in Nat \ {0}
      BY <1>1, <1>2
    <2>2. QED
      BY <2>1, ModBound
  <1>6. base + 1 <= idle + 1 /\ base \in 0 .. (IdleWrap - 1) /\ (btn = 1 => base + 1 <= 1)
    BY <1>1, <1>2
  <1>7. CASE idle' = base
    BY <1>1, <1>2, <1>6, <1>7
  <1>8. CASE idle' = (base + 1) % IdleWrap
    BY <1>1, <1>2, <1>5, <1>6, <1>8
  <1>9. QED
    BY <1>4, <1>7, <1>8

-------------------------------------------------------------------------------
(* ... at each place of the contact *)

LEMMA SampleUp ==
  ASSUME PressInv, contact = "up", NEW h \in [1 .. 8 -> {0, 1}], Reads(0, 0, h)
  PROVE  UpInv' /\ CountInv'
  <1>1. Slides(h, 0) /\ contact' = "up" /\ SampleTypes /\ CountInv /\ UpInv
    BY DEF Reads, PressInv, WindowInv
  <1>2. /\ h[1] = history[2] /\ h[2] = history[3] /\ h[6] = history[7] /\ h[7] = history[8]
        /\ h[8] = 0
    BY <1>1 DEF Slides
  <1>3. ~SeesPress(h) /\ ~LongPress(0, h) /\ ~StillPressed(0, h)
    BY <1>2 DEF SeesPress, LongPress, StillPressed
  <1>4. CASE Released
    <2>1. \A i \in 1 .. 8 : history[i] = 0
      BY <1>4, AllBitsAre DEF Released
    <2>2. \A i \in 1 .. 8 : h[i] = 0
      BY <1>1, <2>1 DEF Slides
    <2>3. h = AllBits(0) /\ ~SeesRelease(h)
      BY <2>2, AllBitsAre DEF SeesRelease
    <2>4. Otherwise(0, h)
      BY <1>3, <2>3 DEF Reads, DebouncedPress, DebouncedRelease
    <2>5. counter' = 0 /\ history' = h /\ UNCHANGED <<pressed, got>>
      BY <2>4 DEF Otherwise
    <2>6. Released'
      BY <1>4, <2>3, <2>5 DEF Released
    <2>7. QED
      BY <1>1, <1>4, <2>5, <2>6 DEF UpInv, CountInv, Released
  <1>5. CASE ~Released
    <2>1. /\ Found /\ samples <= 2 /\ samples \in Nat
          /\ samples >= 1 => counter = 0
          /\ \A i \in 1 .. 8 : /\ i <= 5 - samples => history[i] = 1
                               /\ i > 8 - samples => history[i] = 0
      BY <1>1, <1>5 DEF UpInv, SampleTypes
    <2>2. samples' = samples + 1
      BY <2>1, Bounds DEF Reads, MaxTicks
    <2>3. CASE SeesRelease(h)
      <3>1. DebouncedRelease(0, h)
        BY <1>3, <2>3 DEF Reads, DebouncedPress
      <3>2. pressed' = FALSE /\ history' = AllBits(0) /\ UNCHANGED counter
        BY <3>1 DEF DebouncedRelease
      <3>3. got' # "twice" /\ got' # "nothing"
        <4>1. CASE pressed
          BY <1>1, <3>1, <4>1, Reported DEF DebouncedRelease, CountInv, Kinds
        <4>2. CASE ~pressed
          BY <1>1, <2>1, <3>1, <4>2 DEF DebouncedRelease, CountInv, Found, Longs, Unheard
        <4>3. QED
          BY <4>1, <4>2
      <3>4. Released'
        BY <3>2, <3>3 DEF Released
      <3>5. samples' >= 2 => counter' = 0
        BY <2>1, <2>2, <3>2
      <3>6. QED
        BY <1>1, <3>2, <3>3, <3>4, <3>5 DEF UpInv, CountInv
    <2>4. CASE ~SeesRelease(h)
      <3>1. Otherwise(0, h)
        BY <1>3, <2>4 DEF Reads, DebouncedPress, DebouncedRelease
      <3>2. counter' = 0 /\ history' = h /\ UNCHANGED <<pressed, got>>
        BY <3>1 DEF Otherwise
      <3>3. samples # 2
        BY <1>2, <2>1, <2>4 DEF SeesRelease
      <3>4. samples' <= 2
        BY <2>1, <2>2, <3>3
      <3>5. \A i \in 1 .. 8 : /\ i <= 5 - samples' => h[i] = 1
                              /\ i > 8 - samples' => h[i] = 0
        <4> SUFFICES ASSUME NEW i \in 1 .. 8
                     PROVE  (i <= 5 - samples' => h[i] = 1) /\ (i > 8 - samples' => h[i] = 0)
          OBVIOUS
        <4>1. CASE i = 8
          BY <1>2, <2>1, <2>2, <4>1
        <4>2. CASE i \in 1 .. 7
          <5>1. h[i] = history[i + 1] /\ i + 1 \in 1 .. 8
            BY <1>1, <4>2 DEF Slides
          <5>2. (i <= 5 - samples' => i + 1 <= 5 - samples) /\ (i > 8 - samples' => i + 1 > 8 - samples)
            BY <2>1, <2>2
          <5>3. QED
            BY <2>1, <5>1, <5>2
        <4>3. QED
          BY <4>1, <4>2
      <3>6. Found'
        BY <2>1, <3>2 DEF Found
      <3>7. UpInv'
        BY <3>2, <3>4, <3>5, <3>6 DEF UpInv
      <3>8. CountInv'
        <4>1. pressed' => got' = "nothing" /\ counter' + 3 <= held'
          <5>1. pressed => got = "nothing" /\ counter + 3 <= held
            BY <1>1 DEF CountInv
          <5>2. held' >= held /\ counter \in Nat /\ held \in Nat /\ held' \in Nat
            BY <1>1, Bounds DEF Reads, SampleTypes, MaxTicks
          <5>3. counter + 3 <= held => 0 + 3 <= held'
            BY <5>2
          <5>4. QED
            BY <3>2, <5>1, <5>3
        <4>2. QED
          BY <1>1, <3>2, <4>1 DEF CountInv
      <3>9. QED
        BY <3>7, <3>8
    <2>5. QED
      BY <2>3, <2>4
  <1>6. QED
    BY <1>4, <1>5

\* While nothing but a few highs were seen, a sample is one more or finds the press.
LEMMA SampleUnseen ==
  ASSUME SampleTypes, CountInv, longPress \in 0 .. LongMs, contact \in {"closing", "down"},
         Unseen, held <= 5,
         NEW btn \in {0, 1}, NEW bit \in {0, 1}, NEW h \in [1 .. 8 -> {0, 1}], Reads(btn, bit, h)
  PROVE  /\ CountInv'
         /\ held' = held + 1 /\ counter' = 0
         /\ \/ Unseen' /\ history' = h /\ ~SeesPress(h)
            \/ pressed' /\ history' = AllBits(1) /\ held >= 2 /\ SeesPress(h)
  <1>1. Slides(h, bit) /\ UNCHANGED contact
    BY DEF Reads
  <1>2. ~pressed /\ got = "nothing" /\ counter = 0
        /\ \A i \in 1 .. 8 : i <= 8 - held => history[i] = 0
    BY DEF Unseen, CountInv, Released
  <1>3. held \in Nat /\ held' = held + 1
    BY Bounds DEF Reads, SampleTypes, MaxTicks
  <1>4. h[1] = 0 /\ h[2] = 0 /\ h[6] = history[7]
    BY <1>1, <1>2, <1>3 DEF Slides
  <1>5. ~SeesRelease(h) /\ ~LongPress(btn, h) /\ ~StillPressed(btn, h)
    <2>1. ~(counter > longPress)
      BY <1>2, Bounds
    <2>2. ~SeesRelease(h)
      BY <1>4 DEF SeesRelease
    <2>3. QED
      BY <1>2, <2>1, <2>2 DEF LongPress, StillPressed
  <1>6. CASE SeesPress(h)
    <2>1. DebouncedPress(btn, h)
      BY <1>5, <1>6 DEF Reads, DebouncedRelease
    <2>2. pressed' = TRUE /\ history' = AllBits(1) /\ counter' = 0 /\ got' = "nothing"
      BY <1>2, <2>1 DEF DebouncedPress
    <2>3. held >= 2
      BY <1>2, <1>3, <1>4, <1>6 DEF SeesPress
    <2>4. QED
      BY <1>3, <1>6, <2>2, <2>3 DEF CountInv
  <1>7. CASE ~SeesPress(h)
    <2>1. Otherwise(btn, h)
      BY <1>5, <1>7 DEF Reads, DebouncedPress, DebouncedRelease
    <2>2. counter' = 0 /\ history' = h /\ UNCHANGED <<pressed, got>>
      BY <2>1 DEF Otherwise
    <2>3. \A i \in 1 .. 8 : i <= 8 - held' => h[i] = 0
      <3> SUFFICES ASSUME NEW i \in 1 .. 8, i <= 8 - held' PROVE h[i] = 0
        OBVIOUS
      <3>1. i \in 1 .. 7 /\ i + 1 \in 1 .. 8 /\ i + 1 <= 8 - held
        BY <1>3
      <3>2. QED
        BY <1>1, <1>2, <3>1 DEF Slides
    <2>4. Unseen'
      BY <1>2, <2>2, <2>3 DEF Unseen
    <2>5. QED
      BY <1>2, <1>3, <1>7, <2>2, <2>4 DEF CountInv
  <1>8. QED
    BY <1>6, <1>7

LEMMA SampleClosing ==
  ASSUME PressInv, contact = "closing", longPress \in 0 .. LongMs,
         NEW btn \in {0, 1}, NEW bit \in {0, 1}, NEW h \in [1 .. 8 -> {0, 1}], Reads(btn, bit, h)
  PROVE  ClosingInv' /\ CountInv'
  <1>1. SampleTypes /\ CountInv /\ ClosingInv
    BY DEF PressInv, WindowInv
  <1>2. MaxBounce \in Nat /\ MaxBounce <= 3 /\ samples \in Nat
    BY <1>1, ButtonAssumption DEF SampleTypes
  <1>3. samples < 3 /\ held = samples /\ Unseen
    BY <1>1, <1>2 DEF Reads, Moving, ClosingInv
  <1>4. samples' = samples + 1
    BY <1>2, <1>3, Bounds DEF Reads, MaxTicks
  <1>5. held <= 5
    BY <1>2, <1>3
  <1>6. /\ CountInv' /\ held' = held + 1
        /\ \/ Unseen'
           \/ pressed' /\ history' = AllBits(1) /\ held >= 2
    BY <1>1, <1>3, <1>5, SampleUnseen
  <1>7. held' = samples' /\ samples' <= 3 /\ (held >= 2 => samples' = 3)
    BY <1>2, <1>3, <1>4, <1>6
  <1>8. QED
    BY <1>6, <1>7 DEF ClosingInv

\* Once the press has been found, samples that are not a release count on, or
\* report it as a long one.
LEMMA SampleFound ==
  ASSUME SampleTypes, CountInv, longPress \in 0 .. LongMs, Found, history # AllBits(0),
         NEW btn \in {0, 1}, NEW bit \in {0, 1}, NEW h \in [1 .. 8 -> {0, 1}], Reads(btn, bit, h),
         ~SeesPress(h), ~SeesRelease(h)
  PROVE  /\ CountInv' /\ Found' /\ history' = h
         /\ pressed' /\ btn = 1 => counter' = counter + 1
  <1>1. ~Released
    BY DEF Released
  <1>2. counter \in Nat /\ held \in Nat /\ LongMs \in Nat /\ counter <= LongMs + 1
        /\ longPress \in Nat /\ longPress <= LongMs
    BY Bounds DEF SampleTypes
  <1>3. /\ held' \in Nat /\ held' >= held
        /\ held >= LongMs + 4 => held' >= LongMs + 4
        /\ held < LongMs + 4 => held' = held + 1
    BY <1>2 DEF Reads, MaxTicks
  <1>4. CASE LongPress(btn, h)
    <2>1. pressed /\ got = "nothing"
      BY <1>1, <1>4, LongIsPressed DEF LongPress
    <2>2. got' \in Longs /\ got' # "twice"
      BY <1>4, <2>1, Reported DEF LongPress, Kinds
    <2>3. pressed' = FALSE /\ counter' = 0 /\ history' = h
      BY <1>4 DEF LongPress
    <2>4. QED
      BY <2>2, <2>3 DEF CountInv, Found
  <1>5. CASE StillPressed(btn, h)
    <2>1. /\ pressed /\ ~(btn = 1 /\ counter > longPress) /\ btn = 1
          /\ counter' = counter + 1 /\ history' = h /\ UNCHANGED <<pressed, got>>
      BY <1>5 DEF StillPressed
    <2>2. pressed /\ got = "nothing" /\ counter + 3 <= held
      BY <2>1 DEF CountInv
    <2>3. counter <= LongMs
      BY <1>2, <2>1
    <2>4. counter + 1 + 3 <= held'
      BY <1>2, <1>3, <2>2, <2>3
    <2>5. QED
      BY <2>1, <2>2, <2>4 DEF CountInv, Found
  <1>6. CASE Otherwise(btn, h)
    <2>1. ~(btn = 1 /\ pressed) /\ counter' = 0 /\ history' = h /\ UNCHANGED <<pressed, got>>
      BY <1>6 DEF Otherwise
    <2>2. pressed => got = "nothing" /\ counter + 3 <= held
      BY DEF CountInv
    <2>3. counter + 3 <= held => 0 + 3 <= held'
      BY <1>2, <1>3
    <2>4. got' # "twice"
      BY <2>1 DEF CountInv
    <2>5. QED
      BY <2>1, <2>2, <2>3, <2>4 DEF CountInv, Found
  <1>7. QED
    BY <1>4, <1>5, <1>6 DEF Reads, DebouncedPress, DebouncedRelease

LEMMA SampleDown ==
  ASSUME PressInv, contact = "down", longPress \in 0 .. LongMs,
         NEW h \in [1 .. 8 -> {0, 1}], Reads(1, 1, h)
  PROVE  DownInv' /\ CountInv'
  <1>1. Slides(h, 1) /\ SampleTypes /\ CountInv /\ DownInv
    BY DEF Reads, PressInv, WindowInv
  <1>2. samples \in Nat /\ counter \in Nat /\ held \in Nat
    BY <1>1, Bounds DEF SampleTypes
  <1>3. samples' \in Nat /\ samples' <= samples + 1
    BY <1>2, Bounds DEF Reads, MaxTicks
  <1>4. CASE Found /\ history = AllBits(1) /\ (pressed => samples <= counter + 3)
    <2>1. \A i \in 1 .. 8 : history[i] = 1
      BY <1>4, AllBitsAre
    <2>2. \A i \in 1 .. 8 : h[i] = 1
      BY <1>1, <2>1 DEF Slides
    <2>3. h = AllBits(1) /\ ~SeesPress(h) /\ ~SeesRelease(h)
      BY <2>2, AllBitsAre DEF SeesPress, SeesRelease
    <2>4. history # AllBits(0)
      BY <2>1, AllBitsAre
    <2>5. /\ CountInv' /\ Found' /\ history' = h
          /\ pressed' => counter' = counter + 1
      BY <1>1, <1>4, <2>3, <2>4, SampleFound
    <2>6. pressed' => pressed
      <3>1. ~DebouncedPress(1, h)
        BY <2>3 DEF DebouncedPress
      <3>2. QED
        BY <3>1 DEF Reads, DebouncedRelease, LongPress, StillPressed, Otherwise
    <2>7. samples <= counter + 3 => samples' <= counter + 1 + 3
      BY <1>2, <1>3
    <2>8. pressed' => samples' <= counter' + 3
      BY <1>4, <2>5, <2>6, <2>7
    <2>9. QED
      BY <2>3, <2>5, <2>8 DEF DownInv
  <1>5. CASE /\ Unseen
             /\ samples <= 2 /\ held <= samples + 3
             /\ \A i \in 1 .. 8 : i > 8 - samples => history[i] = 1
    <2>1. held <= 5 /\ samples' = samples + 1
      BY <1>2, <1>5, Bounds DEF Reads, MaxTicks
    <2>2. /\ CountInv' /\ held' = held + 1 /\ counter' = 0
          /\ \/ Unseen' /\ history' = h /\ ~SeesPress(h)
             \/ pressed' /\ history' = AllBits(1)
      BY <1>1, <1>5, <2>1, SampleUnseen
    <2>3. CASE pressed' /\ history' = AllBits(1)
      <3>1. samples' <= counter' + 3
        BY <1>2, <1>5, <2>1, <2>2
      <3>2. QED
        BY <2>2, <2>3, <3>1 DEF DownInv, Found
    <2>4. CASE Unseen' /\ history' = h /\ ~SeesPress(h)
      <3>1. samples # 2
        <4> SUFFICES ASSUME samples = 2 PROVE SeesPress(h)
          BY <2>4
        <4>1. h[1] = history[2] /\ h[2] = history[3] /\ h[6] = history[7] /\ h[7] = history[8]
              /\ h[8] = 1
          BY <1>1 DEF Slides
        <4>2. history[2] = 0 /\ history[3] = 0
          BY <1>2, <1>5, <2>1 DEF Unseen
        <4>3. history[7] = 1 /\ history[8] = 1
          BY <1>5
        <4>4. QED
          BY <4>1, <4>2, <4>3 DEF SeesPress
      <3>2. samples' <= 2 /\ held' <= samples' + 3
        BY <1>2, <1>5, <2>1, <2>2, <3>1
      <3>3. \A i \in 1 .. 8 : i > 8 - samples' => h[i] = 1
        <4> SUFFICES ASSUME NEW i \in 1 .. 8, i > 8 - samples' PROVE h[i] = 1
          OBVIOUS
        <4>1. CASE i = 8
          BY <1>1, <4>1 DEF Slides
        <4>2. CASE i \in 1 .. 7
          <5>1. i + 1 \in 1 .. 8 /\ i + 1 > 8 - samples
            BY <1>2, <2>1, <4>2
          <5>2. QED
            BY <1>1, <1>5, <4>2, <5>1 DEF Slides
        <4>3. QED
          BY <4>1, <4>2
      <3>4. QED
        BY <2>2, <2>4, <3>2, <3>3 DEF DownInv
    <2>5. QED
      BY <2>2, <2>3, <2>4
  <1>6. QED
    BY <1>1, <1>4, <1>5 DEF DownInv

LEMMA SampleOpening ==
  ASSUME PressInv, contact = "opening", longPress \in 0 .. LongMs,
         NEW btn \in {0, 1}, NEW bit \in {0, 1}, NEW h \in [1 .. 8 -> {0, 1}], Reads(btn, bit, h)
  PROVE  OpeningInv' /\ CountInv'
  <1>1. Slides(h, bit) /\ contact' = "opening" /\ SampleTypes /\ CountInv /\ OpeningInv
    BY DEF Reads, PressInv, WindowInv
  <1>2. MaxBounce \in Nat /\ MaxBounce <= 3 /\ samples \in Nat
    BY <1>1, ButtonAssumption DEF SampleTypes
  <1>3. samples < 3
    BY <1>2 DEF Reads, Moving
  <1>4. samples' = samples + 1
    BY <1>2, <1>3, Bounds DEF Reads, MaxTicks
  <1>5. Found /\ \A i \in 1 .. 8 : i <= 8 - samples => history[i] = 1
    BY <1>1, <1>2, <1>3 DEF OpeningInv
  <1>6. h[1] = 1 /\ h[6] = history[7] /\ history[1] = 1
    BY <1>1, <1>2, <1>3, <1>5 DEF Slides
  <1>7. ~SeesPress(h) /\ history # AllBits(0)
    BY <1>6, AllBitsAre DEF SeesPress
  <1>8. CASE SeesRelease(h)
    <2>1. DebouncedRelease(btn, h)
      BY <1>7, <1>8 DEF Reads, DebouncedPress
    <2>2. pressed' = FALSE /\ history' = AllBits(0) /\ UNCHANGED counter
      BY <2>1 DEF DebouncedRelease
    <2>3. got' # "twice" /\ got' # "nothing"
      <3>1. CASE pressed
        BY <1>1, <2>1, <3>1, Reported DEF DebouncedRelease, CountInv, Kinds
      <3>2. CASE ~pressed
        BY <1>1, <1>5, <2>1, <3>2 DEF DebouncedRelease, CountInv, Found, Longs, Unheard
      <3>3. QED
        BY <3>1, <3>2
    <2>4. history[7] = 0
      BY <1>6, <1>8 DEF SeesRelease
    <2>5. samples = 2
      BY <1>2, <1>3, <1>5, <2>4
    <2>6. Released' /\ samples' = 3
      BY <1>4, <2>2, <2>3, <2>5 DEF Released
    <2>7. QED
      BY <1>1, <2>2, <2>3, <2>6 DEF OpeningInv, CountInv
  <1>9. CASE ~SeesRelease(h)
    <2>1. CountInv' /\ Found' /\ history' = h
      BY <1>1, <1>5, <1>7, <1>9, SampleFound
    <2>2. \A i \in 1 .. 8 : i <= 8 - samples' => h[i] = 1
      <3> SUFFICES ASSUME NEW i \in 1 .. 8, i <= 8 - samples' PROVE h[i] = 1
        OBVIOUS
      <3>1. i \in 1 .. 7 /\ i + 1 \in 1 .. 8 /\ i + 1 <= 8 - samples
        BY <1>2, <1>4
      <3>2. QED
        BY <1>1, <1>5, <3>1 DEF Slides
    <2>3. samples' <= 3
      BY <1>2, <1>3, <1>4
    <2>4. QED
      BY <2>1, <2>2, <2>3 DEF OpeningInv
  <1>10. QED
    BY <1>8, <1>9

-------------------------------------------------------------------------------
(* ... and the whole of it *)

LEMMA SampleIdleInv ==
  ASSUME PressInv, longPress \in 0 .. LongMs,
         NEW btn \in Level, NEW bit \in Level, NEW h \in [1 .. 8 -> {0, 1}], Reads(btn, bit, h)
  PROVE  IdleInv'
  <1>1. btn \in {0, 1} /\ contact' = contact /\ SampleTypes /\ IdleInv
    BY LevelIs DEF Reads, PressInv
  <1>2. idle' \in Nat /\ idle' <= idle + 1 /\ (btn = 1 => idle' <= 1) /\ idle \in Nat
    BY <1>1, SampleIdle, Bounds DEF SampleTypes
  <1>3. samples \in Nat /\ (samples <= 3 => samples' = samples + 1)
    BY <1>1, Bounds DEF Reads, SampleTypes, MaxTicks
  <1>4. CASE contact = "down"
    BY <1>1, <1>2, <1>4, LevelIs DEF IdleInv
  <1>5. CASE contact = "opening"
    <2>1. samples <= 3 /\ idle <= 1 + samples
      BY <1>1, <1>5 DEF PressInv, WindowInv, OpeningInv, IdleInv
    <2>2. idle' <= 1 + samples'
      BY <1>2, <1>3, <2>1
    <2>3. QED
      BY <1>1, <1>5, <2>2 DEF IdleInv
  <1>6. CASE contact = "up"
    <2>1. CASE pressed
      <3>1. samples <= 2 /\ idle <= 4 + samples
        BY <1>1, <1>6, <2>1 DEF PressInv, WindowInv, UpInv, Released, IdleInv
      <3>2. idle' <= 4 + samples'
        BY <1>2, <1>3, <3>1
      <3>3. QED
        BY <1>1, <1>6, <3>2 DEF IdleInv
    <2>2. CASE ~pressed
      <3>1. ~SeesPress(h)
        BY <1>6, LevelIs DEF Reads, Slides, SeesPress
      <3>2. ~pressed'
        BY <2>2, <3>1 DEF Reads, DebouncedPress, DebouncedRelease, LongPress, StillPressed, Otherwise
      <3>3. QED
        BY <1>1, <1>6, <3>2 DEF IdleInv
    <2>3. QED
      BY <2>1, <2>2
  <1>7. CASE contact = "closing"
    BY <1>1, <1>7 DEF IdleInv
  <1>8. QED
    BY <1>1, <1>4, <1>5, <1>6, <1>7 DEF SampleTypes

LEMMA SampleWindow ==
  ASSUME PressInv, longPress \in 0 .. LongMs,
         NEW btn \in Level, NEW bit \in Level, NEW h \in [1 .. 8 -> {0, 1}], Reads(btn, bit, h)
  PROVE  WindowInv' /\ CountInv'
  <1>1. contact' = contact /\ btn \in {0, 1} /\ bit \in {0, 1}
        /\ contact \in {"up", "closing", "down", "opening"}
    BY LevelIs DEF Reads, PressInv, SampleTypes
  <1>2. CASE contact = "up"
    BY <1>1, <1>2, SampleUp, LevelIs DEF WindowInv
  <1>3. CASE contact = "closing"
    BY <1>1, <1>3, SampleClosing DEF WindowInv
  <1>4. CASE contact = "down"
    BY <1>1, <1>4, SampleDown, LevelIs DEF WindowInv
  <1>5. CASE contact = "opening"
    BY <1>1, <1>5, SampleOpening DEF WindowInv
  <1>6. QED
    BY <1>1, <1>2, <1>3, <1>4, <1>5

\* What a sample detects is a detection.
LEMMA SampleGot ==
  ASSUME PressInv, longPress \in 0 .. LongMs,
         NEW btn \in Level, NEW bit \in Level, NEW h \in [1 .. 8 -> {0, 1}], Reads(btn, bit, h)
  PROVE  got' \in Detections
  <1>1. got \in Detections
    BY DEF PressInv, SampleTypes
  <1>2. \A e \in Kinds : Report(e) => got' \in Detections
    BY Reported DEF Report, Detections
  <1>3. UNCHANGED got \/ \E e \in Kinds : Report(e)
    BY DEF Reads, DebouncedPress, DebouncedRelease, LongPress, StillPressed, Otherwise, Kinds
  <1>4. QED
    BY <1>1, <1>2, <1>3

LEMMA PressSample ==
  ASSUME PressInv, longPress \in 0 .. LongMs, Sample
  PROVE  PressInv'
  <1>1. PICK btn \in Level, bit \in Level, h \in [1 .. 8 -> {0, 1}] : Reads(btn, bit, h)
    BY SampleReads
  <1>2. btn \in {0, 1} /\ SampleTypes /\ contact' = contact
    BY <1>1, LevelIs DEF PressInv, Reads
  <1>3. WindowInv' /\ CountInv'
    BY <1>1, SampleWindow
  <1>4. IdleInv'
    BY <1>1, SampleIdleInv
  <1>5. history' \in [1 .. 8 -> {0, 1}]
    BY <1>1, AllBitsAre
       DEF Reads, DebouncedPress, DebouncedRelease, LongPress, StillPressed, Otherwise
  <1>6. pressed' \in BOOLEAN
    BY <1>1, <1>2 DEF SampleTypes, Reads, DebouncedPress, DebouncedRelease, LongPress, StillPressed,
       Otherwise
  <1>7. got' \in Detections
    BY <1>1, SampleGot
  <1>8. counter' \in 0 .. (LongMs + 1) /\ samples' \in 0 .. MaxTicks /\ held' \in 0 .. (2 * MaxTicks)
    BY <1>1, <1>2, SampleCounter
  <1>9. idle' \in 0 .. (IdleWrap - 1)
    BY <1>1, <1>2, SampleIdle
  <1>10. SampleTypes'
    BY <1>2, <1>5, <1>6, <1>7, <1>8, <1>9 DEF SampleTypes
  <1>11. QED
    BY <1>3, <1>4, <1>10 DEF PressInv

-------------------------------------------------------------------------------
(* The thresholds *)

LEMMA ThresholdInit == Init => ThresholdInv
  <1> SUFFICES ASSUME Init PROVE ThresholdInv
    OBVIOUS
  <1>1. period \in Nat \ {0} /\ period \in Periods /\ LongMs \in Nat
    BY PeriodicAssumption, ButtonAssumption DEF Init, TimerInit
  <1>2. longPress \in Nat /\ longPress * period <= LongMs /\ longPress <= LongMs
    BY <1>1, DivBound DEF Init
  <1>3. app.at # "threshold"
    BY DEF Init, Idle
  <1>4. longPress \in 0 .. LongMs
    BY <1>1, <1>2
  <1>5. QED
    BY <1>1, <1>2, <1>3, <1>4 DEF ThresholdInv

LEMMA ThresholdUntouched ==
  ASSUME ThresholdInv, UNCHANGED <<period, longPress>>,
         UNCHANGED app \/ (app.at # "threshold" /\ app'.at # "threshold")
  PROVE  ThresholdInv'
  BY DEF ThresholdInv

\* A threshold in ms is divided by the period that is then in force.
LEMMA ThresholdSet ==
  ASSUME ThresholdInv, NEW ms \in 0 .. LongMs, longPress' = ms \div period, UNCHANGED period,
         app'.at # "threshold"
  PROVE  ThresholdInv'
  <1>1. period \in Nat \ {0} /\ LongMs \in Nat /\ ms \in Nat /\ ms <= LongMs
    BY PeriodicAssumption, ButtonAssumption DEF ThresholdInv
  <1>2. ms \div period \in Nat /\ (ms \div period) * period <= ms /\ ms \div period <= ms
    BY <1>1, DivBound
  <1> DEFINE q == ms \div period
  <1> HIDE DEF q
  <1>3. q \in Nat /\ q * period <= ms /\ q <= ms
    BY <1>2 DEF q
  <1> DEFINE r == q * period
  <1>4. r \in Nat /\ r <= ms
    BY <1>1, <1>3
  <1> HIDE DEF r
  <1>5. r <= LongMs /\ q \in 0 .. LongMs
    BY <1>1, <1>3, <1>4
  <1>6. q * period <= LongMs
    BY <1>5 DEF r
  <1>7. QED
    BY <1>5, <1>6 DEF ThresholdInv, q

LEMMA ThresholdNext ==
  ASSUME CallsInv, ThresholdInv, [Next]_vars
  PROVE  ThresholdInv'
  <1>1. CASE UNCHANGED vars
    BY <1>1, ThresholdUntouched DEF vars, config, timerVars
  <1>2. CASE Tick \/ ContactMoves
    BY <1>2, ThresholdUntouched DEF Tick, Alarm, Sample, ContactMoves, config, timerVars
  <1>3. ASSUME NEW p \in Periods, SetPollPeriod(p)
        PROVE  ThresholdInv'
    <2>1. app.at # "threshold" /\ app'.at = "threshold" /\ app'.ms = longPress * period
          /\ period' = p /\ UNCHANGED longPress
      BY <1>3 DEF SetPollPeriod, SetDelay, Idle
    <2>2. longPress * period <= LongMs /\ longPress \in 0 .. LongMs /\ period \in Nat
          /\ LongMs \in Nat
      BY <2>1, PeriodicAssumption, ButtonAssumption DEF ThresholdInv
    <2>3. longPress * period \in Nat
      BY <2>2
    <2>4. longPress * period \in 0 .. LongMs
      BY <2>2, <2>3
    <2>5. QED
      BY <2>1, <2>2, <2>4 DEF ThresholdInv
  <1>4. CASE SetThreshold
    <2>1. app.ms \in 0 .. LongMs
      BY <1>4 DEF SetThreshold, ThresholdInv
    <2>2. longPress' = app.ms \div period /\ UNCHANGED period /\ app'.at # "threshold"
      BY <1>4 DEF SetThreshold, timerVars, Idle
    <2>3. QED
      BY <2>1, <2>2, ThresholdSet
  <1>5. ASSUME NEW ms \in ShorterMs, SetLongPress(ms)
        PROVE  ThresholdInv'
    <2>1. ms \in 0 .. LongMs
      BY ButtonAssumption
    <2>2. longPress' = ms \div period /\ UNCHANGED period /\ app'.at # "threshold"
      BY <1>5 DEF SetLongPress, timerVars, Idle
    <2>3. QED
      BY <2>1, <2>2, ThresholdSet
  <1>6. ASSUME \/ \E k \in Kinds : BeginSet(k) \/ BeginClear(k)
               \/ StopAgain \/ SetHandler \/ ClearHandler
        PROVE  ThresholdInv'
    <2>1. UNCHANGED <<period, longPress>>
      BY <1>6 DEF BeginSet, BeginClear, StopAgain, SetHandler, ClearHandler, Start, Stop
    <2>2. app.at # "threshold"
      BY <1>6 DEF BeginSet, BeginClear, StopAgain, SetHandler, ClearHandler, Idle
    <2>3. app'.at # "threshold"
      <3>1. CASE \E k \in Kinds : BeginSet(k) \/ BeginClear(k)
        BY <3>1 DEF BeginSet, BeginClear
      <3>2. CASE app' = Idle
        BY <3>2 DEF Idle
      <3>3. CASE \E place \in {"stop", "set"} : app' = [app EXCEPT !.at = place]
                   /\ app.at \in {"stop", "clear"}
        <4>1. app \in Calls
          BY <3>3 DEF CallsInv, AppTypeOK, Idle
        <4>2. QED
          BY <3>3, <4>1, CallMoves
      <3>4. QED
        BY <1>6, <3>1, <3>2, <3>3 DEF StopAgain, SetHandler, ClearHandler
    <2>4. QED
      BY <2>1, <2>2, <2>3, ThresholdUntouched
  <1>7. QED
    BY <1>1, <1>2, <1>3, <1>4, <1>5, <1>6 DEF Next

LEMMA PressNext ==
  ASSUME PressInv, ThresholdInv, [Next]_vars
  PROVE  PressInv'
  <1>1. CASE Tick
    BY <1>1, PressSample DEF Tick, Alarm, ThresholdInv
  <1>2. CASE ContactMoves
    BY <1>2, PressContactMoves
  <1>3. CASE ~Tick /\ ~ContactMoves
    <2>1. UNCHANGED pressVars
      BY <1>3 DEF Next, vars, pressVars, Unsampled, SetPollPeriod, SetThreshold, SetLongPress,
         BeginSet, BeginClear, StopAgain, SetHandler, ClearHandler
    <2>2. QED
      BY <2>1, PressUntouched
  <1>4. QED
    BY <1>1, <1>2, <1>3

-------------------------------------------------------------------------------
(* The theorems about presses *)

\* The flags the calls write.
CallTypes == polling \in BOOLEAN /\ loop \in BOOLEAN /\ longTouched \in BOOLEAN

LEMMA CallTypesInit == Init => CallTypes
  BY DEF Init, TimerInit, CallTypes

LEMMA CallTypesNext ==
  ASSUME CallTypes, CallsInv, [Next]_vars
  PROVE  CallTypes'
  <1>1. polling' = polling \/ polling' \in BOOLEAN
    BY DEF Next, vars, config, timerVars, Tick, Alarm, Sample, ContactMoves, SetPollPeriod, SetDelay,
       SetThreshold, SetLongPress, BeginSet, BeginClear, StopAgain, SetHandler, ClearHandler,
       Start, Stop
  <1>2. loop' = loop \/ loop' \in BOOLEAN
    BY DEF Next, vars, config, handlers, Tick, Alarm, Sample, ContactMoves, SetPollPeriod,
       SetThreshold, SetLongPress, BeginSet, BeginClear, StopAgain, SetHandler, ClearHandler,
       CreateCustomEventLoop, ClearCustomEventLoop
  <1>3. longTouched' = longTouched \/ longTouched' \in BOOLEAN
    BY DEF Next, vars, config, handlers, Tick, Alarm, Sample, ContactMoves, SetPollPeriod,
       SetThreshold, SetLongPress, BeginSet, BeginClear, StopAgain, SetHandler, ClearHandler,
       CallTypes
  <1>4. QED
    BY <1>1, <1>2, <1>3 DEF CallTypes

ButtonInv == CallsInv /\ CallTypes /\ PressInv /\ ThresholdInv

\* The inductive invariant: what the calls, the thresholds, the history, the
\* counters and the contact owe each other in every reachable state, for any
\* periods, thresholds, sleep time and any bouncing of up to three samples.
THEOREM ButtonCorrect == Spec => []ButtonInv
  <1>1. Init => ButtonInv
    BY CallsInit, CallTypesInit, PressInit, ThresholdInit DEF ButtonInv
  <1>2. ButtonInv /\ [Next]_vars => ButtonInv'
    BY CallsNext, CallTypesNext, PressNext, ThresholdNext DEF ButtonInv
  <1>3. QED
    BY <1>1, <1>2, PTL DEF Spec

\* Every variable keeps its type: the counter never passes the longest
\* threshold by more than one sample, whatever is set while it counts.
THEOREM ButtonTypes == Spec => []TypeOK
  <1>1. ButtonInv => TypeOK
    <2> SUFFICES ASSUME ButtonInv PROVE TypeOK
      OBVIOUS
    <2>1. app.at \in {"idle", "threshold", "stop", "set", "clear"}
          /\ handlerSet \in [Kinds -> BOOLEAN]
      BY DEF ButtonInv, CallsInv, AppTypeOK, Calls, Idle
    <2>2. {polling, loop, longTouched} \subseteq BOOLEAN
      BY DEF ButtonInv, CallTypes
    <2>3. QED
      BY <2>1, <2>2 DEF ButtonInv, PressInv, SampleTypes, ThresholdInv, TypeOK
  <1>2. QED
    BY <1>1, ButtonCorrect, PTL

\* A contact that bounces for at most three samples and then rests is detected
\* exactly once for each time it was closed (buttonTask.cpp: timerCallback),
\* however the period and the threshold are changed meanwhile.
THEOREM OneReportPerPressHolds == Spec => []OneReportPerPress
  <1>1. ButtonInv => OneReportPerPress
    BY DEF ButtonInv, PressInv, SampleTypes, MaxTicks, WindowInv, UpInv, Released, CountInv,
       OneReportPerPress
  <1>2. QED
    BY <1>1, ButtonCorrect, PTL

\* A button held down for the longest threshold is detected as long before it
\* is released, whatever periods and thresholds were set meanwhile.
THEOREM HeldIsLongHolds == Spec => []HeldIsLong
  <1>1. ButtonInv => HeldIsLong
    <2> SUFFICES ASSUME ButtonInv, contact = "down", samples = MaxTicks PROVE got \in Longs
      BY DEF HeldIsLong
    <2>1. DownInv /\ SampleTypes
      BY DEF ButtonInv, PressInv, WindowInv
    <2>2. samples = LongMs + 6 /\ LongMs \in Nat /\ counter \in Nat /\ counter <= LongMs + 1
      BY <2>1, Bounds DEF MaxTicks, SampleTypes
    <2>3. ~(samples <= 2) /\ ~(samples <= counter + 3)
      BY <2>2
    <2>4. QED
      BY <2>1, <2>3 DEF DownInv, Found
  <1>2. QED
    BY <1>1, ButtonCorrect, PTL

\* The application is not told to sleep between the closing of the contact and
\* the report of the press, nor while the button is held (canSleep).
THEOREM SleepsOnlyAfterReportHolds == Spec => []SleepsOnlyAfterReport
  <1>1. ButtonInv => SleepsOnlyAfterReport
    <2> SUFFICES ASSUME ButtonInv, CanSleep
                 PROVE  \/ contact = "closing"
                        \/ contact = "down" /\ samples = 0
                        \/ contact \in {"opening", "up"} /\ ~pressed
      BY DEF SleepsOnlyAfterReport
    <2>1. SampleTypes /\ WindowInv /\ IdleInv
      BY DEF ButtonInv, PressInv
    <2>2. idle \in Nat /\ samples \in Nat /\ idle > 7
      <3>1. period \in Periods
        BY DEF ButtonInv, ThresholdInv
      <3>2. SleepMs \div period \in Nat /\ SleepMs \div period >= 7
        BY <3>1, Bounds
      <3>3. idle \in Nat /\ samples \in Nat
        BY <2>1, Bounds DEF SampleTypes
      <3>4. QED
        BY <3>2, <3>3 DEF CanSleep
    <2>3. CASE contact = "down"
      BY <2>1, <2>2, <2>3 DEF IdleInv
    <2>4. CASE contact = "opening"
      BY <2>1, <2>2, <2>4 DEF IdleInv, WindowInv, OpeningInv
    <2>5. CASE contact = "up"
      BY <2>1, <2>2, <2>5 DEF IdleInv, WindowInv, UpInv, Released
    <2>6. QED
      BY <2>1, <2>3, <2>4, <2>5 DEF SampleTypes
  <1>2. QED
    BY <1>1, ButtonCorrect, PTL

\* A button is only detected as long when its contact has been closed for the
\* three samples of the debouncing and then longer than the threshold in force.
THEOREM LongWasHeldHolds == Spec => LongWasHeld
  <1>1. ASSUME ButtonInv, Next, got' \in Longs, got \notin Longs
        PROVE  held > longPress + 3
    <2>1. CASE Tick
      <3>1. PressInv /\ longPress \in 0 .. LongMs
        BY <1>1 DEF ButtonInv, ThresholdInv
      <3>2. PICK btn \in Level, bit \in Level, h \in [1 .. 8 -> {0, 1}] : Reads(btn, bit, h)
        BY <2>1, <3>1, SampleReads DEF Tick, Alarm
      <3>3. CASE LongPress(btn, h) /\ ~SeesRelease(h)
        <4>1. counter > longPress /\ btn = 1
          BY <3>3 DEF LongPress
        <4>2. ~(Released /\ contact \in {"opening", "up"})
          <5>1. CASE contact = "up"
            BY <4>1, <5>1, LevelIs
          <5>2. CASE contact = "opening"
            <6>1. samples < 3
              BY <3>1, <3>2, <5>2, ButtonAssumption DEF Reads, Moving, PressInv, SampleTypes, MaxTicks
            <6>2. history[1] = 1
              BY <3>1, <5>2, <6>1 DEF PressInv, SampleTypes, MaxTicks, WindowInv, OpeningInv
            <6>3. QED
              BY <6>2, AllBitsAre DEF Released
          <5>3. QED
            BY <5>1, <5>2
        <4>3. counter + 3 <= held
          BY <3>1, <4>1, <4>2, LongIsPressed DEF PressInv
        <4>4. counter \in Nat /\ held \in Nat /\ longPress \in Nat
          BY <3>1, Bounds DEF PressInv, SampleTypes, MaxTicks
        <4>5. QED
          BY <4>1, <4>3, <4>4
      <3>4. CASE DebouncedRelease(btn, h)
        <4>1. pressed /\ Report("SHORT")
          BY <1>1, <3>4 DEF DebouncedRelease
        <4>2. got = "nothing"
          BY <3>1, <4>1 DEF PressInv, CountInv
        <4>3. QED
          BY <1>1, <4>1, <4>2, Reported DEF Kinds
      <3>5. QED
        BY <1>1, <3>2, <3>3, <3>4 DEF Reads, DebouncedPress, StillPressed, Otherwise
    <2>2. CASE ContactMoves
      <3>1. got' = got \/ got' = "nothing"
        BY <2>2 DEF ContactMoves
      <3>2. QED
        BY <1>1, <3>1 DEF Longs, Unheard
    <2>3. CASE ~Tick /\ ~ContactMoves
      BY <1>1, <2>3 DEF Next, Unsampled, SetPollPeriod, SetThreshold, SetLongPress,
         BeginSet, BeginClear, StopAgain, SetHandler, ClearHandler
    <2>4. QED
      BY <2>1, <2>2, <2>3
  <1>2. ButtonInv /\ [Next]_vars => [got' \in Longs /\ got \notin Longs => held > longPress + 3]_vars
    BY <1>1
  <1>3. QED
    BY <1>2, ButtonCorrect, PTL DEF Spec, LongWasHeld

===============================================================================
