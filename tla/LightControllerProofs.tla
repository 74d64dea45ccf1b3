------------------------- MODULE LightControllerProofs -------------------------
(* The policy of the lamp, for every set of times, windows, levels and curves. *)
EXTENDS LightController, TLAPS

-----------------------------------------------------------------------------
(* The sources of a level                                                  *)

LEMMA Bounds == Step \in Nat /\ One \in Nat /\ FloatStep \in Step..One /\ Step > 100
                  /\ One = 5 * Step
<1>1. Step \in Nat /\ Step > 100
  BY SMT DEF Step
<1>2. One \in Nat
  BY SMT DEF One
<1>3. FloatStep \in Nat /\ FloatStep >= Step
  BY SMT DEF FloatStep, Step
<1>4. FloatStep <= One
  BY SMT DEF FloatStep, One
<1>5. One = 5 * Step
  BY SMT DEF One, Step
<1> QED BY <1>1, <1>2, <1>3, <1>4, <1>5

\* A multiple of n next to u.
LEMMA Nearest ==
  ASSUME NEW u \in Int, NEW n \in {1, 10, 20, 40}
  PROVE  /\ ((u + n \div 2) \div n) * n \in Int
         /\ ((u + n \div 2) \div n) * n <= u + 20
         /\ ((u + n \div 2) \div n) * n >= u - 20
OBVIOUS

LEMMA ToFloatNear ==
  ASSUME NEW u \in Int
  PROVE  ToFloat(u) \in Int /\ ToFloat(u) <= u + 20 /\ ToFloat(u) >= u - 20
<1> DEFINE ulp == IF u >= One \div 2 THEN 40 ELSE IF u >= One \div 4 THEN 20
                  ELSE IF u >= One \div 8 THEN 10 ELSE 1
<1>1. ulp \in {1, 10, 20, 40}
  OBVIOUS
<1>2. ToFloat(u) = ((u + ulp \div 2) \div ulp) * ulp
  BY DEF ToFloat
<1> HIDE DEF ulp
<1> QED BY <1>1, <1>2, Nearest

\* The demonstration stays between its first step and its last.
LEMMA DemoStays ==
  ASSUME NEW d, d.goingUp \in BOOLEAN, d.lastValue \in Step..One
  PROVE  NextDemo(d).goingUp \in BOOLEAN /\ NextDemo(d).lastValue \in Step..One
<1>1. d.lastValue \in Int /\ Step \in Int /\ One \in Int /\ Step > 100
  BY Bounds
<1>2. CASE d.goingUp
  <2> DEFINE v == ToFloat(d.lastValue + Step)
  <2>1. v \in Int /\ v >= d.lastValue + Step - 20
    BY <1>1, ToFloatNear
  <2>2. NextDemo(d) = IF v >= One THEN [goingUp |-> FALSE, lastValue |-> One]
                                  ELSE [goingUp |-> TRUE, lastValue |-> v]
    BY <1>2 DEF NextDemo
  <2> HIDE DEF v
  <2>3. CASE v >= One
    BY <1>1, <2>2, <2>3
  <2>4. CASE ~(v >= One)
    BY <1>1, <2>1, <2>2, <2>4
  <2> QED BY <2>3, <2>4
<1>3. CASE ~d.goingUp
  <2> DEFINE v == ToFloat(d.lastValue - Step)
  <2>1. v \in Int /\ v <= d.lastValue - Step + 20
    BY <1>1, ToFloatNear
  <2>2. NextDemo(d) = IF v <= Step THEN [goingUp |-> TRUE, lastValue |-> FloatStep]
                                   ELSE [goingUp |-> FALSE, lastValue |-> v]
    BY <1>3 DEF NextDemo
  <2> HIDE DEF v
  <2>3. CASE v <= Step
    BY <2>2, <2>3, Bounds
  <2>4. CASE ~(v <= Step)
    BY <1>1, <2>1, <2>2, <2>4
  <2> QED BY <2>3, <2>4
<1> QED BY <1>2, <1>3

LEMMA PercentRange ==
  ASSUME NEW u \in Step..One
  PROVE  Percent(u) \in 0..100
<1>1. u \in Int /\ u >= 0 /\ u <= One
  BY Bounds
<1>2. u \div 6710886 >= 0 /\ u \div 6710886 \in Int
  BY <1>1, SMT
<1>3. u \div 6710886 <= 100
  BY <1>1, SMT DEF One
<1>4. Percent(u) = u \div 6710886
  BY DEF Percent
<1> HIDE DEF Percent
<1> QED BY <1>2, <1>3, <1>4, SMT

LEMMA NibbleRange ==
  ASSUME NEW byte \in 0..255, NEW h \in 0..23
  PROVE  Nibble(byte, h) \in 0..15
<1>1. byte \div 16 \in 0..15 /\ byte % 16 \in 0..15
  OBVIOUS
<1> QED BY <1>1 DEF Nibble

\* The table holds bytes, and they are those of the Readme.
LEMMA TableBytes ==
  ASSUME NEW c \in 0..2, NEW i \in 1..12
  PROVE  curves[c + 1][i] \in 0..255
<1>1. c = 0 \/ c = 1 \/ c = 2
  OBVIOUS
<1> QED BY <1>1 DEF curves

LEMMA CurveRange ==
  ASSUME NEW c \in 0..staticCurves, NEW bytes \in [0..11 -> 0..255], NEW h \in 0..23
  PROVE  CurveLevel(c, bytes, h) \in 0..150
<1> DEFINE twoValues == IF c < staticCurves THEN curves[c + 1][h \div 2 + 1] ELSE bytes[h \div 2]
<1>1. h \div 2 \in 0..11 /\ h \div 2 + 1 \in 1..12
  OBVIOUS
<1>2. twoValues \in 0..255
  <2>1. CASE c < staticCurves
    <3>1. c \in 0..2
      BY <2>1 DEF staticCurves
    <3> QED BY <1>1, <2>1, <3>1, TableBytes
  <2>2. CASE ~(c < staticCurves)
    BY <1>1, <2>2
  <2> QED BY <2>1, <2>2
<1>3. CurveLevel(c, bytes, h) = 10 * Nibble(twoValues, h)
  BY DEF CurveLevel
<1> HIDE DEF twoValues
<1>4. Nibble(twoValues, h) \in 0..15
  BY <1>2, NibbleRange
<1> QED BY <1>3, <1>4

LEMMA CurvesOfReadme ==
  ASSUME NEW c \in 0..2, NEW bytes, NEW h \in 0..23
  PROVE  CurveLevel(c, bytes, h) = ReadmeCurve[c + 1][h + 1]
<1>1. c = 0 \/ c = 1 \/ c = 2
  OBVIOUS
<1>2. h \in {0, 1, 2, 3, 4, 5, 6, 7, 8, 9, 10, 11, 12, 13, 14, 15, 16, 17, 18, 19, 20, 21, 22, 23}
  OBVIOUS
<1> USE DEF CurveLevel, Nibble, curves, staticCurves, ReadmeCurve
<1>3. CASE c = 0
  BY <1>2, <1>3
<1>4. CASE c = 1
  BY <1>2, <1>4
<1>5. CASE c = 2
  BY <1>2, <1>5
<1> QED BY <1>1, <1>3, <1>4, <1>5

LEMMA CurveIndexRange == \A c \in 0..staticCurves : c \in 0..(Day - 1)
  BY DEF staticCurves, Day

LEMMA DayMinutes == Day \in Nat \ {0} /\ 0 \in 0..(Day - 1)
BY DEF Day

\* A window that does not cross midnight is an arc of the day.
LEMMA DayArc ==
  ASSUME NEW a \in 0..(Day - 1), NEW b \in 0..(Day - 1), NEW t \in 0..(Day - 1), a <= b
  PROVE  (t - a) % Day <= (b - a) % Day <=> (t <= b /\ t >= a)
<1>1. \A x, y \in 0..(Day - 1) : (y - x) % Day = IF x <= y THEN y - x ELSE y - x + Day
  BY DayMinutes
<1>2. (b - a) % Day = b - a
  BY <1>1
<1>3. (t - a) % Day = IF a <= t THEN t - a ELSE t - a + Day
  BY <1>1
<1> QED BY <1>2, <1>3, DayMinutes

\* And one that does is the rest of one.
LEMMA NightArc ==
  ASSUME NEW a \in 0..(Day - 1), NEW b \in 0..(Day - 1), NEW t \in 0..(Day - 1), b < a
  PROVE  (t - a) % Day <= (b - a) % Day <=> (t <= b \/ t >= a)
<1>1. \A x, y \in 0..(Day - 1) : (y - x) % Day = IF x <= y THEN y - x ELSE y - x + Day
  BY DayMinutes
<1>2. (b - a) % Day = b - a + Day
  BY <1>1
<1>3. (t - a) % Day = IF a <= t THEN t - a ELSE t - a + Day
  BY <1>1
<1> QED BY <1>2, <1>3, DayMinutes

\* What becomes of every window of a day, whatever its two times: one that ends
\* on the day it begins is lit from the one to the other, one that ends on the
\* next is lit in its morning part only - the evening from the on time to midnight
\* stays dark (src/lib/OnOffByTime/OnOffByTime.cpp:40-50, run night_window).
THEOREM EveningCut ==
  ASSUME NEW on \in 0..(Day - 1), NEW off \in 0..(Day - 1), NEW t \in 0..(Day - 1)
  PROVE  /\ on <= off => (WindowLevel(on, off, t) = 100 <=> t \in on..off)
         /\ off < on  => (WindowLevel(on, off, t) = 100 <=> t <= off)
         /\ ~(WindowLevel(on, off, t) = 100 <=> InWindow([on |-> on, off |-> off], t))
              <=> off < on /\ t >= on
<1> DEFINE w == [on |-> on, off |-> off]
<1>d. on \in Nat /\ off \in Nat /\ t \in Nat /\ Day \in Nat /\ t < Day /\ on < Day /\ off < Day
  BY DayMinutes
<1>w. InWindow(w, t) <=> (t - on) % Day <= (off - on) % Day
  BY DEF InWindow
<1> HIDE DEF w
<1>1. CASE on <= off
  <2>1. WindowLevel(on, off, t) = 100 <=> (t <= off /\ t >= on)
    BY <1>1, <1>d DEF WindowLevel
  <2>2. (t - on) % Day <= (off - on) % Day <=> (t <= off /\ t >= on)
    BY <1>1, DayArc
  <2>3. t \in on..off <=> (t <= off /\ t >= on)
    BY <1>d
  <2>4. ~(off < on)
    BY <1>1, <1>d
  <2> QED BY <1>1, <1>w, <2>1, <2>2, <2>3, <2>4, Zenon DEF w
<1>2. CASE off < on
  <2>1. WindowLevel(on, off, t) = 100 <=> t <= off
    BY <1>2, <1>d DEF WindowLevel
  <2>2. (t - on) % Day <= (off - on) % Day <=> (t <= off \/ t >= on)
    BY <1>2, NightArc
  <2>3. ~(on <= off) /\ (t <= off => ~(t >= on))
    BY <1>2, <1>d
  <2> QED BY <1>2, <1>w, <2>1, <2>2, <2>3, Zenon DEF w
<1> QED BY <1>1, <1>2, <1>d

-----------------------------------------------------------------------------
(* Types                                                                   *)

\* Between the two reads of currentCurve, read is an index.
Typed == TypeOK /\ DemoInRange /\ (pc = "curve" => read \in 0..staticCurves)

\* The types of the values of the evaluation, apart from those of the settings.
LEMMA EvaluationTypes ==
  ASSUME Typed, Evaluate
  PROVE  Typed'
<1>1. /\ mode \in OpMode /\ curve \in 0..staticCurves /\ custom \in [0..11 -> 0..255]
      /\ window.on \in 0..(Day - 1) /\ window.off \in 0..(Day - 1) /\ manual \in 0..100
      /\ lastState \in BOOLEAN /\ lastExtreme \in {"dark", "bright"}
      /\ demo.goingUp \in BOOLEAN /\ demo.lastValue \in Nat /\ demo.lastValue \in Step..One
      /\ shown \in 0..(Day - 1)
      /\ pc \in {"clock", "clock2", "select", "curve", "window", "apply", "wait"}
      /\ hour \in 0..23 /\ minute \in 0..59 /\ read \in 0..(Day - 1)
      /\ level \in 0..150 /\ output \in 0..100 /\ relay \in BOOLEAN
      /\ bypass \in BOOLEAN
  BY DEF Typed, TypeOK, DemoInRange
<1> USE DEF settings, Typed
<1>2. CASE ReadClock
  BY <1>1, <1>2, TimeAssumption DEF ReadClock, TypeOK, DemoInRange
<1>3. CASE ReadClockAgain
  <2>1. PICK next \in {shown, (shown + 1) % Day} :
          \/ hour' = shown \div 60 /\ minute' = next % 60
          \/ hour' = next \div 60 /\ minute' = shown % 60
    BY <1>3 DEF ReadClockAgain
  <2>2. next \in 0..(Day - 1)
    BY <1>1, <2>1, DayMinutes
  <2>3. \A t \in 0..(Day - 1) : t \div 60 \in 0..23 /\ t % 60 \in 0..59
    BY DEF Day
  <2>4. hour' \in 0..23 /\ minute' \in 0..59
    <3>1. /\ shown \div 60 \in 0..23 /\ shown % 60 \in 0..59
          /\ next \div 60 \in 0..23 /\ next % 60 \in 0..59
      BY <1>1, <2>2, <2>3
    <3> QED BY <2>1, <3>1
  <2> QED BY DayMinutes, <1>1, <1>3, <2>4 DEF ReadClockAgain, TypeOK, DemoInRange
<1>4. CASE Select
  <2> SUFFICES /\ lastState' \in BOOLEAN /\ lastExtreme' \in {"dark", "bright"}
               /\ demo'.goingUp \in BOOLEAN /\ demo'.lastValue \in Step..One
               /\ read' \in 0..(Day - 1) /\ level' \in 0..150
               /\ pc' \in {"curve", "window", "apply"}
               /\ pc' = "curve" => read' \in 0..staticCurves
    <3>1. demo'.lastValue \in Step..One => demo'.lastValue \in Nat
      BY Bounds
    <3> QED BY <1>1, <1>4, <3>1 DEF Select, TypeOK, DemoInRange
  <2>1. CASE mode = "Manual"
    BY <1>1, <1>4, <2>1 DEF Select
  <2>2. CASE mode = "AutoPhotoCell"
    <3>1. PICK light \in Light :
            /\ lastState' = ShouldBeOn(lastState, light)
            /\ lastExtreme' = IF light = "between" THEN lastExtreme ELSE light
      BY <1>4, <2>2 DEF Select
    <3>2. ShouldBeOn(lastState, light) \in BOOLEAN
      BY DEF ShouldBeOn
    <3>3. lastExtreme' \in {"dark", "bright"}
      BY <1>1, <3>1 DEF Light
    <3>4. level' \in 0..150 /\ UNCHANGED <<demo, read>> /\ pc' = "apply"
      BY <1>4, <2>2 DEF Select
    <3> QED BY <1>1, <3>1, <3>2, <3>3, <3>4
  <2>3. CASE mode = "AutoCurve"
    <3>1. read' = curve /\ pc' = "curve" /\ UNCHANGED <<lastState, lastExtreme, demo, level>>
      BY <1>4, <2>3 DEF Select
    <3>2. read' \in 0..staticCurves /\ read' \in 0..(Day - 1)
      BY <1>1, <3>1, CurveIndexRange
    <3> QED BY <1>1, <3>1, <3>2
  <2>4. CASE mode = "Demo"
    <3>1. demo' = NextDemo(demo) /\ level' = Percent(demo'.lastValue) /\ pc' = "apply"
          /\ UNCHANGED <<lastState, lastExtreme, read>>
      BY <1>4, <2>4 DEF Select
    <3>2. demo'.goingUp \in BOOLEAN /\ demo'.lastValue \in Step..One
      BY <1>1, <3>1, DemoStays
    <3>3. level' \in 0..100
      BY <3>1, <3>2, PercentRange
    <3> QED BY <1>1, <3>1, <3>2, <3>3
  <2>5. CASE mode = "AutoTime"
    BY <1>1, <1>4, <2>5 DEF Select
  <2> QED BY <1>1, <2>1, <2>2, <2>3, <2>4, <2>5 DEF OpMode
<1>5. CASE ReadCurve
  <2>1. level' \in CurveLevels(read, curve, custom, hour)
    BY <1>5 DEF ReadCurve
  <2>2. curve \in 0..staticCurves /\ read \in 0..staticCurves
    BY <1>1, <1>5 DEF ReadCurve
  <2>3. level' \in 0..150
    <3>1. \A i \in {read, curve} : CurveLevel(i, custom, hour) \in 0..150
      BY <1>1, <2>2, CurveRange
    <3>2. \A n \in 0..15 : 10 * n \in 0..150
      OBVIOUS
    <3> QED BY <2>1, <3>1, <3>2 DEF CurveLevels
  <2> QED BY DayMinutes, <1>1, <1>5, <2>3 DEF ReadCurve, TypeOK, DemoInRange
<1>6. CASE ReadOff
  <2>1. level' \in {0, 100}
    BY <1>6 DEF ReadOff, WindowLevel
  <2>2. level' \in 0..150
    BY <2>1
  <2>3. pc' = "apply" /\ read' = 0
    BY <1>6 DEF ReadOff
  <2>4. UNCHANGED <<settings, lastState, demo, shown, hour, minute, output, relay, bypass,
                    lastExtreme>>
    BY <1>6 DEF ReadOff
  <2> QED BY DayMinutes, <1>1, <2>2, <2>3, <2>4 DEF TypeOK, DemoInRange
<1>7. CASE SetOutput
  <2>1. output' \in 0..100 /\ relay' \in BOOLEAN
    BY <1>1, <1>7 DEF SetOutput, Clamp
  <2>2. pc' = "wait" /\ level' = 0 /\ level' \in 0..150
    BY <1>7 DEF SetOutput
  <2>3. UNCHANGED <<settings, lastState, demo, shown, hour, minute, read, bypass, lastExtreme>>
    BY <1>7 DEF SetOutput
  <2> QED BY <1>1, <2>1, <2>2, <2>3 DEF TypeOK, DemoInRange
<1>8. CASE Wake
  <2>1. hour' = 0 /\ minute' = 0 /\ bypass' = FALSE /\ pc' = "clock"
    BY <1>8 DEF Wake
  <2>2. UNCHANGED <<settings, lastState, demo, shown, read, level, output, relay, lastExtreme>>
    BY <1>8 DEF Wake
  <2>3. hour' \in 0..23 /\ minute' \in 0..59
    BY <2>1
  <2>4. bypass' \in BOOLEAN /\ pc' # "curve"
        /\ pc' \in {"clock", "clock2", "select", "curve", "window", "apply", "wait"}
    BY <2>1
  <2> QED BY <1>1, <2>2, <2>3, <2>4 DEF TypeOK, DemoInRange
<1> QED BY <1>2, <1>3, <1>4, <1>5, <1>6, <1>7, <1>8 DEF Evaluate

\* The values a downlink may set are the ones the parser lets through.
LEMMA CommandTypes ==
  ASSUME Typed,
         CommandManual \/ CommandCurve \/ CommandCustomCurve \/ CommandMode \/ CommandOnOff
  PROVE  Typed' /\ bypass' = TRUE /\ pc' = pc
               /\ UNCHANGED <<lastState, demo, evaluation, output, relay, lastExtreme>>
<1>1. /\ bypass' = TRUE
      /\ UNCHANGED <<lastState, demo, pc, evaluation, output, relay, lastExtreme>>
  BY DEF CommandManual, CommandCurve, CommandCustomCurve, CommandMode, CommandOnOff, Command
<1>2. ASSUME mode' \in OpMode, curve' \in 0..staticCurves, custom' \in [0..11 -> 0..255],
             window'.on \in 0..(Day - 1), window'.off \in 0..(Day - 1), manual' \in 0..100
      PROVE  Typed'
  BY <1>1, <1>2 DEF Typed, TypeOK, DemoInRange, evaluation
<1> SUFFICES Typed'
  BY <1>1 DEF evaluation
<1>3. /\ mode \in OpMode /\ curve \in 0..staticCurves /\ custom \in [0..11 -> 0..255]
      /\ window.on \in 0..(Day - 1) /\ window.off \in 0..(Day - 1) /\ manual \in 0..100
  BY DEF Typed, TypeOK
<1>4. CASE CommandManual
  BY <1>2, <1>3, <1>4, SettingAssumption DEF CommandManual, OpMode
<1>5. CASE CommandCurve
  BY <1>2, <1>3, <1>5 DEF CommandCurve, OpMode
<1>6. CASE CommandCustomCurve
  <2>1. PICK first \in {0, 6}, half \in CurveHalves :
          custom' = [i \in 0..11 |-> IF i \in first..(first + 5) THEN half[i - first]
                                                                ELSE custom[i]]
    BY <1>6 DEF CommandCustomCurve
  <2>2. half \in [0..5 -> 0..255]
    BY SettingAssumption
  <2>3. ASSUME NEW i \in 0..11
        PROVE  (IF i \in first..(first + 5) THEN half[i - first] ELSE custom[i]) \in 0..255
    <3>1. CASE i \in first..(first + 5)
      <4>1. i - first \in 0..5
        BY <3>1
      <4> QED BY <2>2, <3>1, <4>1
    <3>2. CASE i \notin first..(first + 5)
      BY <1>3, <3>2
    <3> QED BY <3>1, <3>2
  <2>4. custom' \in [0..11 -> 0..255]
    BY <2>1, <2>3
  <2> QED BY <1>2, <1>3, <1>6, <2>4 DEF CommandCustomCurve
<1>7. CASE CommandMode
  BY <1>2, <1>3, <1>7 DEF CommandMode, OpMode
<1>8. CASE CommandOnOff
  BY <1>2, <1>3, <1>8, SettingAssumption DEF CommandOnOff, OpMode
<1> QED BY <1>4, <1>5, <1>6, <1>7, <1>8

LEMMA TypedInit == Init => Typed
<1> SUFFICES ASSUME Init
             PROVE  Typed
  OBVIOUS
<1>1. demo.goingUp = FALSE /\ demo.lastValue = One /\ One \in Nat /\ One \in Step..One
  BY Bounds DEF Init
<1>2. /\ mode \in OpMode /\ curve \in 0..staticCurves /\ custom \in [0..11 -> 0..255]
      /\ window.on \in 0..(Day - 1) /\ window.off \in 0..(Day - 1) /\ manual \in 0..100
  BY DEF Day, Init, OpMode, staticCurves
<1>3. /\ pc = "clock" /\ shown = 0 /\ hour = 0 /\ minute = 0 /\ read = 0 /\ level = 0
      /\ output = 0 /\ relay = FALSE /\ bypass = FALSE
      /\ lastState = FALSE /\ lastExtreme = "bright"
  BY DEF Init
<1>4. /\ shown \in 0..(Day - 1) /\ hour \in 0..23 /\ minute \in 0..59 /\ read \in 0..(Day - 1)
      /\ level \in 0..150 /\ output \in 0..100
  BY <1>3, DayMinutes
<1>5. /\ lastState \in BOOLEAN /\ relay \in BOOLEAN /\ bypass \in BOOLEAN
      /\ lastExtreme \in {"dark", "bright"} /\ demo.goingUp \in BOOLEAN
  BY <1>1, <1>3
<1>6. TypeOK
  BY <1>1, <1>2, <1>3, <1>4, <1>5 DEF TypeOK
<1> QED BY <1>1, <1>3, <1>6 DEF Typed, DemoInRange

LEMMA TypedStep == Typed /\ [Next]_vars => Typed'
<1>1. ASSUME Typed, UNCHANGED vars
      PROVE  Typed'
  <2>1. /\ UNCHANGED <<mode, curve, custom, window, manual>>
        /\ UNCHANGED <<lastState, demo, pc, shown, hour, minute, read, level>>
        /\ UNCHANGED <<output, relay, bypass, lastExtreme>>
    BY <1>1 DEF vars, settings, evaluation
  <2>2. TypeOK'
    BY <1>1, <2>1 DEF Typed, TypeOK
  <2> QED BY <1>1, <2>1, <2>2 DEF Typed, DemoInRange
<1> QED BY <1>1, EvaluationTypes, CommandTypes DEF Next

\* Every value keeps the width it has in the code, whatever the downlinks say;
\* a custom curve may ask for 150%.
THEOREM TypesHold == Spec => []TypeOK
<1>1. Typed => TypeOK
  BY DEF Typed
<1> QED BY TypedInit, TypedStep, <1>1, PTL DEF Spec

\* The single precision steps of DimmingDemo never leave 20%..100%.
THEOREM DemoBounded == Spec => []DemoInRange
<1>1. Typed => DemoInRange
  BY DEF Typed
<1> QED BY TypedInit, TypedStep, <1>1, PTL DEF Spec

-----------------------------------------------------------------------------
(* The policy                                                              *)

\* No window an 'O' brings crosses midnight.
DayWindows == \A w \in Windows : w.on <= w.off

\* The setting an evaluation has begun to read is still the one in force,
\* unless a downlink has come in between: then the evaluation is repeated.
Untorn ==
  /\ pc = "curve" => mode = "AutoCurve" /\ read = curve
  /\ pc = "window" => mode = "AutoTime" /\ read = window.on
  /\ pc = "apply" => level = Promised
  /\ pc = "wait" => output = Clamp(Promised) /\ relay = (output > 0)

\* The photo cell's state is what the last clear reading of the sensor said.
Hysteresis == lastState <=> lastExtreme = "dark"

Inv ==
  /\ Typed
  /\ Hysteresis
  /\ mode = "AutoTime" => window \in Windows
  /\ bypass \/ Untorn

\* What is promised depends on the settings, the photo cell, the demonstration
\* and the hour only.
LEMMA PromisedAlike ==
  ASSUME UNCHANGED <<settings, lastExtreme, demo, hour, minute>>
  PROVE  Promised' = Promised
BY DEF settings, Promised

LEMMA SelectKeeps ==
  ASSUME Inv, DayWindows, Select, ~bypass
  PROVE  Hysteresis' /\ Untorn'
<1>1. /\ UNCHANGED <<settings, hour, minute, output, relay, bypass>>
      /\ mode \in OpMode /\ lastState \in BOOLEAN /\ lastExtreme \in {"dark", "bright"}
      /\ Hysteresis
  BY DEF Select, Inv, Typed, TypeOK
<1>2. CASE mode = "Manual"
  <2>1. level' = manual /\ pc' = "apply" /\ UNCHANGED <<lastState, lastExtreme, demo>>
    BY <1>2 DEF Select
  <2>2. Promised = manual
    BY <1>2 DEF Promised
  <2>3. Promised' = Promised
    BY <1>1, <2>1, PromisedAlike
  <2> QED BY <1>1, <2>1, <2>2, <2>3 DEF Untorn, Hysteresis
<1>3. CASE mode = "AutoPhotoCell"
  <2>1. PICK light \in Light :
          /\ lastState' = ShouldBeOn(lastState, light)
          /\ lastExtreme' = IF light = "between" THEN lastExtreme ELSE light
    BY <1>3 DEF Select
  <2>2. level' = (IF lastState' THEN 100 ELSE 0) /\ pc' = "apply"
    BY <1>3 DEF Select
  <2>3. lastState' <=> lastExtreme' = "dark"
    BY <1>1, <2>1 DEF Light, ShouldBeOn, Hysteresis
  <2>4. Promised' = IF lastExtreme' = "dark" THEN 100 ELSE 0
    BY <1>1, <1>3 DEF Promised, settings
  <2> QED BY <2>2, <2>3, <2>4 DEF Untorn, Hysteresis
<1>4. CASE mode = "AutoCurve"
  BY <1>1, <1>4 DEF Select, settings, Untorn, Hysteresis
<1>5. CASE mode = "Demo"
  <2>1. level' = Percent(demo'.lastValue) /\ pc' = "apply" /\ UNCHANGED <<lastState, lastExtreme>>
    BY <1>5 DEF Select
  <2>2. Promised' = Percent(demo'.lastValue)
    BY <1>1, <1>5 DEF Promised, settings
  <2> QED BY <1>1, <2>1, <2>2 DEF Untorn, Hysteresis
<1>6. CASE mode = "AutoTime"
  BY <1>1, <1>6 DEF Select, settings, Untorn, Hysteresis
<1> QED BY <1>1, <1>2, <1>3, <1>4, <1>5, <1>6 DEF OpMode

LEMMA ReadCurveKeeps ==
  ASSUME Inv, ReadCurve, Untorn
  PROVE  Untorn'
<1>1. /\ mode = "AutoCurve" /\ read = curve /\ curve \in 0..staticCurves /\ hour \in 0..23
      /\ custom \in [0..11 -> 0..255]
      /\ level' \in CurveLevels(read, curve, custom, hour) /\ pc' = "apply"
  BY DEF ReadCurve, Untorn, Inv, Typed, TypeOK
<1>2. level' = CurveLevel(curve, custom, hour)
  BY <1>1 DEF CurveLevels
<1>3. Promised = CurveLevel(curve, custom, hour)
  <2>1. CASE curve < staticCurves
    <3>1. curve \in 0..2
      BY <1>1, <2>1 DEF staticCurves
    <3>2. Promised = ReadmeCurve[curve + 1][hour + 1]
      BY <1>1, <2>1 DEF Promised
    <3> QED BY <1>1, <3>1, <3>2, CurvesOfReadme
  <2>2. CASE curve = staticCurves
    <3>1. ~(curve < staticCurves)
      BY <2>2 DEF staticCurves
    <3> QED BY <1>1, <2>2, <3>1 DEF Promised
  <2> QED BY <1>1, <2>1, <2>2 DEF staticCurves
<1>4. Promised' = Promised
  BY PromisedAlike DEF ReadCurve
<1> QED BY <1>1, <1>2, <1>3, <1>4 DEF Untorn

LEMMA ReadOffKeeps ==
  ASSUME Inv, DayWindows, ReadOff, Untorn
  PROVE  Untorn'
<1>1. /\ mode = "AutoTime" /\ read = window.on /\ pc' = "apply"
      /\ window \in Windows /\ window.on <= window.off
      /\ window.on \in 0..(Day - 1) /\ window.off \in 0..(Day - 1) /\ hour \in 0..23 /\ minute \in 0..59
      /\ level' = WindowLevel(read, window.off, hour * 60 + minute)
  BY DEF ReadOff, Untorn, Inv, Typed, TypeOK, DayWindows
<1>2. hour * 60 + minute \in 0..(Day - 1)
  BY <1>1 DEF Day
<1>3. level' = IF InWindow(window, hour * 60 + minute) THEN 100 ELSE 0
  <2>1. PICK t \in 0..(Day - 1) : t = hour * 60 + minute
    BY <1>2
  <2>2. InWindow(window, t) <=> (t <= window.off /\ t >= window.on)
    BY <1>1, DayArc, DayMinutes DEF InWindow
  <2>3. WindowLevel(window.on, window.off, t)
           = (IF t <= window.off /\ t >= window.on THEN 100 ELSE 0)
    BY <1>1, DayMinutes DEF WindowLevel
  <2> QED BY <1>1, <2>1, <2>2, <2>3
<1>4. Promised = IF InWindow(window, hour * 60 + minute) THEN 100 ELSE 0
  BY <1>1 DEF Promised
<1>5. Promised' = Promised
  BY PromisedAlike DEF ReadOff
<1> QED BY <1>1, <1>3, <1>4, <1>5 DEF Untorn

LEMMA EvaluationKeeps ==
  ASSUME Inv, DayWindows, Evaluate
  PROVE  Inv'
<1>1. Typed' /\ UNCHANGED settings
  BY EvaluationTypes
     DEF Inv, Evaluate, ReadClock, ReadClockAgain, Select, ReadCurve, ReadOff, SetOutput, Wake
<1>2. mode' = "AutoTime" => window' \in Windows
  BY <1>1 DEF settings, Inv
<1>3. CASE Select
  <2>1. bypass' = bypass
    BY <1>3 DEF Select
  <2>2. Hysteresis'
    <3>1. CASE mode = "AutoPhotoCell"
      <4>1. PICK light \in Light :
              /\ lastState' = ShouldBeOn(lastState, light)
              /\ lastExtreme' = IF light = "between" THEN lastExtreme ELSE light
        BY <1>3, <3>1 DEF Select
      <4>2. lastState \in BOOLEAN
        BY DEF Inv, Typed, TypeOK
      <4> QED BY <4>1, <4>2 DEF Light, ShouldBeOn, Hysteresis, Inv
    <3>2. CASE mode # "AutoPhotoCell"
      BY <1>3, <3>2 DEF Select, Hysteresis, Inv
    <3> QED BY <3>1, <3>2
  <2>3. ~bypass => Untorn'
    BY <1>3, SelectKeeps
  <2> QED BY <1>1, <1>2, <2>1, <2>2, <2>3 DEF Inv
<1>4. CASE ~Select
  <2>1. Hysteresis'
    BY <1>4 DEF Evaluate, ReadClock, ReadClockAgain, ReadCurve, ReadOff, SetOutput, Wake,
                Hysteresis, Inv
  <2>2. bypass' \/ Untorn'
    <3>1. CASE ReadClock \/ ReadClockAgain \/ Wake
      BY <3>1 DEF ReadClock, ReadClockAgain, Wake, Untorn
    <3>2. CASE ReadCurve
      BY <3>2, ReadCurveKeeps DEF Inv, ReadCurve
    <3>3. CASE ReadOff
      BY <3>3, ReadOffKeeps DEF Inv, ReadOff
    <3>4. CASE SetOutput
      <4>1. Promised' = Promised
        BY <3>4, PromisedAlike DEF SetOutput
      <4>2. /\ pc = "apply" /\ pc' = "wait" /\ bypass' = bypass
            /\ output' = Clamp(level) /\ relay' = (output' > 0)
        BY <3>4 DEF SetOutput
      <4> QED BY <4>1, <4>2 DEF Untorn, Inv
    <3> QED BY <1>4, <3>1, <3>2, <3>3, <3>4 DEF Evaluate
  <2> QED BY <1>1, <1>2, <2>1, <2>2 DEF Inv
<1> QED BY <1>3, <1>4

LEMMA StepKeeps ==
  ASSUME Inv, DayWindows, [Next]_vars
  PROVE  Inv'
<1>1. CASE Evaluate
  BY <1>1, EvaluationKeeps
<1>2. CASE CommandManual \/ CommandCurve \/ CommandCustomCurve \/ CommandMode \/ CommandOnOff
  <2>1. Typed' /\ bypass' = TRUE /\ UNCHANGED <<lastState, lastExtreme>>
    BY <1>2, CommandTypes DEF Inv
  <2>2. mode' = "AutoTime" => window' \in Windows
    BY <1>2 DEF CommandManual, CommandCurve, CommandCustomCurve, CommandMode, CommandOnOff, Inv
  <2> QED BY <2>1, <2>2 DEF Inv, Hysteresis
<1>3. CASE UNCHANGED vars
  <2>1. Typed' /\ Promised' = Promised
    BY <1>3, TypedStep, PromisedAlike DEF Inv, vars, evaluation
  <2> QED BY <1>3, <2>1 DEF vars, settings, evaluation, Inv, Hysteresis, Untorn
<1> QED BY <1>1, <1>2, <1>3 DEF Next

\* With windows that do not cross midnight, the lamp that waits for nothing
\* has the level its mode promises, in spite of downlinks between any two
\* reads of an evaluation (DimmingCurves, OnOffByTime, PhotoCell, DimmingDemo).
THEOREM PolicyFollowed ==
  ASSUME DayWindows
  PROVE  Spec => []LampFollowsPolicy
<1>1. Init => Inv
  <2>1. Init => Typed
    BY TypedInit
  <2> QED BY <2>1 DEF Init, Inv, Hysteresis, Untorn
<1>2. Inv /\ [Next]_vars => Inv'
  BY StepKeeps
<1>3. Inv => LampFollowsPolicy
  BY DEF Inv, Untorn, LampFollowsPolicy
<1> QED BY <1>1, <1>2, <1>3, PTL DEF Spec

=============================================================================
