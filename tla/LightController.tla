--------------------------- MODULE LightController ---------------------------
(***************************************************************************)
(* The policy of the lamp: LightController and the five sources of a level  *)
(* it chooses from (manual, PhotoCell, DimmingCurves, OnOffByTime,          *)
(* DimmingDemo), and LightOutput. The main loop evaluates the level at each *)
(* iteration; downlinks change the settings at any time, also between two   *)
(* reads of one evaluation.                                                *)
(*                                                                         *)
(* Levels are percents. The light sensor is read as dark (below the on      *)
(* threshold), bright (above the off threshold) or between them.           *)
(***************************************************************************)
EXTENDS Integers, Sequences

CONSTANTS
  Times,        \* minutes of the day at which an evaluation may begin
  Windows,      \* [on, off] minutes of the day an 'O' downlink may bring
  CurveHalves,  \* six bytes of a custom curve, [0..5 -> 0..255]
  ManualLevels  \* levels of a 'D' downlink, after the clamp

\* Minutes of a day.
Day == 24 * 60

ASSUME TimeAssumption == Times \subseteq 0..(Day - 1)
ASSUME SettingAssumption ==
  /\ \A w \in Windows : w.on \in 0..(Day - 1) /\ w.off \in 0..(Day - 1)
  /\ CurveHalves \subseteq [0..5 -> 0..255]
  /\ ManualLevels \subseteq 0..100

OpMode == {"Manual", "AutoPhotoCell", "AutoCurve", "Demo", "AutoTime"}

-----------------------------------------------------------------------------
(* DimmingCurves                                                           *)

\* Two hours to a byte: the even hour in the low nibble.
curves == <<
  <<\h46, \h44, \h44, \hA6, \h00, \h00, \h00, \h00, \h00, \h80, \hAA, \h8A>>,
  <<\h33, \h33, \h33, \hA5, \h00, \h00, \h00, \h00, \h00, \h80, \hAA, \h58>>,
  <<\h55, \h55, \h55, \hA8, \h00, \h00, \h00, \h00, \h00, \h80, \hAA, \h88>> >>
staticCurves == 3

\* Mutant: the even hour in the high nibble.
Nibble_Swapped(byte, hour) == IF hour % 2 = 0 THEN byte \div 16 ELSE byte % 16
Nibble(byte, hour) == IF hour % 2 # 0 THEN byte \div 16 ELSE byte % 16

\* The level of an hour, by the selected curve; the last index is the custom
\* curve.
CurveLevel(index, bytes, h) ==
  LET twoValues == IF index < staticCurves THEN curves[index + 1][h \div 2 + 1]
                                           ELSE bytes[h \div 2]
  IN  10 * Nibble(twoValues, h)

\* Mutant: the last index is read from the table too.
CurveLevels_NoCustom(first, second, bytes, h) ==
  IF first = staticCurves THEN {10 * n : n \in 0..15}
                          ELSE {CurveLevel(i, bytes, h) : i \in {first, second}}

\* currentCurve is compared and then used, and may be read again for that.
\* Between a fixed curve and the custom one twoValues is then a byte from
\* behind the table, or one that was never written.
CurveLevels(first, second, bytes, h) ==
  {CurveLevel(i, bytes, h) : i \in {first, second}}
    \union IF (first < staticCurves) = (second < staticCurves)
            THEN {} ELSE {10 * n : n \in 0..15}

-----------------------------------------------------------------------------
(* OnOffByTime                                                             *)

\* 24 hours are added to the off minute, and to the current one, when the
\* window ends before it begins.
WindowLevel(on, off, current) ==
  LET shift == IF off < on THEN Day ELSE 0
  IN  IF current + shift <= off + shift /\ current + shift >= on THEN 100 ELSE 0

-----------------------------------------------------------------------------
(* DimmingDemo: single precision, in units of 2^-26 / 10                    *)

One == 671088640
Step == 134217728
FloatStep == 134217730        \* the float nearest to 0.2

\* A double sum assigned to the float: rounded to the spacing of its binade.
ToFloat(u) ==
  LET ulp == IF u >= One \div 2 THEN 40 ELSE IF u >= One \div 4 THEN 20
             ELSE IF u >= One \div 8 THEN 10 ELSE 1
  IN  ((u + ulp \div 2) \div ulp) * ulp

\* Mutant: the lower end turns the demonstration round but does not clamp it.
NextDemo_Unclamped(d) ==
  IF d.goingUp
  THEN LET v == ToFloat(d.lastValue + Step)
       IN  IF v >= One THEN [goingUp |-> FALSE, lastValue |-> One]
                       ELSE [goingUp |-> TRUE, lastValue |-> v]
  ELSE LET v == ToFloat(d.lastValue - Step)
       IN  [goingUp |-> v <= Step, lastValue |-> v]
NextDemo(d) ==
  IF d.goingUp
  THEN LET v == ToFloat(d.lastValue + Step)
       IN  IF v >= One THEN [goingUp |-> FALSE, lastValue |-> One]
                       ELSE [goingUp |-> TRUE, lastValue |-> v]
  ELSE LET v == ToFloat(d.lastValue - Step)
       IN  IF v <= Step THEN [goingUp |-> TRUE, lastValue |-> FloatStep]
                        ELSE [goingUp |-> FALSE, lastValue |-> v]

Percent(u) == u \div 6710886

-----------------------------------------------------------------------------
(* PhotoCell                                                               *)

\* The averaged reading is below onThreshold, above offThreshold or between
\* them. It grows with the light (the comment of PhotoCell::read: 1 is much
\* light), so that the lamp goes on in the dark, as the Readme has it; that the
\* sensor is wired that way is taken from there. The note above shouldBeOn
\* ("dar vuelta. prende cuando hay luz") says the opposite of both.
Light == {"dark", "between", "bright"}

\* Mutant: no hysteresis.
ShouldBeOn_OneThreshold(lastState, light) == light = "dark"
ShouldBeOn(lastState, light) ==
  IF lastState THEN light # "bright" ELSE light = "dark"

-----------------------------------------------------------------------------
VARIABLES
  mode, curve, custom, window, manual,   \* settings
  lastState,     \* of the photo cell
  demo,          \* goingUp and lastValue of the demonstration
  pc,
  shown,         \* the instant of the first reading of the clock
  hour, minute,  \* arguments of getDimming
  read,          \* what the evaluation under way has read of its setting:
                 \* absMinuteOn, or currentCurve
  level,         \* its result
  output, relay, \* LightOutput: percent (before the factor 0.95) and relay
  bypass,        \* a downlink came since the wait began
  lastExtreme    \* history: the last reading the photo cell took that was
                 \* not between the thresholds

settings == <<mode, curve, custom, window, manual>>
evaluation == <<shown, hour, minute, read, level>>
vars == <<settings, lastState, demo, pc, evaluation, output, relay,
          bypass, lastExtreme>>

Init ==
  /\ mode = "Manual" /\ curve = 0 /\ custom = [i \in 0..11 |-> 0]
  /\ window = [on |-> 18 * 60, off |-> 6 * 60] /\ manual = 100
  /\ lastState = FALSE /\ lastExtreme = "bright"
  /\ demo = [goingUp |-> FALSE, lastValue |-> One]
  /\ pc = "clock" /\ shown = 0 /\ hour = 0 /\ minute = 0 /\ read = 0 /\ level = 0
  /\ output = 0 /\ relay = FALSE /\ bypass = FALSE

\* getHour() and getMinute() read the clock one after the other.
ReadClock ==
  /\ pc = "clock"
  /\ shown' \in Times /\ pc' = "clock2"
  /\ UNCHANGED <<settings, lastState, demo, hour, minute, read, level, output,
                 relay, bypass, lastExtreme>>

\* Which of them is called first is up to the compiler; a minute may begin in
\* between.
ReadClockAgain ==
  /\ pc = "clock2"
  /\ \E next \in {shown, (shown + 1) % Day} :
       \/ hour' = shown \div 60 /\ minute' = next % 60
       \/ hour' = next \div 60 /\ minute' = shown % 60
  /\ pc' = "select" /\ shown' = 0
  /\ UNCHANGED <<settings, lastState, demo, read, level, output, relay, bypass,
                 lastExtreme>>

\* LightController::getDimming, up to the first read of the curve's index or of
\* the on/off window.
Select ==
  /\ pc = "select"
  /\ \/ /\ mode = "Manual"
        /\ level' = manual /\ pc' = "apply"
        /\ UNCHANGED <<lastState, lastExtreme, demo, read>>
     \/ /\ mode = "AutoPhotoCell"
        /\ \E light \in Light :
             /\ lastState' = ShouldBeOn(lastState, light)
             /\ lastExtreme' = IF light = "between" THEN lastExtreme ELSE light
        /\ level' = (IF lastState' THEN 100 ELSE 0) /\ pc' = "apply"
        /\ UNCHANGED <<demo, read>>
     \/ /\ mode = "AutoCurve"
        /\ read' = curve /\ pc' = "curve"
        /\ UNCHANGED <<lastState, lastExtreme, demo, level>>
     \/ /\ mode = "Demo"
        /\ demo' = NextDemo(demo)
        /\ level' = Percent(demo'.lastValue) /\ pc' = "apply"
        /\ UNCHANGED <<lastState, lastExtreme, read>>
     \/ /\ mode = "AutoTime"
        /\ read' = window.on /\ pc' = "window"
        /\ UNCHANGED <<lastState, lastExtreme, demo, level>>
  /\ UNCHANGED <<settings, shown, hour, minute, output, relay, bypass>>

\* The rest of DimmingCurves::getDimming; a 'C' may have come in between.
ReadCurve ==
  /\ pc = "curve"
  /\ level' \in CurveLevels(read, curve, custom, hour)
  /\ pc' = "apply" /\ read' = 0
  /\ UNCHANGED <<settings, lastState, demo, shown, hour, minute,
                 output, relay, bypass, lastExtreme>>

\* The rest of OnOffByTime::getDimming; an 'O' may have come in between.
ReadOff ==
  /\ pc = "window"
  /\ level' = WindowLevel(read, window.off, hour * 60 + minute)
  /\ pc' = "apply" /\ read' = 0
  /\ UNCHANGED <<settings, lastState, demo, shown, hour, minute,
                 output, relay, bypass, lastExtreme>>

\* Mutant: the upper end is not clamped.
Clamp_LowerOnly(l) == IF l < 0 THEN 0 ELSE l
Clamp(l) == IF l > 100 THEN 100 ELSE IF l < 0 THEN 0 ELSE l

\* LightOutput::setOutput; the arguments of the evaluation stay for the
\* properties, its other values are dead.
SetOutput ==
  /\ pc = "apply"
  /\ output' = Clamp(level)
  /\ relay' = (output' > 0)
  /\ pc' = "wait" /\ level' = 0
  /\ UNCHANGED <<settings, lastState, demo, shown, hour, minute, read,
                 bypass, lastExtreme>>

\* The wait ends, by the bypass flag or in its time.
Wake ==
  /\ pc = "wait"
  /\ bypass' = FALSE
  /\ pc' = "clock" /\ hour' = 0 /\ minute' = 0
  /\ UNCHANGED <<settings, lastState, demo, shown, read, level, output, relay,
                 lastExtreme>>

Evaluate == ReadClock \/ ReadClockAgain \/ Select \/ ReadCurve \/ ReadOff
            \/ SetOutput \/ Wake

-----------------------------------------------------------------------------
(* The commands of payloadParser that change the policy                    *)

\* Mutant: the wait goes on.
Command_Patient ==
  UNCHANGED <<lastState, demo, pc, evaluation, output, relay, bypass,
              lastExtreme>>
\* Every command ends the wait.
Command ==
  /\ bypass' = TRUE
  /\ UNCHANGED <<lastState, demo, pc, evaluation, output, relay, lastExtreme>>

CommandManual ==                                      \* 'D'
  /\ mode' = "Manual" /\ manual' \in ManualLevels
  /\ Command /\ UNCHANGED <<curve, custom, window>>

CommandCurve ==                                       \* 'C'
  /\ mode' = "AutoCurve" /\ curve' \in 0..staticCurves
  /\ Command /\ UNCHANGED <<custom, window, manual>>

CommandCustomCurve ==                                 \* 'J' and 'K'
  /\ \E first \in {0, 6}, half \in CurveHalves :
       custom' = [i \in 0..11 |-> IF i \in first..(first + 5) THEN half[i - first]
                                                             ELSE custom[i]]
  /\ Command /\ UNCHANGED <<mode, curve, window, manual>>

CommandMode ==                                        \* 'M'
  /\ mode' \in OpMode \ {"AutoTime"}
  /\ Command /\ UNCHANGED <<curve, custom, window, manual>>

CommandOnOff ==                                       \* 'O'
  /\ mode' = "AutoTime" /\ window' \in Windows
  /\ Command /\ UNCHANGED <<curve, custom, manual>>

Next == \/ Evaluate
        \/ CommandManual \/ CommandCurve \/ CommandCustomCurve
        \/ CommandMode \/ CommandOnOff

Spec == Init /\ [][Next]_vars

-----------------------------------------------------------------------------
(* Properties                                                              *)

TypeOK ==
  /\ mode \in OpMode /\ curve \in 0..staticCurves /\ custom \in [0..11 -> 0..255]
  /\ window.on \in 0..(Day - 1) /\ window.off \in 0..(Day - 1) /\ manual \in 0..100
  /\ lastState \in BOOLEAN /\ lastExtreme \in {"dark", "bright"}
  /\ demo.goingUp \in BOOLEAN /\ demo.lastValue \in Nat
  /\ shown \in 0..(Day - 1)
  /\ pc \in {"clock", "clock2", "select", "curve", "window", "apply", "wait"}
  /\ hour \in 0..23 /\ minute \in 0..59 /\ read \in 0..(Day - 1)
  /\ level \in 0..150 /\ output \in 0..100 /\ relay \in BOOLEAN
  /\ bypass \in BOOLEAN

\* The table of the Readme, hour by hour.
ReadmeCurve == <<
  <<60, 40, 40, 40, 40, 40, 60, 100, 0, 0, 0, 0, 0, 0, 0, 0, 0, 0, 0,
    80, 100, 100, 100, 80>>,
  <<30, 30, 30, 30, 30, 30, 50, 100, 0, 0, 0, 0, 0, 0, 0, 0, 0, 0, 0,
    80, 100, 100, 80, 50>>,
  <<50, 50, 50, 50, 50, 50, 80, 100, 0, 0, 0, 0, 0, 0, 0, 0, 0, 0, 0,
    80, 100, 100, 80, 80>> >>

\* The window as an arc of the day, its ends included.
InWindow(w, t) == (t - w.on) % Day <= (w.off - w.on) % Day

\* The level the documentation promises at the time of the evaluation.
Promised ==
  CASE mode = "AutoPhotoCell" -> IF lastExtreme = "dark" THEN 100 ELSE 0
    [] mode = "AutoCurve" /\ curve < staticCurves -> ReadmeCurve[curve + 1][hour + 1]
    [] mode = "AutoCurve" /\ curve = staticCurves -> CurveLevel(curve, custom, hour)
    [] mode = "AutoTime" -> IF InWindow(window, hour * 60 + minute) THEN 100 ELSE 0
    [] mode = "Demo" -> Percent(demo.lastValue)
    [] OTHER -> manual

\* While the node waits for no downlink to be acted on, the lamp has the level
\* that its mode promises - the Readme's curves, the window as an arc of the
\* day, the photo cell with its hysteresis - and the relay is on exactly when
\* there is light: an evaluation torn by a downlink is always repeated.
LampFollowsPolicy ==
  pc = "wait" /\ ~bypass =>
    /\ output = Clamp(Promised)
    /\ relay = (output > 0)

\* Rounding never takes the demonstration below 20% or above 100%.
DemoInRange == demo.lastValue \in Step..One

-----------------------------------------------------------------------------
(* What the documentation says, and the code does not do                    *)

\* OnOffByTime: "agregar 24 horas para tener el rango sin cortar" - a window
\* that ends before it begins is one range too.
NightWindow ==
  pc = "wait" /\ ~bypass /\ mode = "AutoTime" =>
    output = (IF InWindow(window, hour * 60 + minute) THEN 100 ELSE 0)

=============================================================================
