-------------------------- MODULE MCLightController --------------------------
(* Small instances of LightController for TLC.                             *)
EXTENDS LightController

\* The tables of the code are those of the Readme, at every hour; the run sees
\* a few of the hours only.
ASSUME CurvesAsDocumented ==
  \A c \in 0..2, h \in 0..23 :
    CurveLevel(c, [i \in 0..11 |-> 0], h) = ReadmeCurve[c + 1][h + 1]

\* A minute before the window of the run begins, and its last minute; the tick
\* between the readings makes of them its first minute and one after it.
FewTimes == {719, 1081}

DayWindow == {[on |-> 720, off |-> 1081]}
NoWindow == {}
NightWindows == {[on |-> 1080, off |-> 360]}

OverRange == {[i \in 0..5 |-> \hF5]}
NoHalves == {}
=============================================================================
