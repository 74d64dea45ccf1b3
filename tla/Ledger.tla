-------------------------------- MODULE Ledger --------------------------------
(***************************************************************************)
(* What the energy account of the luminaire promises: the energy that is    *)
(* drawn and not yet handed over is owed; a frame takes whole watt hours of *)
(* it and says how many, nothing else changes it. Only when a frame cannot  *)
(* hold the number may it say another one.                                 *)
(***************************************************************************)
EXTENDS Integers

CONSTANTS
  Readings,     \* loads the current sensor may show
  Hour,         \* energy of a watt hour
  FrameWord,    \* watt hours a frame can hold, plus one
  MaxBusy       \* time that may pass at once

VARIABLES
  reading,      \* the load
  owed,         \* energy drawn since boot, less what the frames said
  frame         \* watt hours of the last frame

vars == <<reading, owed, frame>>

Init == reading \in Readings /\ owed = 0 /\ frame = 0

\* The load draws energy while time passes.
Draw == /\ \E d \in 0..MaxBusy : owed' = owed + reading * d
        /\ UNCHANGED <<reading, frame>>

\* The load becomes another; what was drawn is not touched.
Change == reading' \in Readings /\ UNCHANGED <<owed, frame>>

\* Whole watt hours are handed over, no more than are owed, while time passes.
HandOver ==
  /\ \E n \in 0..(owed \div Hour), d \in 0..MaxBusy :
       /\ owed' = owed - n * Hour + reading * d
       /\ frame' \in IF n < FrameWord THEN {n} ELSE 0..(FrameWord - 1)
  /\ UNCHANGED reading

Next == Draw \/ Change \/ HandOver

Spec == Init /\ [][Next]_vars

=============================================================================
