----------------------------- MODULE MCLuminary -----------------------------
(* Small instances of Luminary for TLC.                                    *)
EXTENDS Luminary

\* Two windows and two halves of a custom curve are enough to see one
\* replaced by another.
MCDefaultOnOff == "18-06"
MCOnOffTimes == {"18-06", "00-00"}
DefaultTimes == {"18-06"}
MCZeroHalf == "zeros"
MCCurveHalves == {"zeros", "steps"}

\* An erased EEPROM, and settings saved under this version.
Blank == [loopDelay |-> 0, loopsToSend |-> 0, opMode |-> "Manual", curve |-> 0,
          manual |-> 0, onOff |-> "00-00", low |-> "zeros", high |-> "zeros",
          stamped |-> FALSE]
Stored(mode, loops, curve, level) ==
  [loopDelay |-> 30, loopsToSend |-> loops, opMode |-> mode, curve |-> curve,
   manual |-> level, onOff |-> "18-06", low |-> "zeros", high |-> "zeros",
   stamped |-> TRUE]

StoredCurve == {Stored("AutoCurve", 1, 0, 100)}
StoredSafe == {Stored("AutoPhotoCell", 1, 0, 100)}
FirstBoot == {Blank}
\* The stamped blank is what a power cut within the defaults leaves.
FirstBootOrTime ==
  FirstBoot \union {[Blank EXCEPT !.stamped = TRUE], Stored("AutoTime", 2, 7, 53)}

NoFaults == {{}}
FewFaults == {{}, {"opMode", "high"}}

Faster == {[delay |-> 10, loops |-> 0], [delay |-> 60, loops |-> 2]}
=============================================================================
