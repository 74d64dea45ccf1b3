----------------------------- MODULE MCPulseMeter -----------------------------
(* The instance of PulseMeter that TLC checks. The words are narrowed, so     *)
(* that the count runs over the byte and over itself within MaxPulses.        *)
EXTENDS PulseMeter

\* The program's own counter, and the other arguments of the constructor.
AllCounters == [filter : BOOLEAN, divisor : {1, 2}]
=============================================================================
