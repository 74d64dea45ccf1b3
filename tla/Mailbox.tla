------------------------------- MODULE Mailbox -------------------------------
(***************************************************************************)
(* What payloadParser is promised of the way from the radio to it: every    *)
(* packet with data is handed over as it arrives, in the order of arrival;  *)
(* in between, only the newest packet is handed over again, and not after   *)
(* the exchange it belongs to was shut by an uplink or a failed reception   *)
(* (a packet that the network itself repeats opens it again).               *)
(***************************************************************************)
EXTENDS Naturals, Sequences

VARIABLES
  newest,   \* number of the last packet
  open,     \* its exchange has not been shut
  handed    \* the packets payloadParser was called with

vars == <<newest, open, handed>>

Init == newest = 0 /\ open = TRUE /\ handed = <<>>

Deliver ==
  /\ newest' = newest + 1 /\ open' = TRUE
  /\ handed' = Append(handed, newest')

Repeat ==
  /\ newest > 0 /\ open' = TRUE
  /\ handed' = Append(handed, newest)
  /\ UNCHANGED newest

Shut == open' = FALSE /\ UNCHANGED <<newest, handed>>

Next == Deliver \/ Repeat \/ Shut

Spec == Init /\ [][Next]_vars
=============================================================================
