----------------------------- MODULE MCEventSlot -----------------------------
(* The instance of EventSlot that TLC checks; the bounds are in its cfg.    *)
EXTENDS EventSlot
=============================================================================
