---------------------------- MODULE MCLedHandler ----------------------------
(* The instance of LedHandler that TLC checks: the lengths of the sequences *)
(* OK, ERROR_1 and ERROR_2 of version_config.h.                            *)
EXTENDS LedHandler
=============================================================================
