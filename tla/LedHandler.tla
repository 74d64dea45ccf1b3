------------------------------ MODULE LedHandler ------------------------------
(***************************************************************************)
(* A status LED, src/lib/LedHandler: the main thread gives it a sequence of *)
(* times (on, off, on, ...) or a fixed state, and a low-power timeout plays *)
(* the sequence from interrupt context. The two share every member without  *)
(* a lock: the interrupt may fall between any two statements of a call.     *)
(*                                                                         *)
(* A sequence is its length. The timeout names the entry whose time it      *)
(* waits for; how long that takes is not modelled, so that any number of    *)
(* callbacks may fall into one call (the MAC thread preempts the main one). *)
(***************************************************************************)
EXTENDS Integers

CONSTANTS
  Lengths,      \* lengths of the sequences that setCicle is given
  IndexWord     \* 2^8: cicleIndex is a uint8_t

ASSUME LengthAssumption == Lengths \subseteq Nat /\ \A n \in Lengths : n < IndexWord
ASSUME WordAssumption == IndexWord \in Nat \ {0}

VARIABLES
  on,            \* isOn(): the pin, whatever its polarity
  mode,          \* "Manual" or "Cicle"
  vector,        \* length of cicleVector; Torn while it is being assigned
  cicleIndex,
  oneTime,
  timeout,       \* entry cicleTimeout waits for; Off, or Junk when its time
                 \* was read from a vector under assignment
  pc,            \* where the main thread is in a call; "idle" between calls
  newLength, newOneTime,   \* the arguments of setCicle
  wanted,        \* the argument of setManual
  raced,         \* history: a callback came since setCicle put the index back
                 \* and none since the call ended
  ended          \* history: that callback ended a one-time sequence

arguments == <<newLength, newOneTime, wanted>>
vars == <<on, mode, vector, cicleIndex, oneTime, timeout, pc, arguments, raced, ended>>

\* Neither an entry nor a length.
Off == -1
Junk == -2
Torn == -1

\* The constructor.
Init ==
  /\ on = FALSE /\ mode = "Manual"
  /\ vector = 0 /\ oneTime \in BOOLEAN /\ cicleIndex \in 0..(IndexWord - 1)
  /\ timeout = Off
  /\ pc = "idle" /\ newLength = 0 /\ newOneTime = FALSE /\ wanted = FALSE
  /\ raced = FALSE /\ ended = FALSE

-----------------------------------------------------------------------------
(* Calls of the main thread                                                *)

\* A sequence of fewer than two times is refused.
SetCicle ==
  /\ pc = "idle"
  /\ \E n \in Lengths, once \in BOOLEAN :
       /\ n >= 2
       /\ newLength' = n /\ newOneTime' = once
  /\ pc' = "assign" /\ vector' = Torn
  /\ UNCHANGED <<on, mode, cicleIndex, oneTime, timeout, wanted, raced, ended>>

Assign ==
  /\ pc = "assign"
  /\ vector' = newLength /\ pc' = "index"
  /\ UNCHANGED <<on, mode, cicleIndex, oneTime, timeout, arguments, raced, ended>>

\* Mutant: the sequence begins where the last one was.
ResetIndex_Kept ==
  /\ pc = "index" /\ pc' = "oneTime"
  /\ raced' = FALSE /\ ended' = FALSE
  /\ UNCHANGED <<on, mode, vector, cicleIndex, oneTime, timeout, arguments>>

ResetIndex ==
  /\ pc = "index"
  /\ cicleIndex' = 0 /\ pc' = "oneTime"
  /\ raced' = FALSE /\ ended' = FALSE
  /\ UNCHANGED <<on, mode, vector, oneTime, timeout, arguments>>

SetOneTime ==
  /\ pc = "oneTime"
  /\ oneTime' = newOneTime /\ pc' = "mode"
  /\ UNCHANGED <<on, mode, vector, cicleIndex, timeout, arguments, raced, ended>>

SetMode ==
  /\ pc = "mode"
  /\ mode' = "Cicle" /\ pc' = "on"
  /\ UNCHANGED <<on, vector, cicleIndex, oneTime, timeout, arguments, raced, ended>>

SetOn ==
  /\ pc = "on"
  /\ on' = TRUE /\ pc' = "attach"
  /\ UNCHANGED <<mode, vector, cicleIndex, oneTime, timeout, arguments, raced, ended>>

\* Mutant: a timeout that is running is left alone.
Attach_Once ==
  /\ pc = "attach"
  /\ timeout' = (IF timeout = Off THEN 0 ELSE timeout) /\ pc' = "idle"
  /\ newLength' = 0 /\ newOneTime' = FALSE
  /\ UNCHANGED <<on, mode, vector, cicleIndex, oneTime, wanted, raced, ended>>

\* Replaces whatever the timeout was waiting for.
Attach ==
  /\ pc = "attach"
  /\ timeout' = 0 /\ pc' = "idle"
  /\ newLength' = 0 /\ newOneTime' = FALSE
  /\ UNCHANGED <<on, mode, vector, cicleIndex, oneTime, wanted, raced, ended>>

\* setManual and toggle: mode, timeout, pin, in that order.
SetManual ==
  /\ pc = "idle"
  /\ mode' = "Manual" /\ pc' = "detach" /\ wanted' \in BOOLEAN
  /\ raced' = FALSE /\ ended' = FALSE
  /\ UNCHANGED <<on, vector, cicleIndex, oneTime, timeout, newLength, newOneTime>>

Toggle ==
  /\ pc = "idle"
  /\ mode' = "Manual" /\ pc' = "detachToggle"
  /\ raced' = FALSE /\ ended' = FALSE
  /\ UNCHANGED <<on, vector, cicleIndex, oneTime, timeout, arguments>>

\* Mutant: the timeout runs on.
Detach_Missing ==
  /\ \/ pc = "detach" /\ pc' = "write"
     \/ pc = "detachToggle" /\ pc' = "toggle"
  /\ UNCHANGED <<on, mode, vector, cicleIndex, oneTime, timeout, arguments, raced, ended>>

Detach ==
  /\ \/ pc = "detach" /\ pc' = "write"
     \/ pc = "detachToggle" /\ pc' = "toggle"
  /\ timeout' = Off
  /\ UNCHANGED <<on, mode, vector, cicleIndex, oneTime, arguments, raced, ended>>

WritePin ==
  /\ \/ pc = "write" /\ on' = wanted
     \/ pc = "toggle" /\ on' = ~on
  /\ pc' = "idle" /\ wanted' = FALSE
  /\ UNCHANGED <<mode, vector, cicleIndex, oneTime, timeout, newLength, newOneTime,
                 raced, ended>>

Call == \/ Assign \/ ResetIndex \/ SetOneTime \/ SetMode \/ SetOn \/ Attach
        \/ Detach \/ WritePin

-----------------------------------------------------------------------------
(* The interrupt: Timeout::handler detaches and calls cicleCallback; the    *)
(* ticker calls it with interrupts off.                                    *)

\* Mutant: an index that is no byte.
NextIndex_Wide == cicleIndex + 1

\* cicleIndex++ of a uint8_t.
NextIndex == (cicleIndex + 1) % IndexWord

\* cicleIndex >= cicleVector.size(), after the increment.
PastEnd(index) ==
  IF vector = Torn THEN BOOLEAN ELSE {index >= vector}

\* The entries at even places are times of light.
Lit(index) == index % 2 = 0

\* Mutant: Timeout::handler calls first and detaches then.
Play_DetachLast(index) ==
  /\ cicleIndex' = index
  /\ on' = Lit(index)
  /\ timeout' = Off
  /\ UNCHANGED mode

\* The entry of the sequence that begins.
Play(index) ==
  /\ cicleIndex' = index
  /\ on' = Lit(index)
  /\ timeout' = IF vector = Torn THEN Junk ELSE index
  /\ UNCHANGED mode

CicleCallback ==
  /\ timeout # Off
  /\ \E past \in PastEnd(NextIndex) :
       \/ /\ past /\ oneTime                 \* setManual(false)
          /\ mode' = "Manual" /\ timeout' = Off /\ on' = FALSE
          /\ cicleIndex' = NextIndex
          /\ ended' = (pc # "idle")
       \/ /\ past /\ ~oneTime
          /\ Play(0) /\ UNCHANGED ended
       \/ /\ ~past
          /\ Play(NextIndex) /\ UNCHANGED ended
  /\ raced' = (pc # "idle")
  /\ UNCHANGED <<vector, oneTime, pc, arguments>>

Next == SetCicle \/ SetManual \/ Toggle \/ Call \/ CicleCallback

Spec == Init /\ [][Next]_vars

\* A call that began ends, and a running timeout ends.
FairSpec == Spec /\ WF_vars(Call) /\ WF_vars(CicleCallback)

-----------------------------------------------------------------------------
(* Properties                                                              *)

TypeOK ==
  /\ on \in BOOLEAN /\ mode \in {"Manual", "Cicle"}
  /\ vector \in Lengths \union {0, Torn}
  /\ cicleIndex \in 0..(IndexWord - 1)
  /\ oneTime \in BOOLEAN
  /\ timeout \in 0..(IndexWord - 1) \union {Off, Junk}
  /\ pc \in {"idle", "assign", "index", "oneTime", "mode", "on", "attach",
             "detach", "detachToggle", "write", "toggle"}
  /\ newLength \in Lengths \union {0} /\ newOneTime \in BOOLEAN /\ wanted \in BOOLEAN
  /\ raced \in BOOLEAN /\ ended \in BOOLEAN

\* Between calls a LED that plays a sequence has its timeout running, for a
\* time that is in the sequence, wherever the interrupt fell in the call that
\* started it: it never stops half-way, and never waits for a time read from
\* a vector that was being replaced.
NeverFreezes ==
  pc = "idle" /\ mode = "Cicle" => timeout \in 0..(vector - 1)

\* "si cicleIndex.size % 2 == 0, encender": between calls the LED is lit during
\* the even entries, each for its own time; a callback that fell into
\* setCicle puts it out of step for one entry at most.
InStep ==
  pc = "idle" /\ mode = "Cicle" /\ ~raced =>
    on = Lit(cicleIndex) /\ timeout = cicleIndex

\* A LED that was put in a fixed state stays in it, unless a one-time sequence
\* ended within the call that started it.
ManualIsStill == pc = "idle" /\ mode = "Manual" /\ ~ended => timeout = Off

\* Left alone in a sequence, the LED goes on and off for ever.
Blinks == <>[](pc = "idle" /\ mode = "Cicle") => []<>on /\ []<>~on

=============================================================================
