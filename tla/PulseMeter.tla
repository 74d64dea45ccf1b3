------------------------------ MODULE PulseMeter ------------------------------
(***************************************************************************)
(* The pulse meter program (src/src/pulse_meter.cpp) with its counter       *)
(* (src/lib/PulseCounter): a contact closes once for every pulse, the edge  *)
(* interrupt counts it, directly or after the debounce filter, and the main *)
(* loop reads, resets and reports the count.                                *)
(*                                                                         *)
(* The interrupts run between any two steps of the loop. The filter's       *)
(* timeout is called in the critical section of the ticker, so filterCall   *)
(* is one step. The environment: a contact chatters only when there is a    *)
(* filter, for less than the debounce time, and holds for longer than that; *)
(* the library may lose the network at any time.                            *)
(***************************************************************************)
EXTENDS Integers, FiniteSets

CONSTANTS
  CountWord,   \* values of _count (2^16)
  ByteWord,    \* values of the result of read() (2^8)
  Counters,    \* the counters looked at: constructor arguments filter, divisor
  MaxPulses    \* bound: pulses

ASSUME WordAssumption ==
  CountWord \in Nat \ {0} /\ ByteWord \in Nat \ {0} /\ MaxPulses \in Nat
ASSUME CounterAssumption ==
  \A c \in Counters : c.filter \in BOOLEAN /\ c.divisor \in Nat \ {0}

VARIABLES
  counter,    \* what the counter was constructed with
  contact,    \* the contact is closed (the level of the pin once it is settled)
  settling,   \* the contact chatters
  filtering,  \* _filtering
  armed,      \* _timeout is attached
  count,      \* _count
  pc,         \* the statement main is at
  pulses,     \* pulses
  frame,      \* the count in tx_data (empty: no frame was built)
  joined,     \* getNetworkJoinStatus()
  made,       \* history: pulses of the contact
  told,       \* history: sum of the counts the network got
  losses      \* history: why pulses were lost

lineVars  == <<contact, settling, made>>
debounceVars == <<filtering, armed>>
loopVars  == <<pc, pulses, frame, told>>
vars == <<counter, lineVars, debounceVars, count, loopVars, joined, losses>>

Init ==
  /\ counter \in Counters
  /\ contact = FALSE /\ settling = FALSE
  /\ filtering = FALSE /\ armed = FALSE /\ count = 0
  /\ pc = "join" /\ pulses = 0 /\ frame = {}
  /\ joined = FALSE
  /\ made = 0 /\ told = 0 /\ losses = {}

Loss(reason, cond) == IF cond THEN {reason} ELSE {}

-----------------------------------------------------------------------------
(* The interrupts                                                          *)

\* increment(). What is counted after read() and before reset() is lost.
Increment ==
  /\ count' = (count + 1) % CountWord
  /\ losses' = losses \union Loss("wrap", count + 1 = CountWord)
                      \union Loss("gap", pc = "reset")

\* Mutant: the timeout is not attached.
FilterInit_NoTimeout == filtering' = TRUE /\ UNCHANGED <<armed, count, losses>>

\* filterInit()
FilterInit ==
  /\ \/ filtering /\ UNCHANGED debounceVars
     \/ ~filtering /\ filtering' = TRUE /\ armed' = TRUE
  /\ UNCHANGED <<count, losses>>

\* The edge the constructor attached the method to.
ActiveEdge ==
  \/ counter.filter /\ FilterInit
  \/ ~counter.filter /\ Increment /\ UNCHANGED debounceVars

\* Mutant: a line that is not active leaves the filter early.
FilterCall_EarlyReturn ==
  /\ armed /\ ~settling
  /\ armed' = FALSE
  /\ \/ contact /\ Increment /\ filtering' = FALSE
     \/ ~contact /\ UNCHANGED <<count, losses, filtering>>
  /\ UNCHANGED <<counter, lineVars, loopVars, joined>>

\* Mutant: the level is not tested.
FilterCall_AnyLevel ==
  /\ armed /\ ~settling
  /\ armed' = FALSE /\ filtering' = FALSE
  /\ Increment
  /\ UNCHANGED <<counter, lineVars, loopVars, joined>>

\* filterCall(), after the debounce time
FilterCall ==
  /\ armed /\ ~settling
  /\ \/ contact /\ Increment
     \/ ~contact /\ UNCHANGED <<count, losses>>
  /\ filtering' = FALSE /\ armed' = FALSE
  /\ UNCHANGED <<counter, lineVars, loopVars, joined>>

-----------------------------------------------------------------------------
(* The contact                                                             *)

\* It has held its level for longer than the debounce time.
Steady == ~settling /\ ~filtering

Close ==
  /\ ~contact /\ Steady /\ made < MaxPulses
  /\ contact' = TRUE /\ settling' = counter.filter /\ made' = made + 1
  /\ ActiveEdge
  /\ UNCHANGED <<counter, loopVars, joined>>

Open ==
  /\ contact /\ Steady
  /\ contact' = FALSE /\ settling' = counter.filter
  /\ UNCHANGED <<counter, made, debounceVars, count, losses, loopVars, joined>>

\* One more active edge while the contact chatters.
Chatter ==
  /\ settling
  /\ ActiveEdge
  /\ UNCHANGED <<counter, lineVars, loopVars, joined>>

Settle ==
  /\ settling /\ settling' = FALSE
  /\ UNCHANGED <<counter, contact, made, debounceVars, count, losses, loopVars, joined>>

-----------------------------------------------------------------------------
(* The main loop                                                           *)

\* join_network() returns when the node is joined or after its attempts.
Join ==
  /\ pc = "join" /\ pc' = "read"
  /\ joined' \in {joined, TRUE}
  /\ UNCHANGED <<counter, lineVars, debounceVars, count, pulses, frame, told, losses>>

\* Mutant: the counter is reset before it is read.
ReadCount_ResetFirst ==
  /\ pc = "read" /\ pc' = "reset"
  /\ count' = 0 /\ pulses' = 0
  /\ UNCHANGED <<counter, lineVars, debounceVars, frame, told, joined, losses>>

\* Mutant: the result is as wide as the count.
ReadCount_Wide ==
  /\ pc = "read" /\ pc' = "reset"
  /\ pulses' = count \div counter.divisor
  /\ losses' = losses \union Loss("rest", count % counter.divisor # 0)
  /\ UNCHANGED <<counter, lineVars, debounceVars, count, frame, told, joined>>

\* pulses = pulseCounter.read(): what does not fill a unit or a byte is cut.
ReadCount ==
  LET units == count \div counter.divisor
  IN  /\ pc = "read" /\ pc' = "reset"
      /\ pulses' = units % ByteWord
      /\ losses' = losses \union Loss("overrun", units >= ByteWord)
                          \union Loss("rest", count % counter.divisor # 0)
      /\ UNCHANGED <<counter, lineVars, debounceVars, count, frame, told, joined>>

\* Mutant: the counter is not reset.
ResetCount_Missing ==
  /\ pc = "reset" /\ pc' = "build"
  /\ UNCHANGED <<counter, lineVars, debounceVars, count, pulses, frame, told, joined, losses>>

ResetCount ==
  /\ pc = "reset" /\ pc' = "build"
  /\ count' = 0
  /\ UNCHANGED <<counter, lineVars, debounceVars, pulses, frame, told, joined, losses>>

BuildFrame ==
  /\ pc = "build" /\ pc' = "send"
  /\ frame' = IF joined THEN {pulses} ELSE {}
  /\ UNCHANGED <<counter, lineVars, debounceVars, count, pulses, told, joined, losses>>

\* send_data(tx_data), if the node is still joined; its result is not used.
SendFrame ==
  /\ pc = "send" /\ pc' = "wait"
  /\ \/ /\ joined
        /\ \E n \in frame : told' = told + n
        /\ UNCHANGED losses
     \/ /\ told' = told
        /\ losses' = losses \union Loss("unsent", pulses > 0)
  /\ UNCHANGED <<counter, lineVars, debounceVars, count, pulses, frame, joined>>

\* wait(30), and the next tx_data is a new one.
EndWait ==
  /\ pc = "wait" /\ pc' = "join"
  /\ frame' = {}
  /\ UNCHANGED <<counter, lineVars, debounceVars, count, pulses, told, joined, losses>>

\* The library finds that the network is gone.
LoseNetwork ==
  /\ joined /\ joined' = FALSE
  /\ UNCHANGED <<counter, lineVars, debounceVars, count, loopVars, losses>>

-----------------------------------------------------------------------------
Main == Join \/ ReadCount \/ ResetCount \/ BuildFrame \/ SendFrame \/ EndWait

Next == Main \/ FilterCall \/ Close \/ Open \/ Chatter \/ Settle \/ LoseNetwork

Spec == Init /\ [][Next]_vars

\* The loop goes on, the timeout fires once it is armed and chatter ends.
FairSpec == Spec /\ WF_vars(Main) /\ WF_vars(FilterCall) /\ WF_vars(Settle)

-----------------------------------------------------------------------------
(* Properties                                                              *)

Steps == {"join", "read", "reset", "build", "send", "wait"}
Reasons == {"wrap", "gap", "overrun", "rest", "unsent"}

TypeOK ==
  /\ counter \in Counters
  /\ contact \in BOOLEAN /\ settling \in BOOLEAN
  /\ filtering \in BOOLEAN /\ armed \in BOOLEAN
  /\ count \in 0..(CountWord - 1)
  /\ pc \in Steps
  /\ pulses \in 0..(ByteWord - 1) /\ frame \subseteq {pulses}
  /\ joined \in BOOLEAN
  /\ made \in 0..MaxPulses /\ told \in Nat
  /\ losses \subseteq Reasons

\* A pulse whose contact has closed and that the filter has yet to count.
InFilter == IF counter.filter /\ filtering /\ contact THEN 1 ELSE 0

\* What main has read and not yet told; what waits in the counter for main.
InHand  == IF pc \in {"reset", "build", "send"} THEN pulses ELSE 0
Waiting == IF pc = "reset" THEN 0 ELSE count

Known == counter.divisor * (told + InHand) + Waiting + InFilter

\* No pulse is told twice: whatever a contact behind the filter chatters, and
\* whatever is lost or goes unanswered, the network is never told more than the
\* contact made.
NeverTwice == Known <= made

\* Every pulse is told, in main's hands, in the counter or in the filter,
\* unless one of the losses the code accepts has happened: a full counter, an
\* edge between read and reset, a count wider than a byte, the rest of the
\* division, a report that did not get through.
PulsesAccounted == losses = {} => Known = made

\* The filter never shuts for good: while it ignores edges its timeout is
\* attached, and that opens it again.
NeverDeaf == filtering <=> armed

\* Where nothing is lost, the network is told of every pulse in the end.
EventuallyTold == [](losses = {}) => <>[](counter.divisor * told = made)

=============================================================================
