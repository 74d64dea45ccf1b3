------------------------------ MODULE EventSlot ------------------------------
(***************************************************************************)
(* The way of a downlink from the radio library to payloadParser: the       *)
(* callbacks of mDotEvent (src/libxDot-mbed5/mDotEvent.h), which the MAC    *)
(* thread of the library calls one at a time, keep what happened in _flags  *)
(* and _info and pass both on; EventSlot::MacEvent hands the buffer of      *)
(* _info to the application whenever it is not empty, whatever the event.   *)
(*                                                                         *)
(* The node is in class C: a packet may arrive at any time. Which callback  *)
(* comes next is up to the library. Packets with data are numbered in the   *)
(* order of their arrival; one that the network repeats keeps its number.   *)
(***************************************************************************)
EXTENDS Integers, Sequences

CONSTANTS
  MaxPackets,   \* bound: packets with data
  MaxHanded     \* bound: calls of the application

ASSUME BoundAssumption == MaxPackets \in Nat /\ MaxHanded \in Nat

VARIABLES
  flags,     \* _flags: the bits that are set
  info,      \* _info: the packet RxBuffer points to (0 when RxBufferSize is),
             \* and the flag of a duplicate
  received,  \* history: number of the last packet with data
  closed,    \* history: an uplink was completed or a reception failed since
  handed     \* history: the packets rxCallback was called with

vars == <<flags, info, received, closed, handed>>

NoInfo == [packet |-> 0, duplicate |-> FALSE]

Init ==
  /\ flags = {} /\ info = NoInfo
  /\ received = 0 /\ closed = FALSE
  /\ handed = <<>>

\* Mutant: the size is not tested.
MacEvent_AnySize(i) == Len(handed) < MaxHanded /\ handed' = Append(handed, i.packet)

\* EventSlot::MacEvent
MacEvent(i) ==
  \/ i.packet > 0 /\ Len(handed) < MaxHanded /\ handed' = Append(handed, i.packet)
  \/ i.packet = 0 /\ UNCHANGED handed

\* Notify, after _flags and _info became f and i.
Notify(f, i) ==
  /\ flags' = f /\ info' = i
  /\ MacEvent(i)

\* Mutant: what is left of the last exchange stays.
TxDone_NoReset ==
  Notify(flags \union {"Tx"}, info) /\ closed' = TRUE /\ UNCHANGED received

\* An uplink is out: both records start again.
TxDone == Notify({"Tx"}, NoInfo) /\ closed' = TRUE /\ UNCHANGED received

TxTimeout == Notify(flags \union {"Tx"}, info) /\ UNCHANGED <<received, closed>>

\* JoinAccept and JoinFailed differ in the status only.
JoinAnswer ==
  /\ Notify((flags \ {"Tx"}) \union {"JoinAccept"}, info)
  /\ UNCHANGED <<received, closed>>

\* Mutant: the event is passed on before the packet is taken over.
Take_Stale(n, dup) ==
  /\ flags' = (flags \ {"Tx", "RxData"}) \union {"Rx"}
                 \union (IF n > 0 THEN {"RxData"} ELSE {})
  /\ info' = [packet |-> n, duplicate |-> dup]
  /\ MacEvent(info)

\* PacketRx, with the packet n (0: without data).
Take(n, dup) ==
  Notify((flags \ {"Tx", "RxData"}) \union {"Rx"}
            \union (IF n > 0 THEN {"RxData"} ELSE {}),
         [packet |-> n, duplicate |-> dup])

PacketRx ==
  \/ /\ received < MaxPackets
     /\ received' = received + 1 /\ closed' = FALSE
     /\ Take(received + 1, FALSE)
  \/ Take(0, FALSE) /\ UNCHANGED <<received, closed>>
  \/ \* the network repeats a packet whose acknowledgement it missed
     /\ received > 0
     /\ Take(received, TRUE)
     /\ closed' = FALSE /\ UNCHANGED received

NetworkLinkCheck ==
  /\ Notify((flags \ {"Tx"}) \union {"LinkCheck"}, info)
  /\ UNCHANGED <<received, closed>>

RxTimeout == Notify(flags \ {"Tx"}, info) /\ UNCHANGED <<received, closed>>

RxError == Notify({}, NoInfo) /\ closed' = TRUE /\ UNCHANGED received

Next == \/ TxDone \/ TxTimeout \/ JoinAnswer \/ PacketRx
        \/ NetworkLinkCheck \/ RxTimeout \/ RxError

Spec == Init /\ [][Next]_vars

-----------------------------------------------------------------------------
(* Properties                                                              *)

\* The bits of _flags.
Flags == {"Tx", "Rx", "RxData", "JoinAccept", "LinkCheck"}

TypeOK ==
  /\ flags \subseteq Flags
  /\ info \in [packet : 0..MaxPackets, duplicate : BOOLEAN]
  /\ received \in 0..MaxPackets
  /\ closed \in BOOLEAN
  /\ handed \in Seq(1..MaxPackets)

\* The application sees every packet with data, in the order of arrival; what
\* it sees more than once it sees in a row. So the settings are those of the
\* last command, however often the library signals other events after it.
InOrder ==
  /\ received > 0 => Len(handed) > 0
  /\ Len(handed) > 0 => handed[1] = 1 /\ handed[Len(handed)] = received
  /\ \A i \in 1..(Len(handed) - 1) : handed[i + 1] - handed[i] \in {0, 1}

\* A packet is handed over again only until the next uplink is out (or a
\* reception fails): a command is not repeated into a later exchange, unless
\* the network itself repeats it.
NoLateReplay == [][handed' # handed => ~closed']_vars

\* MacEvent keeps the promise that payloadParser relies on (Mailbox), with the
\* callbacks of the library in any order.
Box == INSTANCE Mailbox WITH newest <- received, open <- ~closed
AsPromised == Box!Spec

=============================================================================
