--------------------------- MODULE EventSlotProofs ---------------------------
(* The order of the downlinks, for every bound of the environment.          *)
EXTENDS EventSlot, SequenceTheorems, TLAPS

\* What _info still points to is the last packet, and nothing once an uplink
\* is out: this is what keeps the replays harmless.
Current == info.packet \in {0, received} /\ (closed => info.packet = 0)

Inv == TypeOK /\ InOrder /\ Current

\* What a notification does, whichever callback it comes from: the state of
\* _info after it, and its effect on the application.
Notified ==
  /\ flags' \subseteq Flags
  /\ info' \in [packet : 0..MaxPackets, duplicate : BOOLEAN]
  /\ received' \in 0..MaxPackets
  /\ closed' \in BOOLEAN
  /\ info'.packet \in {0, received'}
  /\ closed' => info'.packet = 0
  /\ \/ received' = received
     \/ received' = received + 1 /\ info'.packet = received'
  /\ \/ info'.packet > 0 /\ handed' = Append(handed, info'.packet)
     \/ info'.packet = 0 /\ handed' = handed /\ (closed' \/ closed' = closed)

\* Appending the last packet, or the next one, keeps the order.
LEMMA AppendInOrder ==
  ASSUME NEW S, NEW s \in Seq(S), NEW last \in Nat, NEW n \in S, S \subseteq Nat,
         last > 0 => Len(s) > 0,
         Len(s) > 0 => s[1] = 1 /\ s[Len(s)] = last,
         \A i \in 1..(Len(s) - 1) : s[i + 1] - s[i] \in {0, 1},
         n > 0, n = last \/ n = last + 1
  PROVE  /\ Append(s, n) \in Seq(S)
         /\ Len(Append(s, n)) > 0 /\ Append(s, n)[1] = 1
         /\ Append(s, n)[Len(Append(s, n))] = n
         /\ \A i \in 1..(Len(Append(s, n)) - 1) :
              Append(s, n)[i + 1] - Append(s, n)[i] \in {0, 1}
<1> DEFINE t == Append(s, n)
<1>1. Len(s) \in Nat /\ \A i \in 1..Len(s) : s[i] \in Nat
  <2>1. Len(s) \in Nat /\ \A i \in 1..Len(s) : s[i] \in S
    BY LenProperties, ElementOfSeq
  <2> QED BY <2>1
<1>2. t \in Seq(S) /\ Len(t) = Len(s) + 1 /\ t[Len(s) + 1] = n
  BY AppendProperties
<1>3. \A i \in 1..Len(s) : t[i] = s[i]
  BY AppendProperties
<1> HIDE DEF t
<1>4. t[1] = 1
  <2>1. CASE Len(s) > 0
    BY <2>1, <1>1, <1>3
  <2>2. CASE Len(s) = 0
    BY <2>2, <1>2
  <2> QED BY <2>1, <2>2, <1>1
<1>5. ASSUME NEW i \in 1..Len(s)
      PROVE  t[i + 1] - t[i] \in {0, 1}
  <2>1. CASE i = Len(s)
    <3>1. t[i + 1] = n /\ t[i] = last
      BY <2>1, <1>1, <1>2, <1>3
    <3> QED BY <3>1
  <2>2. CASE i # Len(s)
    <3>1. i \in 1..(Len(s) - 1) /\ i + 1 \in 1..Len(s)
      BY <2>2, <1>1
    <3>2. t[i + 1] = s[i + 1] /\ t[i] = s[i]
      BY <3>1, <1>3
    <3> QED BY <3>1, <3>2
  <2> QED BY <2>1, <2>2
<1>6. Len(t) > 0 /\ t[Len(t)] = n /\ 1..(Len(t) - 1) = 1..Len(s)
  BY <1>1, <1>2
<1>7. \A i \in 1..(Len(t) - 1) : t[i + 1] - t[i] \in {0, 1}
  BY <1>5, <1>6
<1> QED BY <1>2, <1>4, <1>6, <1>7 DEF t

\* A notification keeps the invariant, and hands nothing over once an uplink
\* is out.
LEMMA NotifiedKeeps == Inv /\ Notified => Inv' /\ (handed' # handed => ~closed')
<1> SUFFICES ASSUME Inv, Notified
             PROVE  Inv' /\ (handed' # handed => ~closed')
  OBVIOUS
<1>1. handed \in Seq(1..MaxPackets) /\ received \in Nat
  BY BoundAssumption DEF Inv, TypeOK
<1>2. handed' \in Seq(1..MaxPackets) /\ InOrder'
  <2>1. CASE info'.packet > 0 /\ handed' = Append(handed, info'.packet)
    <3>1. /\ info'.packet \in 1..MaxPackets /\ info'.packet = received'
          /\ info'.packet = received \/ info'.packet = received + 1
      BY <2>1, BoundAssumption DEF Notified
    <3>2. /\ handed' \in Seq(1..MaxPackets)
          /\ Len(handed') > 0 /\ handed'[1] = 1 /\ handed'[Len(handed')] = info'.packet
          /\ \A j \in 1..(Len(handed') - 1) : handed'[j + 1] - handed'[j] \in {0, 1}
      BY <2>1, <3>1, <1>1, AppendInOrder DEF Inv, InOrder
    <3> QED BY <3>1, <3>2 DEF InOrder
  <2>2. CASE info'.packet = 0 /\ handed' = handed
    <3>1. received' = received
      BY <2>2, <1>1 DEF Notified
    <3> QED BY <2>2, <3>1, <1>1 DEF InOrder, Inv
  <2> QED BY <2>1, <2>2 DEF Notified
<1>3. TypeOK' /\ Current'
  BY <1>2 DEF Notified, TypeOK, Current
<1>4. handed' # handed => ~closed'
  <2>1. handed' # handed => info'.packet # 0
    BY DEF Notified
  <2> QED BY <2>1 DEF Notified
<1> QED BY <1>2, <1>3, <1>4 DEF Inv

\* Every callback is such a notification.
LEMMA NextNotifies == Inv /\ Next => Notified
<1> SUFFICES ASSUME Inv, Next
             PROVE  Notified
  OBVIOUS
<1>1. /\ flags \subseteq Flags /\ received \in 0..MaxPackets /\ closed \in BOOLEAN
      /\ info \in [packet : 0..MaxPackets, duplicate : BOOLEAN]
      /\ info.packet \in {0, received} /\ (closed => info.packet = 0)
  BY DEF Inv, TypeOK, Current
<1>2. CASE TxDone
  BY <1>2, <1>1, BoundAssumption DEF TxDone, Notify, MacEvent, NoInfo, Notified, Flags
<1>3. CASE TxTimeout
  BY <1>3, <1>1 DEF TxTimeout, Notify, MacEvent, Notified, Flags
<1>4. CASE JoinAnswer
  BY <1>4, <1>1 DEF JoinAnswer, Notify, MacEvent, Notified, Flags
<1>5. CASE PacketRx
  <2>1. CASE /\ received < MaxPackets /\ received' = received + 1
             /\ closed' = FALSE /\ Take(received + 1, FALSE)
    <3>1. received + 1 \in 1..MaxPackets
      BY <2>1, <1>1, BoundAssumption
    <3>2. /\ info' = [packet |-> received + 1, duplicate |-> FALSE]
          /\ flags' = (flags \ {"Tx", "RxData"}) \union {"Rx"}
                         \union (IF received + 1 > 0 THEN {"RxData"} ELSE {})
          /\ handed' = Append(handed, received + 1)
      BY <2>1, <3>1 DEF Take, Notify, MacEvent
    <3>3. info' \in [packet : 0..MaxPackets, duplicate : BOOLEAN]
      BY <3>1, <3>2
    <3>4. flags' \subseteq Flags
      BY <1>1, <3>2 DEF Flags
    <3>5. info'.packet = received' /\ received' \in 1..MaxPackets
      BY <2>1, <3>1, <3>2
    <3>6. received' \in 0..MaxPackets /\ info'.packet > 0
      BY <3>5, BoundAssumption
    <3>7. handed' = Append(handed, info'.packet)
      BY <3>2
    <3> QED BY <2>1, <3>3, <3>4, <3>5, <3>6, <3>7 DEF Notified
  <2>2. CASE Take(0, FALSE) /\ UNCHANGED <<received, closed>>
    BY <2>2, <1>1, BoundAssumption DEF Take, Notify, MacEvent, Notified, Flags
  <2>3. CASE /\ received > 0 /\ Take(received, TRUE)
             /\ closed' = FALSE /\ UNCHANGED received
    <3>1. /\ info' = [packet |-> received, duplicate |-> TRUE]
          /\ flags' \subseteq Flags
          /\ handed' = Append(handed, received)
      BY <2>3, <1>1, BoundAssumption DEF Take, Notify, MacEvent, Flags
    <3>2. info' \in [packet : 0..MaxPackets, duplicate : BOOLEAN] /\ info'.packet = received
      BY <1>1, <3>1
    <3> QED BY <2>3, <1>1, <3>1, <3>2 DEF Notified
  <2> QED BY <1>5, <2>1, <2>2, <2>3 DEF PacketRx
<1>6. CASE NetworkLinkCheck
  BY <1>6, <1>1 DEF NetworkLinkCheck, Notify, MacEvent, Notified, Flags
<1>7. CASE RxTimeout
  BY <1>7, <1>1 DEF RxTimeout, Notify, MacEvent, Notified, Flags
<1>8. CASE RxError
  BY <1>8, <1>1, BoundAssumption DEF RxError, Notify, MacEvent, NoInfo, Notified, Flags
<1> QED BY <1>2, <1>3, <1>4, <1>5, <1>6, <1>7, <1>8 DEF Next

LEMMA StepKeeps == Inv /\ [Next]_vars => Inv' /\ (handed' # handed => ~closed')
<1>1. ASSUME Inv, UNCHANGED vars
      PROVE  Inv' /\ (handed' # handed => ~closed')
  BY <1>1 DEF vars, Inv, TypeOK, InOrder, Current
<1> QED BY <1>1, NotifiedKeeps, NextNotifies

LEMMA InitHolds == Init => Inv
<1> SUFFICES ASSUME Init
             PROVE  Inv
  OBVIOUS
<1>1. TypeOK
  <2>1. handed \in Seq(1..MaxPackets)
    BY DEF Init
  <2>2. received \in 0..MaxPackets /\ info \in [packet : 0..MaxPackets, duplicate : BOOLEAN]
    BY BoundAssumption DEF Init, NoInfo
  <2> QED BY <2>1, <2>2 DEF Init, TypeOK
<1>2. InOrder
  BY DEF Init, InOrder
<1>3. Current
  BY DEF Init, Current, NoInfo
<1> QED BY <1>1, <1>2, <1>3 DEF Inv

\* Every downlink reaches the application, in the order of arrival, and what
\* is repeated is repeated in a row, whatever other events the library
\* signals (EventSlot::MacEvent, mDotEvent::PacketRx).
THEOREM DownlinksInOrder == Spec => []InOrder
<1>1. Inv /\ [Next]_vars => Inv'
  BY StepKeeps
<1>2. Inv => InOrder
  BY DEF Inv
<1> QED BY InitHolds, <1>1, <1>2, PTL DEF Spec

\* No event after an uplink is out hands over a packet that came before it
\* (the memset of mDotEvent::TxDone and RxError).
THEOREM ReplaysEnd == Spec => NoLateReplay
<1>1. Inv /\ [Next]_vars => Inv'
  BY StepKeeps
<1>2. Inv /\ [Next]_vars => [handed' # handed => ~closed']_vars
  BY StepKeeps
<1> QED BY InitHolds, <1>1, <1>2, PTL DEF Spec, NoLateReplay

\* The events keep their types: what is handed over is a packet that arrived.
THEOREM TypesHold == Spec => []TypeOK
<1>1. Inv /\ [Next]_vars => Inv'
  BY StepKeeps
<1>2. Inv => TypeOK
  BY DEF Inv
<1> QED BY InitHolds, <1>1, <1>2, PTL DEF Spec

\* A notification is a step of the promise, or none.
LEMMA NotifiedRefines ==
  ASSUME Inv, Notified
  PROVE  [Box!Next]_(Box!vars)
<1>1. received \in Nat /\ closed \in BOOLEAN /\ closed' \in BOOLEAN
  BY BoundAssumption DEF Inv, TypeOK, Notified
<1>2. CASE info'.packet > 0 /\ handed' = Append(handed, info'.packet)
  <2>1. info'.packet = received' /\ ~closed'
    BY <1>2 DEF Notified
  <2>2. CASE received' = received + 1
    BY <1>1, <1>2, <2>1, <2>2 DEF Box!Next, Box!Deliver
  <2>3. CASE received' = received
    BY <1>1, <1>2, <2>1, <2>3 DEF Box!Next, Box!Repeat
  <2> QED BY <2>2, <2>3 DEF Notified
<1>3. CASE info'.packet = 0 /\ handed' = handed /\ (closed' \/ closed' = closed)
  <2>1. received' = received
    BY <1>1, <1>3 DEF Notified
  <2>2. CASE closed'
    BY <1>3, <2>1, <2>2 DEF Box!Next, Box!Shut
  <2>3. CASE closed' = closed
    BY <1>3, <2>1, <2>3 DEF Box!vars
  <2> QED BY <1>3, <2>2, <2>3
<1> QED BY <1>2, <1>3 DEF Notified

\* The callbacks and MacEvent implement the promise made to payloadParser.
THEOREM KeepsPromise == Spec => AsPromised
<1>1. Init => Box!Init
  BY DEF Init, Box!Init
<1>2. Inv /\ [Next]_vars => [Box!Next]_(Box!vars)
  BY NextNotifies, NotifiedRefines DEF vars, Box!vars
<1>3. Inv /\ [Next]_vars => Inv'
  BY StepKeeps
<1> QED BY InitHolds, <1>1, <1>2, <1>3, PTL DEF Spec, AsPromised, Box!Spec

=============================================================================
