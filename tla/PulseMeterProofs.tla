--------------------------- MODULE PulseMeterProofs ---------------------------
(* The account of the pulses, for every counter and every width of its words. *)
EXTENDS PulseMeter, TLAPS

\* How the filter, the timeout and the contact go together: a closed contact
\* that still chatters is already in the filter, so it is not counted twice.
Debounce ==
  /\ NeverDeaf
  /\ filtering \/ settling => counter.filter
  /\ settling /\ contact => filtering

\* tx_data is new in every pass: it is empty until it is built.
Fresh == pc \notin {"send", "wait"} => frame = {}

Inv == TypeOK /\ Debounce /\ Fresh /\ NeverTwice /\ PulsesAccounted

-----------------------------------------------------------------------------
(* Arithmetic                                                              *)

LEMMA Units ==
  ASSUME NEW d \in Nat \ {0}, NEW n \in Nat
  PROVE  /\ n \div d \in Nat /\ d * (n \div d) <= n
         /\ n % d = 0 => d * (n \div d) = n
OBVIOUS

LEMMA Cut ==
  ASSUME NEW b \in Nat \ {0}, NEW n \in Nat
  PROVE  /\ n % b \in 0..(b - 1) /\ n % b <= n
         /\ n < b => n % b = n
OBVIOUS

LEMMA Scaled ==
  ASSUME NEW d \in Nat, NEW x \in Nat, NEW y \in Nat
  PROVE  /\ d * x \in Nat /\ d * (x + y) = d * x + d * y
         /\ x <= y => d * x <= d * y
OBVIOUS

LEMMA Shifted ==
  ASSUME NEW k \in Nat, NEW m \in Nat, NEW k2 \in Nat, NEW m2 \in Nat,
         k <= m
  PROVE  /\ k2 + m <= k + m2 => k2 <= m2
         /\ k2 + m = k + m2 => k2 <= m2 /\ (k = m => k2 = m2)
OBVIOUS

\* An account of b + w + f units after w and f have become w2 and f2.
LEMMA Moved ==
  ASSUME NEW b \in Nat, NEW w \in Nat, NEW w2 \in Nat, NEW f \in {0, 1},
         NEW m \in {0, 1}, NEW n \in Nat
  PROVE  /\ w2 = w + 1 =>
              (b + w2 + (f - (1 - m))) + n = (b + w + f) + (n + m)
         /\ w2 <= w =>
              (b + w2 + (f - (1 - m))) + n <= (b + w + f) + (n + m)
OBVIOUS

-----------------------------------------------------------------------------
(* What the steps do to the account                                        *)

\* No account without the types.
LEMMA Sorts ==
  ASSUME TypeOK
  PROVE  /\ counter.divisor \in Nat \ {0} /\ counter.filter \in BOOLEAN
         /\ count \in Nat /\ pulses \in Nat /\ InHand \in Nat /\ Waiting \in Nat
         /\ InFilter \in {0, 1} /\ made \in Nat /\ told \in Nat
         /\ Known \in Nat
<1>1. counter.divisor \in Nat \ {0} /\ counter.filter \in BOOLEAN
  BY CounterAssumption DEF TypeOK
<1>2. count \in Nat /\ pulses \in Nat /\ made \in Nat /\ told \in Nat
  BY WordAssumption DEF TypeOK
<1>3. InHand \in Nat /\ Waiting \in Nat /\ InFilter \in {0, 1}
  BY <1>2 DEF InHand, Waiting, InFilter
<1>4. Known \in Nat
  <2>1. counter.divisor * (told + InHand) \in Nat
    BY <1>1, <1>2, <1>3
  <2> QED BY <2>1, <1>3 DEF Known
<1> QED BY <1>1, <1>2, <1>3, <1>4

\* The account moves with the pulses made, or falls behind for a reason that is
\* recorded.
Balanced ==
  /\ losses \subseteq losses'
  /\ \/ Known' + made = Known + made'
     \/ Known' + made <= Known + made' /\ losses' # {}

LEMMA BalancedKeeps ==
  ASSUME Inv, TypeOK', Balanced
  PROVE  NeverTwice' /\ PulsesAccounted'
<1>1. Known \in Nat /\ made \in Nat
  BY Sorts DEF Inv
<1>2. Known' \in Nat /\ made' \in Nat
  <2>1. counter'.divisor \in Nat \ {0} /\ told' \in Nat /\ count' \in Nat /\ pulses' \in Nat
         /\ made' \in Nat
    BY CounterAssumption, WordAssumption DEF TypeOK
  <2>2. InHand' \in Nat /\ Waiting' \in Nat /\ InFilter' \in {0, 1}
    BY <2>1 DEF InHand, Waiting, InFilter
  <2>3. counter'.divisor * (told' + InHand') \in Nat
    BY <2>1, <2>2
  <2> QED BY <2>1, <2>2, <2>3 DEF Known
<1>3. Known <= made /\ (losses = {} => Known = made)
  BY DEF Inv, NeverTwice, PulsesAccounted
<1>4. losses' = {} => losses = {}
  BY DEF Balanced
<1>5. CASE Known' + made = Known + made'
  <2>1. Known <= made
    BY <1>3
  <2>2. Known' <= made'
    BY <1>1, <1>2, <1>5, <2>1
  <2>3. Known = made => Known' = made'
    BY <1>1, <1>2, <1>5
  <2> QED BY <1>3, <1>4, <2>2, <2>3 DEF NeverTwice, PulsesAccounted
<1>6. CASE Known' + made <= Known + made' /\ losses' # {}
  <2>1. Known' <= made'
    BY <1>1, <1>2, <1>3, <1>6, Shifted
  <2> QED BY <1>6, <2>1 DEF NeverTwice, PulsesAccounted
<1> QED BY <1>5, <1>6 DEF Balanced

\* One more count: what waits grows by one, unless it is lost.
LEMMA Counted ==
  ASSUME TypeOK, Increment, UNCHANGED <<counter, loopVars>>
  PROVE  /\ count' \in 0..(CountWord - 1)
         /\ losses \subseteq losses' /\ losses' \subseteq Reasons
         /\ InHand' = InHand /\ counter' = counter /\ told' = told
         /\ Waiting' \in Nat
         /\ \/ Waiting' = Waiting + 1
            \/ Waiting' <= Waiting /\ losses' # {}
<1>1. count \in Nat /\ count < CountWord /\ CountWord \in Nat \ {0}
  BY WordAssumption DEF TypeOK
<1>2. count' = (count + 1) % CountWord
  BY DEF Increment
<1>3. count' \in 0..(CountWord - 1)
  BY <1>1, <1>2, Cut
<1>4. losses \subseteq losses' /\ losses' \subseteq Reasons
  BY DEF Increment, Loss, TypeOK, Reasons
<1>5. pc' = pc /\ InHand' = InHand /\ told' = told
  BY DEF loopVars, InHand
<1>6. CASE pc = "reset"
  <2>1. losses' # {}
    BY <1>6 DEF Increment, Loss
  <2>2. Waiting = 0 /\ Waiting' = 0
    BY <1>5, <1>6 DEF Waiting
  <2> QED BY <1>3, <1>4, <1>5, <2>1, <2>2
<1>7. CASE pc # "reset"
  <2>1. Waiting = count /\ Waiting' = count'
    BY <1>5, <1>7 DEF Waiting
  <2>2. CASE count + 1 = CountWord
    <3>1. count' = 0
      BY <1>1, <1>2, <2>2
    <3>2. losses' # {}
      BY <2>2 DEF Increment, Loss
    <3> QED BY <1>1, <1>3, <1>4, <1>5, <2>1, <3>1, <3>2
  <2>3. CASE count + 1 # CountWord
    <3>1. count' = count + 1
      <4>1. count + 1 \in Nat /\ count + 1 < CountWord
        BY <1>1, <2>3
      <4> QED BY <1>1, <1>2, <4>1, Cut
    <3> QED BY <1>1, <1>3, <1>4, <1>5, <2>1, <3>1
  <2> QED BY <2>2, <2>3
<1> QED BY <1>6, <1>7

\* The interrupt of a counter without a filter, or of one whose timeout fires:
\* the contact has made m pulses more, f of which leave the filter.
LEMMA CountedBalances ==
  ASSUME TypeOK, Increment, UNCHANGED <<counter, loopVars>>,
         NEW m \in {0, 1}, made' = made + m, InFilter' = InFilter - (1 - m)
  PROVE  Balanced
<1>1. /\ losses \subseteq losses'
      /\ InHand' = InHand /\ counter' = counter /\ told' = told
      /\ Waiting' \in Nat
      /\ \/ Waiting' = Waiting + 1
         \/ Waiting' <= Waiting /\ losses' # {}
  BY Counted
<1>2. made \in Nat /\ Waiting \in Nat /\ InFilter \in {0, 1}
  BY Sorts
<1> DEFINE b == counter.divisor * (told + InHand)
<1>3. b \in Nat
  <2>1. counter.divisor \in Nat /\ told \in Nat /\ InHand \in Nat
    BY Sorts
  <2> QED BY <2>1
<1>4. Known = b + Waiting + InFilter /\ Known' = b + Waiting' + InFilter'
  BY <1>1 DEF Known
<1> HIDE DEF b
<1>5. CASE Waiting' = Waiting + 1
  <2>1. Known' + made = Known + made'
    BY <1>1, <1>2, <1>3, <1>4, <1>5, Moved
  <2> QED BY <1>1, <2>1 DEF Balanced
<1>6. CASE Waiting' <= Waiting /\ losses' # {}
  <2>1. Known' + made <= Known + made'
    BY <1>1, <1>2, <1>3, <1>4, <1>6, Moved
  <2> QED BY <1>1, <1>6, <2>1 DEF Balanced
<1> QED BY <1>1, <1>5, <1>6

\* What the loop does to the account: units move between what is told, in
\* hand and waiting.
Moves ==
  /\ UNCHANGED <<counter, lineVars, debounceVars>>
  /\ losses \subseteq losses'
  /\ \/ counter.divisor * (told' + InHand') + Waiting' = counter.divisor * (told + InHand) + Waiting
     \/ /\ counter.divisor * (told' + InHand') + Waiting' <= counter.divisor * (told + InHand) + Waiting
        /\ losses' # {}

LEMMA MovesBalance ==
  ASSUME TypeOK, TypeOK', Moves
  PROVE  Balanced
<1> DEFINE k == counter.divisor * (told + InHand) + Waiting
           l == counter.divisor * (told' + InHand') + Waiting'
<1>1. k \in Nat /\ InFilter \in {0, 1} /\ made \in Nat
  <2>1. /\ counter.divisor \in Nat /\ told \in Nat /\ InHand \in Nat /\ Waiting \in Nat
        /\ InFilter \in {0, 1} /\ made \in Nat
    BY Sorts
  <2> QED BY <2>1
<1>2. l \in Nat
  <2>1. /\ counter'.divisor \in Nat \ {0} /\ told' \in Nat /\ count' \in Nat /\ pulses' \in Nat
    BY CounterAssumption, WordAssumption DEF TypeOK
  <2>2. InHand' \in Nat /\ Waiting' \in Nat /\ counter' = counter
    BY <2>1 DEF InHand, Waiting, Moves
  <2> QED BY <2>1, <2>2
<1>3. InFilter' = InFilter /\ made' = made /\ counter' = counter
  BY DEF Moves, InFilter, lineVars, debounceVars
<1>4. Known = k + InFilter /\ Known' = l + InFilter
  BY <1>3 DEF Known
<1>5. l = k \/ (l <= k /\ losses' # {})
  BY DEF Moves
<1>6. losses \subseteq losses'
  BY DEF Moves
<1> HIDE DEF k, l
<1>7. CASE l = k
  <2>1. Known' + made = Known + made'
    BY <1>3, <1>4, <1>7
  <2> QED BY <1>6, <2>1 DEF Balanced
<1>8. CASE l <= k /\ losses' # {}
  <2>1. (l + InFilter) + made <= (k + InFilter) + made
    BY <1>1, <1>2, <1>8
  <2>2. Known' + made <= Known + made'
    BY <1>3, <1>4, <2>1
  <2> QED BY <1>6, <1>8, <2>2 DEF Balanced
<1> QED BY <1>5, <1>7, <1>8

-----------------------------------------------------------------------------
(* The steps                                                               *)

\* The filter opens and shuts with its timeout, and a pulse enters it with the
\* first edge only.
LEMMA DebounceKept == Inv /\ [Next]_vars => Debounce'
<1> SUFFICES ASSUME Inv, [Next]_vars
             PROVE  Debounce'
  OBVIOUS
<1>1. /\ filtering \in BOOLEAN /\ armed \in BOOLEAN /\ settling \in BOOLEAN /\ contact \in BOOLEAN
      /\ counter.filter \in BOOLEAN
      /\ filtering <=> armed
      /\ filtering \/ settling => counter.filter
      /\ settling /\ contact => filtering
  BY Sorts DEF Inv, TypeOK, Debounce, NeverDeaf
<1> USE DEF Debounce, NeverDeaf, lineVars, debounceVars
<1>2. CASE Main \/ LoseNetwork
  <2>1. UNCHANGED <<counter, lineVars, debounceVars>>
    BY <1>2 DEF Main, LoseNetwork, Join, ReadCount, ResetCount, BuildFrame, SendFrame, EndWait
  <2> QED BY <1>1, <2>1
<1>3. CASE FilterCall
  BY <1>1, <1>3 DEF FilterCall
<1>4. CASE Close
  BY <1>1, <1>4 DEF Close, Steady, ActiveEdge, FilterInit
<1>5. CASE Open
  BY <1>1, <1>5 DEF Open, Steady
<1>6. CASE Chatter
  BY <1>1, <1>6 DEF Chatter, ActiveEdge, FilterInit
<1>7. CASE Settle
  BY <1>1, <1>7 DEF Settle
<1>8. CASE UNCHANGED vars
  BY <1>1, <1>8 DEF vars
<1> QED BY <1>2, <1>3, <1>4, <1>5, <1>6, <1>7, <1>8 DEF Next

LEMMA FreshKept == Inv /\ [Next]_vars => Fresh'
<1> SUFFICES ASSUME Inv, [Next]_vars
             PROVE  Fresh'
  OBVIOUS
<1>1. CASE Main
  BY <1>1 DEF Inv, Fresh, Main, Join, ReadCount, ResetCount, BuildFrame, SendFrame, EndWait
<1>2. CASE ~Main
  <2>1. pc' = pc /\ frame' = frame
    BY <1>2 DEF Next, vars, loopVars, FilterCall, Close, Open, Chatter, Settle, LoseNetwork
  <2> QED BY <2>1 DEF Inv, Fresh
<1> QED BY <1>1, <1>2

\* The contact and the filter: the account follows the pulses made.
LEMMA LineBalances ==
  ASSUME Inv, FilterCall \/ Close \/ Open \/ Chatter \/ Settle
  PROVE  Balanced /\ TypeOK'
<1>1. /\ TypeOK /\ InFilter \in {0, 1} /\ made \in Nat /\ MaxPulses \in Nat
      /\ Known \in Nat
  BY Sorts, WordAssumption DEF Inv
<1>2. /\ filtering \in BOOLEAN /\ armed \in BOOLEAN /\ settling \in BOOLEAN /\ contact \in BOOLEAN
      /\ counter.filter \in BOOLEAN
      /\ filtering <=> armed
      /\ filtering \/ settling => counter.filter
      /\ settling /\ contact => filtering
  BY Sorts DEF Inv, TypeOK, Debounce, NeverDeaf
<1>3. ASSUME UNCHANGED <<counter, made, count, losses, loopVars>>, InFilter' = InFilter
      PROVE  Balanced
  <2>1. Known' = Known /\ made' = made /\ losses' = losses
    BY <1>3 DEF Known, InHand, Waiting, loopVars
  <2> QED BY <2>1 DEF Balanced
<1>4. ASSUME Increment, UNCHANGED <<counter, loopVars, joined>>, made' \in 0..MaxPulses,
             contact' \in BOOLEAN, settling' \in BOOLEAN,
             filtering' \in BOOLEAN, armed' \in BOOLEAN
      PROVE  TypeOK'
  <2>1. count' \in 0..(CountWord - 1) /\ losses' \subseteq Reasons
    BY <1>1, <1>4, Counted
  <2> QED BY <1>1, <1>4, <2>1 DEF TypeOK, loopVars
<1>5. CASE FilterCall
  <2>1. CASE contact /\ Increment
    <3>1. InFilter = 1 /\ InFilter' = 0
      BY <1>2, <1>5 , <2>1 DEF FilterCall, InFilter
    <3>2. made' = made + 0 /\ InFilter' = InFilter - (1 - 0)
      BY <1>1, <1>5, <3>1 DEF FilterCall, lineVars
    <3>3. Balanced
      BY <1>1, <1>5, <2>1, <3>2, CountedBalances DEF FilterCall
    <3>4. TypeOK'
      BY <1>1, <1>4, <1>5, <2>1 DEF FilterCall, lineVars, TypeOK
    <3> QED BY <3>3, <3>4
  <2>2. CASE ~contact /\ UNCHANGED <<count, losses>>
    <3>1. InFilter' = InFilter
      BY <1>2, <1>5, <2>2 DEF FilterCall, InFilter, lineVars
    <3>2. TypeOK'
      BY <1>1, <1>5, <2>2 DEF FilterCall, lineVars, loopVars, TypeOK
    <3> QED BY <1>3, <1>5, <2>2, <3>1, <3>2 DEF FilterCall, lineVars
  <2> QED BY <1>5, <2>1, <2>2 DEF FilterCall
<1>6. CASE Close
  <2>1. made' = made + 1 /\ made' \in 0..MaxPulses
    BY <1>1, <1>6 DEF Close, TypeOK
  <2>2. CASE counter.filter /\ FilterInit
    <3>1. InFilter = 0 /\ InFilter' = 1
      BY <1>2, <1>6, <2>2 DEF Close, Steady, FilterInit, InFilter
    <3>2. losses' = losses /\ Known' = Known + 1
      <4>1. losses' = losses /\ InHand' = InHand /\ Waiting' = Waiting /\ counter' = counter /\ told' = told
        BY <1>6, <2>2 DEF Close, FilterInit, loopVars, InHand, Waiting
      <4> DEFINE k == counter.divisor * (told + InHand) + Waiting
      <4>2. Known = k + 0 /\ Known' = k + 1
        BY <4>1, <3>1 DEF Known
      <4>3. k \in Nat
        <5>1. counter.divisor \in Nat /\ told \in Nat /\ InHand \in Nat /\ Waiting \in Nat
          BY <1>1, Sorts
        <5> QED BY <5>1
      <4> HIDE DEF k
      <4> QED BY <4>1, <4>2, <4>3
    <3>3. Known' + made = Known + made'
      BY <1>1, <2>1, <3>2
    <3>4. TypeOK'
      BY <1>1, <1>2, <1>6, <2>1, <2>2 DEF Close, FilterInit, debounceVars, loopVars, TypeOK
    <3> QED BY <3>2, <3>3, <3>4 DEF Balanced
  <2>3. CASE ~counter.filter /\ Increment /\ UNCHANGED debounceVars
    <3>1. InFilter' = InFilter - (1 - 1)
      BY <1>1, <1>6, <2>3 DEF Close, InFilter
    <3>2. Balanced
      BY <1>1, <1>6, <2>1, <2>3, <3>1, CountedBalances DEF Close
    <3>3. TypeOK'
      BY <1>2, <1>4, <1>6, <2>1, <2>3 DEF Close, debounceVars
    <3> QED BY <3>2, <3>3
  <2> QED BY <1>6, <2>2, <2>3 DEF Close, ActiveEdge
<1>7. CASE Open
  <2>1. InFilter' = InFilter
    BY <1>2, <1>7 DEF Open, Steady, InFilter, debounceVars
  <2>2. TypeOK'
    BY <1>1, <1>2, <1>7 DEF Open, debounceVars, loopVars, TypeOK
  <2> QED BY <1>3, <1>7, <2>1, <2>2 DEF Open
<1>8. CASE Chatter
  <2>1. counter.filter /\ FilterInit
    BY <1>2, <1>8 DEF Chatter, ActiveEdge
  <2>2. InFilter' = InFilter
    BY <1>2, <1>8, <2>1 DEF Chatter, FilterInit, InFilter, lineVars, debounceVars
  <2>3. TypeOK'
    BY <1>1, <1>8, <2>1 DEF Chatter, FilterInit, lineVars, debounceVars, loopVars, TypeOK
  <2> QED BY <1>3, <1>8, <2>1, <2>2, <2>3 DEF Chatter, FilterInit, lineVars
<1>9. CASE Settle
  <2>1. InFilter' = InFilter
    BY <1>9 DEF Settle, InFilter, debounceVars
  <2>2. TypeOK'
    BY <1>1, <1>9 DEF Settle, debounceVars, loopVars, TypeOK
  <2> QED BY <1>3, <1>9, <2>1, <2>2 DEF Settle
<1> QED BY <1>5, <1>6, <1>7, <1>8, <1>9

\* The main loop and the network: what is cut or not sent is recorded.
LEMMA LoopBalances ==
  ASSUME Inv, Main \/ LoseNetwork
  PROVE  Balanced /\ TypeOK'
<1>1. /\ TypeOK /\ counter.divisor \in Nat \ {0} /\ count \in Nat /\ pulses \in Nat /\ told \in Nat
      /\ ByteWord \in Nat \ {0} /\ CountWord \in Nat \ {0}
  BY Sorts, WordAssumption DEF Inv
<1> DEFINE d == counter.divisor
<1> SUFFICES Moves /\ TypeOK'
  BY <1>1, MovesBalance
<1>2. ASSUME UNCHANGED <<counter, lineVars, debounceVars, told>>, losses \subseteq losses',
             InHand' = InHand, Waiting' = Waiting
      PROVE  Moves
  BY <1>2 DEF Moves
<1>3. CASE Join
  <2>1. InHand' = InHand /\ Waiting' = Waiting
    BY <1>3 DEF Join, InHand, Waiting
  <2>2. TypeOK'
    BY <1>1, <1>3 DEF Join, lineVars, debounceVars, TypeOK, Steps
  <2> QED BY <1>2, <1>3, <2>1, <2>2 DEF Join
<1>4. CASE ReadCount
  <2> DEFINE units == count \div d
  <2>1. /\ units \in Nat /\ d * units <= count
        /\ count % d = 0 => d * units = count
    BY <1>1, Units
  <2>2. /\ units % ByteWord \in 0..(ByteWord - 1) /\ units % ByteWord <= units
        /\ units < ByteWord => units % ByteWord = units
    BY <1>1, <2>1, Cut
  <2>3. /\ pulses' = units % ByteWord /\ UNCHANGED <<counter, lineVars, debounceVars, count, frame, told, joined>>
        /\ pc = "read" /\ pc' = "reset" /\ losses \subseteq losses'
        /\ units >= ByteWord \/ count % d # 0 => losses' # {}
        /\ losses' \subseteq losses \union Reasons
    BY <1>4 DEF ReadCount, Loss, Reasons
  <2>4. InHand = 0 /\ InHand' = pulses' /\ Waiting = count /\ Waiting' = 0
    BY <2>3 DEF InHand, Waiting
  <2> HIDE DEF units
  <2>5. pulses' \in Nat /\ pulses' <= units
    BY <1>1, <2>2, <2>3
  <2>6. d * (told + InHand) = d * told /\ d * (told + InHand') = d * told + d * pulses'
    BY <1>1, <2>4, <2>5, Scaled
  <2>7. d * told \in Nat /\ d * pulses' \in Nat /\ d * units \in Nat /\ d * pulses' <= d * units
    BY <1>1, <2>1, <2>5, Scaled
  <2>8. d * (told + InHand') + Waiting' <= d * (told + InHand) + Waiting
    BY <1>1, <2>1, <2>4, <2>6, <2>7
  <2>9. Moves
    <3>1. CASE units >= ByteWord \/ count % d # 0
      BY <2>3, <2>8, <3>1 DEF Moves
    <3>2. CASE ~(units >= ByteWord \/ count % d # 0)
      <4>1. pulses' = units /\ d * units = count
        BY <1>1, <2>1, <2>2, <2>3, <3>2
      <4>2. d * (told + InHand') + Waiting' = d * (told + InHand) + Waiting
        BY <1>1, <2>4, <2>6, <2>7, <4>1
      <4> QED BY <2>3, <4>2 DEF Moves
    <3> QED BY <3>1, <3>2
  <2>10. TypeOK'
    <3>1. frame = {}
      BY <2>3 DEF Inv, Fresh
    <3>2. losses' \subseteq Reasons
      BY <1>1, <2>3 DEF TypeOK
    <3> QED BY <1>1, <2>2, <2>3, <3>1, <3>2 DEF lineVars, debounceVars, TypeOK, Steps
  <2> QED BY <2>9, <2>10
<1>5. CASE ResetCount
  <2>1. InHand' = InHand /\ Waiting' = Waiting
    BY <1>5 DEF ResetCount, InHand, Waiting
  <2>2. TypeOK'
    BY <1>1, <1>5 DEF ResetCount, lineVars, debounceVars, TypeOK, Steps
  <2> QED BY <1>2, <1>5, <2>1, <2>2 DEF ResetCount
<1>6. CASE BuildFrame
  <2>1. InHand' = InHand /\ Waiting' = Waiting
    BY <1>6 DEF BuildFrame, InHand, Waiting
  <2>2. TypeOK'
    BY <1>1, <1>6 DEF BuildFrame, lineVars, debounceVars, TypeOK, Steps
  <2> QED BY <1>2, <1>6, <2>1, <2>2 DEF BuildFrame
<1>7. CASE SendFrame
  <2>1. /\ pc = "send" /\ pc' = "wait"
        /\ UNCHANGED <<counter, lineVars, debounceVars, count, pulses, frame, joined>>
    BY <1>7 DEF SendFrame
  <2>2. InHand = pulses /\ InHand' = 0 /\ Waiting' = Waiting /\ Waiting = count
    BY <2>1 DEF InHand, Waiting
  <2>3. d * (told + InHand) = d * told + d * pulses /\ d * told \in Nat /\ d * pulses \in Nat
    BY <1>1, <2>2, Scaled
  <2>4. CASE joined /\ (\E n \in frame : told' = told + n) /\ UNCHANGED losses
    <3>1. told' = told + pulses
      BY <1>1, <2>4 DEF TypeOK
    <3>2. told' + InHand' = told + InHand
      BY <1>1, <2>2, <3>1
    <3>3. Moves
      BY <2>1, <2>2, <2>4, <3>2 DEF Moves
    <3>4. TypeOK'
      BY <1>1, <2>1, <2>4, <3>1 DEF lineVars, debounceVars, TypeOK, Steps
    <3> QED BY <3>3, <3>4
  <2>5. CASE told' = told /\ losses' = losses \union Loss("unsent", pulses > 0)
    <3>1. d * (told' + InHand') = d * told
      BY <1>1, <2>2, <2>5
    <3>2. d * (told' + InHand') + Waiting' <= d * (told + InHand) + Waiting
      BY <1>1, <2>2, <2>3, <3>1
    <3>3. losses \subseteq losses' /\ losses' \subseteq Reasons
      BY <1>1, <2>5 DEF Loss, TypeOK, Reasons
    <3>4. Moves
      <4>1. CASE pulses > 0
        <5>1. losses' # {}
          BY <2>5, <4>1 DEF Loss
        <5> QED BY <2>1, <3>2, <3>3, <5>1 DEF Moves
      <4>2. CASE ~(pulses > 0)
        <5>1. told' + InHand' = told + InHand
          BY <1>1, <2>2, <2>5, <4>2
        <5> QED BY <2>1, <2>2, <3>3, <5>1 DEF Moves
      <4> QED BY <4>1, <4>2
    <3>5. TypeOK'
      BY <1>1, <2>1, <2>5, <3>3 DEF lineVars, debounceVars, TypeOK, Steps
    <3> QED BY <3>4, <3>5
  <2> QED BY <1>7, <2>4, <2>5 DEF SendFrame
<1>8. CASE EndWait
  <2>1. InHand' = InHand /\ Waiting' = Waiting
    BY <1>8 DEF EndWait, InHand, Waiting
  <2>2. TypeOK'
    BY <1>1, <1>8 DEF EndWait, lineVars, debounceVars, TypeOK, Steps
  <2> QED BY <1>2, <1>8, <2>1, <2>2 DEF EndWait
<1>9. CASE LoseNetwork
  <2>1. InHand' = InHand /\ Waiting' = Waiting /\ told' = told
    BY <1>9 DEF LoseNetwork, loopVars, InHand, Waiting
  <2>2. TypeOK'
    BY <1>1, <1>9 DEF LoseNetwork, lineVars, debounceVars, loopVars, TypeOK, Steps
  <2> QED BY <1>2, <1>9, <2>1, <2>2 DEF LoseNetwork
<1> QED BY <1>3, <1>4, <1>5, <1>6, <1>7, <1>8, <1>9 DEF Main

LEMMA StepKeeps == Inv /\ [Next]_vars => Inv'
<1> SUFFICES ASSUME Inv, [Next]_vars
             PROVE  Inv'
  OBVIOUS
<1>1. CASE Next
  <2>1. Balanced /\ TypeOK'
    BY <1>1, LineBalances, LoopBalances DEF Next
  <2> QED BY <2>1, BalancedKeeps, DebounceKept, FreshKept DEF Inv
<1>2. CASE UNCHANGED vars
  <2>1. Debounce' /\ Fresh'
    BY DebounceKept, FreshKept
  <2> QED
    BY <1>2, <2>1 DEF vars, lineVars, debounceVars, loopVars, Inv, TypeOK, NeverTwice,
         PulsesAccounted, Known, InHand, Waiting, InFilter
<1> QED BY <1>1, <1>2

LEMMA InitHolds == Init => Inv
<1> SUFFICES ASSUME Init
             PROVE  Inv
  OBVIOUS
<1>1. TypeOK
  <2>1. 0 \in 0..(CountWord - 1) /\ 0 \in 0..(ByteWord - 1) /\ 0 \in 0..MaxPulses
    BY WordAssumption
  <2> QED BY <2>1 DEF Init, TypeOK, Steps, Reasons
<1>2. Debounce
  BY DEF Init, Debounce, NeverDeaf
<1>3. Known = 0 /\ made = 0
  <2>1. InHand = 0 /\ Waiting = 0 /\ InFilter = 0 /\ told = 0
    BY DEF Init, InHand, Waiting, InFilter
  <2>2. counter.divisor \in Nat
    BY <1>1, Sorts
  <2> QED BY <2>1, <2>2 DEF Known, Init
<1>4. Fresh
  BY DEF Init, Fresh
<1> QED BY <1>1, <1>2, <1>3, <1>4 DEF Inv, NeverTwice, PulsesAccounted

LEMMA Invariance == Spec => []Inv
<1>1. Inv /\ [Next]_vars => Inv'
  BY StepKeeps
<1> QED BY InitHolds, <1>1, PTL DEF Spec

-----------------------------------------------------------------------------
\* The count keeps its width, the report its byte.
THEOREM TypesHold == Spec => []TypeOK
<1>1. Inv => TypeOK
  BY DEF Inv
<1> QED BY Invariance, <1>1, PTL

\* No pulse is told twice, with any counter, any divisor and a network that is
\* lost at any moment (pulse_meter.cpp, read and reset before the report).
THEOREM ToldOnce == Spec => []NeverTwice
<1>1. Inv => NeverTwice
  BY DEF Inv
<1> QED BY Invariance, <1>1, PTL

\* The losses the model names are all there are.
THEOREM LossesNamed == Spec => []PulsesAccounted
<1>1. Inv => PulsesAccounted
  BY DEF Inv
<1> QED BY Invariance, <1>1, PTL

\* filterInit and filterCall leave no state in which edges are ignored and no
\* timeout is coming.
THEOREM FilterReopens == Spec => []NeverDeaf
<1>1. Inv => NeverDeaf
  BY DEF Inv, Debounce
<1> QED BY Invariance, <1>1, PTL

=============================================================================
