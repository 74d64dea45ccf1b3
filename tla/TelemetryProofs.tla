--------------------------- MODULE TelemetryProofs ---------------------------
(* The main loop in time, for all delays, loads and bounds.                 *)
EXTENDS Telemetry, WellFoundedInduction, TLAPS

\* What the actions of the loop may be, when the step is one of Next.
LEMMA NextCases ==
  ASSUME [Next]_vars
  PROVE  \/ PartOne \/ Measure \/ SetLight \/ PartTwo \/ CountLoop \/ ComputeDelay
         \/ EndWait \/ CutWait \/ ClearBypass \/ WaitSecond
         \/ ReceivePeriod \/ ReceiveOther \/ UNCHANGED vars
  BY DEF Next, Main

-----------------------------------------------------------------------------
(* Types                                                                   *)

\* The period a downlink sets is one the loop can count, and no shorter than
\* the least.
LEMMA PeriodType == \A d \in Delays \union {0} : Period(d) \in MinDelay..(DelayWord - 1)
  BY DelayAssumption DEF Period

\* The 16 bits hold what they wrap.
LEMMA WrapType == \A d \in Int : Wrap(d) \in 0..(DelayWord - 1)
<1>1. DelayWord \in Nat /\ DelayWord > 0
  BY DelayAssumption
<1> QED BY <1>1 DEF Wrap

\* What a jittered delay is.
LEMMA JitterType ==
  ASSUME NEW d \in Nat, NEW delay \in Jittered(d)
  PROVE  delay \in Int /\ delay >= d - Jitter
  BY DelayAssumption DEF Jittered

LEMMA LoadType == \A power \in Loads : Reading(power) \in Nat
  BY EnergyAssumption DEF Reading

\* Whole watt hours, and the rest.
LEMMA WholeHours ==
  ASSUME NEW e \in Nat
  PROVE  /\ e \div Hour \in Nat /\ e % Hour \in Nat
         /\ e % Hour = e - Hour * (e \div Hour)
<1>1. Hour \in Nat /\ Hour > 0
  BY EnergyAssumption
<1>2. e \div Hour \in Nat
  BY <1>1, SMT
<1>3. e % Hour \in Nat
  BY <1>1, SMT
<1>4. e % Hour = e - Hour * (e \div Hour)
  BY <1>1, SMT
<1> QED BY <1>2, <1>3, <1>4

LEMMA InitTypes == Init => TypeOK
<1> SUFFICES ASSUME Init PROVE TypeOK
  OBVIOUS
<1>1. loopDelay \in MinDelay..(DelayWord - 1)
  BY PeriodType DEF Init, LoopDelays
<1>2. loopsToSend \in LoopNumbers /\ loopsCount \in 0..255
  BY LoopAssumption DEF Init
<1>3. thisDelay \in 0..(DelayWord - 1) /\ i \in 0..thisDelay
  BY DelayAssumption DEF Init
<1>4. frame \in 0..(FrameWord - 1) /\ failures \in 0..MaxFailures /\ changes \in 0..MaxChanges
  BY EnergyAssumption, BoundAssumption DEF Init
<1> QED BY <1>1, <1>2, <1>3, <1>4 DEF Init, TypeOK

\* A report leaves the counter, the frame and the timer of their types.
LEMMA ReportTypes ==
  ASSUME TypeOK, NEW d \in Nat, Report(d)
  PROVE  /\ energy' \in Nat /\ elapsed' \in Nat
         /\ frame' \in 0..(FrameWord - 1) /\ failures' \in 0..MaxFailures
<1>1. elapsed' \in Nat
  BY DEF Report, TypeOK
<1>2. CASE /\ energy' = energy % Hour
           /\ frame' \in (IF energy \div Hour < FrameWord THEN {energy \div Hour}
                                                          ELSE 0..(FrameWord - 1))
           /\ failures' = 0
  <2>1. energy \div Hour \in Nat /\ energy % Hour \in Nat
    BY WholeHours DEF TypeOK
  <2>2. frame' \in 0..(FrameWord - 1)
    BY <1>2, <2>1, EnergyAssumption
  <2> QED BY <1>1, <1>2, <2>1, <2>2, BoundAssumption
<1>3. CASE /\ failures < MaxFailures /\ failures' = failures + 1
           /\ UNCHANGED <<energy, frame>>
  BY <1>1, <1>3, BoundAssumption DEF TypeOK
<1> QED BY <1>2, <1>3 DEF Report

LEMMA StepTypes == TypeOK /\ [Next]_vars => TypeOK'
<1> SUFFICES ASSUME TypeOK, [Next]_vars PROVE TypeOK'
  OBVIOUS
<1>b. MaxBusy \in Nat
  BY BoundAssumption
<1> USE DEF settings, wait, meter, history
<1>1. CASE PartOne
  <2>1. elapsed' \in Nat /\ sinceReport' \in Nat
    BY <1>1, <1>b DEF PartOne, Elapse, TypeOK
  <2> QED BY <1>1, <2>1 DEF PartOne, TypeOK
<1>2. CASE Measure
  <2>1. Reading(load) * elapsed \in Nat
    <3>1. Reading(load) \in Nat /\ elapsed \in Nat
      BY LoadType DEF TypeOK
    <3> QED BY <3>1, SMT
  <2>2. energy' \in Nat
    BY <1>2, <2>1 DEF Measure, TypeOK
  <2> QED BY <1>2, <2>2 DEF Measure, TypeOK
<1>3. CASE SetLight
  BY <1>3 DEF SetLight, TypeOK
<1>4. CASE PartTwo
  <2>1. CASE Due
    <3>1. /\ energy' \in Nat /\ elapsed' \in Nat
          /\ frame' \in 0..(FrameWord - 1) /\ failures' \in 0..MaxFailures
      BY <1>4, <2>1, <1>b, ReportTypes DEF PartTwo
    <3> QED BY <1>4, <2>1, <3>1, BoundAssumption DEF PartTwo, TypeOK
  <2>2. CASE ~Due
    BY <1>4, <2>2 DEF PartTwo, TypeOK
  <2> QED BY <2>1, <2>2
<1>5. CASE CountLoop
  <2>1. loopsCount' \in 0..255
    BY <1>5, LoopAssumption DEF CountLoop, Due, TypeOK
  <2> QED BY <1>5, <2>1 DEF CountLoop, TypeOK
<1>6. CASE ComputeDelay
  <2>1. PICK delay \in Jittered(loopDelay) :
          thisDelay' = Wrap(delay) /\ excused' = (excused \/ delay # Wrap(delay))
    BY <1>6 DEF ComputeDelay
  <2>2. delay \in Int
    BY JitterType, DelayAssumption DEF TypeOK
  <2>3. thisDelay' \in 0..(DelayWord - 1) /\ i' \in 0..thisDelay'
    BY <1>6, <2>1, <2>2, WrapType DEF ComputeDelay
  <2>4. excused' \in BOOLEAN
    BY <2>1
  <2> QED BY <1>6, <2>3, <2>4 DEF ComputeDelay, TypeOK
<1>7. CASE EndWait
  BY <1>7 DEF EndWait, TypeOK
<1>8. CASE CutWait
  BY <1>8, LoopAssumption DEF CutWait, TypeOK
<1>9. CASE ClearBypass
  BY <1>9 DEF ClearBypass, TypeOK
<1>10. CASE WaitSecond
  <2>1. loopsCount' \in 0..255
    BY <1>10, LoopAssumption DEF WaitSecond, TypeOK
  <2>2. pc' \in {"part1", "wait"} /\ i' \in 0..thisDelay /\ elapsed' \in Nat /\ sinceReport' \in Nat
    BY <1>10 DEF WaitSecond, Elapse, TypeOK
  <2> QED BY <1>10, <2>1, <2>2 DEF WaitSecond, TypeOK
<1>11. CASE ReceivePeriod
  <2>1. loopDelay' \in MinDelay..(DelayWord - 1)
    BY <1>11, PeriodType DEF ReceivePeriod
  <2>2. changes' \in 0..MaxChanges
    BY <1>11, BoundAssumption DEF ReceivePeriod, TypeOK
  <2> QED BY <1>11, <2>1, <2>2 DEF ReceivePeriod, Downlink, TypeOK
<1>12. CASE ReceiveOther
  BY <1>12 DEF ReceiveOther, Downlink, TypeOK
<1>13. CASE UNCHANGED vars
  BY <1>13 DEF vars, TypeOK
<1> QED BY <1>1, <1>2, <1>3, <1>4, <1>5, <1>6, <1>7, <1>8, <1>9, <1>10, <1>11, <1>12,
           <1>13, NextCases

\* Delays, counters and timers keep their types: the 16-bit delay and the 8-bit
\* loop counter never leave their range.
THEOREM TypesHold == Spec => []TypeOK
  BY InitTypes, StepTypes, PTL DEF Spec

-----------------------------------------------------------------------------
(* The demonstration                                                       *)

\* The time since the lamp was set, step by step: only the report and the wait
\* take any, and the demonstration lets the wait go on to its period.
PaceParts ==
  /\ pc \in {"light", "part2"} => elapsed = 0
  /\ pc \in {"count", "delay"} => elapsed <= MaxBusy
  /\ pc = "wait" => elapsed <= MaxBusy + i
  /\ pc = "wait" /\ demo /\ ~bypass => i <= DemoPeriod

LEMMA InitPace == Init => PaceParts
  BY DEF Init, PaceParts

LEMMA StepPace == TypeOK /\ PaceParts /\ [Next]_vars => PaceParts'
<1> SUFFICES ASSUME TypeOK, PaceParts, [Next]_vars PROVE PaceParts'
  OBVIOUS
<1>b. MaxBusy \in Nat /\ DemoPeriod \in Nat
  BY BoundAssumption, DelayAssumption
<1>t. elapsed \in Nat /\ i \in Nat
  BY DelayAssumption DEF TypeOK
<1> USE DEF settings, wait, meter, history
<1>1. CASE PartOne
  BY <1>1 DEF PartOne, PaceParts
<1>2. CASE Measure
  BY <1>2 DEF Measure, PaceParts
<1>3. CASE SetLight
  BY <1>3 DEF SetLight, PaceParts
<1>4. CASE PartTwo
  <2>1. elapsed' <= MaxBusy
    <3>1. CASE Due
      BY <1>4, <3>1, <1>b, <1>t DEF PartTwo, Report, PaceParts
    <3>2. CASE ~Due
      BY <1>4, <3>2, <1>b, <1>t DEF PartTwo, PaceParts
    <3> QED BY <3>1, <3>2
  <2> QED BY <1>4, <2>1 DEF PartTwo, PaceParts
<1>5. CASE CountLoop
  BY <1>5 DEF CountLoop, PaceParts
<1>6. CASE ComputeDelay
  BY <1>6, <1>b, <1>t DEF ComputeDelay, PaceParts
<1>7. CASE EndWait
  BY <1>7 DEF EndWait, PaceParts
<1>8. CASE CutWait
  BY <1>8 DEF CutWait, PaceParts
<1>9. CASE ClearBypass
  BY <1>9 DEF ClearBypass, PaceParts
<1>10. CASE WaitSecond
  BY <1>10, <1>b, <1>t DEF WaitSecond, Elapse, PaceParts
<1>11. CASE ReceivePeriod
  BY <1>11 DEF ReceivePeriod, Downlink, PaceParts
<1>12. CASE ReceiveOther
  BY <1>12 DEF ReceiveOther, Downlink, PaceParts
<1>13. CASE UNCHANGED vars
  BY <1>13 DEF vars, PaceParts
<1> QED BY <1>1, <1>2, <1>3, <1>4, <1>5, <1>6, <1>7, <1>8, <1>9, <1>10, <1>11, <1>12,
           <1>13, NextCases

\* In the demonstration the lamp is set again after its period, and not after
\* the loop delay (the break at src/src/luminary.cpp:655).
THEOREM DemoPaced == Spec => []DemoPace
<1>1. TypeOK /\ PaceParts => DemoPace
  BY BoundAssumption, DelayAssumption DEF TypeOK, PaceParts, DemoPace
<1> QED BY <1>1, InitTypes, StepTypes, InitPace, StepPace, PTL DEF Spec

-----------------------------------------------------------------------------
(* The pace of the reports                                                 *)

\* The bypass flag is set by what asks for an early report, and is gone when
\* the next iteration begins; a wait that nothing asked to cut short is as long
\* as the shortest delay.
Shortest == MinDelay - Jitter
FloodParts ==
  /\ asked => excused
  /\ bypass => asked \/ pc = "clear"
  /\ pc = "clear" => excused
  /\ pc = "wait" => sinceReport >= i
  /\ pc = "wait" /\ ~excused => thisDelay >= Shortest
  /\ pc \in {"part1", "measure", "light", "part2"} /\ ~excused => sinceReport >= Shortest

LEMMA InitFlood == Init => FloodParts
  BY DEF Init, FloodParts

\* A wait is at least as long as the shortest delay, or its length wrapped.
LEMMA DelayLength ==
  ASSUME TypeOK, ComputeDelay
  PROVE  ~excused' => thisDelay' >= Shortest
<1>1. PICK delay \in Jittered(loopDelay) :
        thisDelay' = Wrap(delay) /\ excused' = (excused \/ delay # Wrap(delay))
  BY DEF ComputeDelay
<1>2. ~excused' => thisDelay' = delay
  BY <1>1
<1>3. loopDelay \in Nat /\ loopDelay >= MinDelay /\ Jitter \in Nat /\ MinDelay \in Nat
  BY DelayAssumption DEF TypeOK
<1>4. delay \in Int /\ delay >= loopDelay - Jitter
  BY <1>3, JitterType
<1> QED BY <1>2, <1>3, <1>4 DEF Shortest

LEMMA StepFlood == TypeOK /\ FloodParts /\ [Next]_vars => FloodParts'
<1> SUFFICES ASSUME TypeOK, FloodParts, [Next]_vars PROVE FloodParts'
  OBVIOUS
<1>b. MaxBusy \in Nat /\ DemoPeriod \in Nat /\ Shortest \in Nat /\ DemoPeriod >= Shortest
  BY BoundAssumption, DelayAssumption DEF Shortest
<1>t. sinceReport \in Nat /\ i \in Nat /\ thisDelay \in Nat
  BY DelayAssumption DEF TypeOK
<1> USE DEF settings, wait, meter, history
<1>1. CASE PartOne
  BY <1>1, <1>b, <1>t DEF PartOne, Elapse, FloodParts
<1>2. CASE Measure
  BY <1>2 DEF Measure, FloodParts
<1>3. CASE SetLight
  BY <1>3 DEF SetLight, FloodParts
<1>4. CASE PartTwo
  BY <1>4 DEF PartTwo, FloodParts
<1>5. CASE CountLoop
  BY <1>5 DEF CountLoop, FloodParts
<1>6. CASE ComputeDelay
  <2>1. /\ asked' = asked /\ (excused => excused') /\ bypass' = bypass
        /\ pc = "delay" /\ pc' = "wait" /\ i' = 0 /\ sinceReport' = sinceReport
    BY <1>6 DEF ComputeDelay
  <2>2. ~excused' => thisDelay' >= Shortest
    BY <1>6, DelayLength
  <2> QED BY <2>1, <2>2, <1>t DEF FloodParts
<1>7. CASE EndWait
  BY <1>7, <1>b, <1>t DEF EndWait, FloodParts
<1>8. CASE CutWait
  BY <1>8 DEF CutWait, FloodParts
<1>9. CASE ClearBypass
  BY <1>9 DEF ClearBypass, FloodParts
<1>10. CASE WaitSecond
  BY <1>10, <1>b, <1>t DEF WaitSecond, Elapse, FloodParts
<1>11. CASE ReceivePeriod
  BY <1>11 DEF ReceivePeriod, Downlink, FloodParts
<1>12. CASE ReceiveOther
  BY <1>12 DEF ReceiveOther, Downlink, FloodParts
<1>13. CASE UNCHANGED vars
  BY <1>13 DEF vars, FloodParts
<1> QED BY <1>1, <1>2, <1>3, <1>4, <1>5, <1>6, <1>7, <1>8, <1>9, <1>10, <1>11, <1>12,
           <1>13, NextCases

\* Nothing makes the node report early more than once: the bypass flag cuts one
\* wait (src/src/luminary.cpp:641-646).
THEOREM ReportsPaced == Spec => NoFlood
<1>1. FloodParts /\ [Next]_vars =>
        [pc = "part2" /\ pc' = "count" /\ Due /\ ~excused
           => sinceReport >= MinDelay - Jitter]_vars
  BY DEF FloodParts, Shortest
<1> QED BY <1>1, InitTypes, StepTypes, InitFlood, StepFlood, PTL DEF Spec, NoFlood

-----------------------------------------------------------------------------
(* Greatest elements                                                       *)

Less == {ss \in Nat \X Nat : ss[1] < ss[2]}

LEMMA LessWellFounded == IsWellFoundedOn(Less, Nat)
  BY NatLessThanWellFounded DEF OpToRel, Less

\* A set of naturals has a least element,
LEMMA LeastExists ==
  ASSUME NEW T \in SUBSET Nat, T # {}
  PROVE  \E x \in T : \A y \in T : x <= y
<1>1. PICK x \in T : \A y \in T : ~(<<y, x>> \in Less)
  BY LessWellFounded, WFMin
<1>2. ASSUME NEW y \in T PROVE x <= y
  <2>1. ~(<<y, x>> \in Less)
    BY <1>1
  <2> QED BY <2>1 DEF Less
<1> QED BY <1>2

\* and one that is bounded has a greatest: the least of its bounds.
LEMMA GreatestExists ==
  ASSUME NEW bound \in Nat, NEW S \in SUBSET (0..bound), S # {}
  PROVE  Max(S) \in S /\ \A y \in S : Max(S) >= y
<1> DEFINE T == {n \in Nat : \A y \in S : n >= y}
<1>1. bound \in T
  OBVIOUS
<1>2. PICK m \in T : \A n \in T : m <= n
  <2>1. T \in SUBSET Nat
    OBVIOUS
  <2> HIDE DEF T
  <2> QED BY <1>1, <2>1, LeastExists
<1>3. m \in S
  <2> SUFFICES ASSUME m \notin S PROVE FALSE
    OBVIOUS
  <2>1. m \in Nat /\ \A y \in S : y \in Nat /\ m > y
    OBVIOUS
  <2>2. m > 0
    <3>1. PICK y \in S : TRUE
      OBVIOUS
    <3> QED BY <2>1, <3>1
  <2>3. m - 1 \in T
    BY <2>1, <2>2
  <2>4. m <= m - 1
    <3> HIDE DEF T
    <3> QED BY <1>2, <2>3
  <2> QED BY <2>1, <2>4
<1>4. \A y \in S : m >= y
  OBVIOUS
<1>5. \E x \in S : \A y \in S : x >= y
  BY <1>3, <1>4
<1> QED BY <1>5 DEF Max

-----------------------------------------------------------------------------
(* The longest interval between two reports                                *)

\* No wait is longer than the longest.
LEMMA WaitBound ==
  /\ LongestWait \in Nat
  /\ \A delay \in LoopDelays : \A d \in Jittered(delay) : Wrap(d) <= LongestWait
<1> DEFINE S == UNION {{Wrap(d) : d \in Jittered(delay)} : delay \in LoopDelays}
<1>1. DelayWord - 1 \in Nat /\ Jitter \in Nat
  BY DelayAssumption
<1>2. \A delay \in LoopDelays : delay \in Nat
  BY PeriodType, DelayAssumption DEF LoopDelays
<1>3. S \in SUBSET (0..(DelayWord - 1))
  <2>1. ASSUME NEW delay \in LoopDelays, NEW d \in Jittered(delay)
        PROVE  Wrap(d) \in 0..(DelayWord - 1)
    <3>1. d \in Int
      BY <1>2, JitterType
    <3> QED BY <3>1, WrapType
  <2> QED BY <2>1
<1>4. S # {}
  <2>1. Period(0) \in LoopDelays
    BY DEF LoopDelays
  <2>2. Period(0) + 0 - Jitter \in Jittered(Period(0))
    <3>1. 0 \in 0..(2 * Jitter)
      BY <1>1
    <3> QED BY <3>1, Zenon DEF Jittered
  <2>3. Wrap(Period(0) + 0 - Jitter) \in S
    BY <2>1, <2>2
  <2> QED BY <2>3
<1>5. Max(S) \in S /\ \A y \in S : Max(S) >= y
  <2> HIDE DEF S
  <2> QED BY <1>1, <1>3, <1>4, GreatestExists
<1>6. LongestWait = Max(S)
  BY DEF LongestWait
<1>7. ASSUME NEW delay \in LoopDelays, NEW d \in Jittered(delay)
      PROVE  Wrap(d) \in S
  OBVIOUS
<1>8. LongestWait \in Nat /\ \A y \in S : y <= LongestWait
  <2> HIDE DEF S
  <2>1. \A y \in S : y \in Nat
    BY <1>1, <1>3
  <2>2. Max(S) \in Nat /\ \A y \in S : y <= Max(S)
    BY <1>5, <2>1
  <2> QED BY <1>6, <2>2
<1> HIDE DEF S
<1> QED BY <1>7, <1>8

\* No 'T' asks for more loops than the most.
LEMMA LoopsBound ==
  /\ MostLoops \in Nat /\ MostLoops >= 1
  /\ \A n \in LoopNumbers : n \in Nat /\ n <= MostLoops
<1> DEFINE S == LoopNumbers \union {1}
<1>1. S \in SUBSET (0..255) /\ S # {} /\ 1 \in S /\ 255 \in Nat
  BY LoopAssumption
<1>2. Max(S) \in S /\ \A y \in S : Max(S) >= y
  <2> HIDE DEF S
  <2> QED BY <1>1, GreatestExists
<1>3. MostLoops = Max(S)
  BY DEF MostLoops
<1>4. MostLoops \in Nat /\ \A y \in S : y \in Nat /\ y <= MostLoops
  <2> HIDE DEF S
  <2>1. \A y \in S : y \in Nat
    BY <1>1
  <2>2. Max(S) \in Nat /\ \A y \in S : y <= Max(S)
    BY <1>2, <2>1
  <2> QED BY <1>3, <2>1, <2>2
<1> QED BY <1>1, <1>4

\* The most time an iteration takes, and n of them.
Iteration == LongestWait + 2 * MaxBusy
Allowance(n) == n * Iteration

\* The iterations of an interval that have begun: the count stands for them
\* until the report is due, and every 'T' may start the count again.
Begun ==
  IF ~Due THEN loopsCount
  ELSE IF pc = "count" THEN 0 ELSE IF loopsToSend = 0 THEN 1 ELSE loopsToSend
Done == changes * MostLoops + Begun - 1

\* What the present one has taken of its time.
Passed ==
  CASE pc = "delay" -> 0
    [] pc = "wait" -> i
    [] pc \in {"clear", "part1"} -> LongestWait
    [] pc \in {"measure", "light", "part2"} -> LongestWait + MaxBusy
    [] pc = "count" -> Iteration

WaitFits == thisDelay <= LongestWait
IntervalParts ==
  /\ loopDelay \in LoopDelays
  /\ WaitFits
  /\ sinceReport <= Allowance(Done) + Passed

LEMMA IterationType == Iteration \in Nat /\ Iteration = LongestWait + 2 * MaxBusy
  BY WaitBound, BoundAssumption DEF Iteration

\* More iterations take no less time, and one more takes one more.
LEMMA AllowanceGrows ==
  ASSUME NEW n \in Int, NEW m \in Int, n <= m
  PROVE  Allowance(n) \in Int /\ Allowance(m) \in Int /\ Allowance(n) <= Allowance(m)
<1>1. ASSUME NEW k \in Nat
      PROVE  n * k \in Int /\ m * k \in Int /\ n * k <= m * k
  <2>1. (m - n) * k >= 0
    <3>1. m - n \in Nat
      OBVIOUS
    <3> QED BY <3>1, SMT
  <2>2. (m - n) * k = m * k - n * k
    BY SMT
  <2>3. n * k \in Int /\ m * k \in Int
    BY SMT
  <2> QED BY <2>1, <2>2, <2>3
<1> QED BY <1>1, IterationType DEF Allowance

LEMMA AllowanceNext ==
  ASSUME NEW n \in Int
  PROVE  Allowance(n) \in Int /\ Allowance(n + 1) = Allowance(n) + Iteration
<1>1. ASSUME NEW k \in Nat
      PROVE  n * k \in Int /\ (n + 1) * k = n * k + k
  BY SMT
<1> QED BY <1>1, IterationType DEF Allowance

\* The iterations of one count are the most loops at most, and their time fits
\* in an iteration.
DoneOK ==
  /\ Begun \in Nat /\ Begun <= MostLoops
  /\ changes * MostLoops \in Nat /\ Done \in Int
  /\ Done = changes * MostLoops + Begun - 1

LEMMA DoneTypes == TypeOK => DoneOK
<1> SUFFICES ASSUME TypeOK PROVE DoneOK
  OBVIOUS
<1>1. changes \in Nat /\ MostLoops \in Nat /\ MostLoops >= 1
  BY LoopsBound, BoundAssumption DEF TypeOK
<1>2. loopsCount \in Nat /\ loopsToSend \in Nat /\ loopsToSend <= MostLoops
  BY LoopsBound DEF TypeOK
<1>3. Begun \in Nat /\ Begun <= MostLoops
  BY <1>1, <1>2 DEF Begun, Due
<1>4. changes * MostLoops \in Nat
  BY <1>1, SMT
<1> QED BY <1>3, <1>4 DEF Done, DoneOK

PassedOK == Passed \in Nat /\ Passed <= Iteration

LEMMA PassedTypes == TypeOK /\ WaitFits => PassedOK
<1> SUFFICES ASSUME TypeOK, WaitFits PROVE PassedOK
  OBVIOUS
<1>1. /\ LongestWait \in Nat /\ MaxBusy \in Nat /\ Iteration \in Nat
      /\ LongestWait <= Iteration /\ LongestWait + MaxBusy <= Iteration
  BY WaitBound, BoundAssumption, IterationType
<1>2. i \in Nat /\ thisDelay \in Nat /\ i <= thisDelay
  BY DelayAssumption DEF TypeOK
<1>3. thisDelay <= LongestWait
  BY DEF WaitFits
<1>4. pc \in {"part1", "measure", "light", "part2", "count", "delay", "wait", "clear"}
  BY DEF TypeOK
<1> QED BY <1>1, <1>2, <1>3, <1>4 DEF Passed, PassedOK

\* What no step changes.
LEMMA Rigid ==
  /\ LongestWait' = LongestWait /\ MostLoops' = MostLoops /\ LoopDelays' = LoopDelays
  /\ Iteration' = Iteration /\ Allowance(Done)' = Allowance(Done')
  BY DEF LongestWait, MostLoops, LoopDelays, Iteration, Allowance, Max, Jittered, Period, Wrap

LEMMA InitInterval == Init => IntervalParts
<1> SUFFICES ASSUME Init PROVE IntervalParts
  OBVIOUS
<1>1. TypeOK
  BY InitTypes
<1>2. Begun >= 1
  BY LoopAssumption DEF Init, Begun, Due
<1>3. changes * MostLoops = 0
  BY LoopsBound DEF Init
<1>4. Done \in Int /\ 0 <= Done
  BY <1>1, <1>2, <1>3, DoneTypes DEF DoneOK
<1>5. Allowance(Done) \in Int /\ Allowance(0) <= Allowance(Done) /\ Allowance(0) \in Int
  BY <1>4, AllowanceGrows
<1>6. Allowance(0) = 0
  BY IterationType DEF Allowance
<1>7. WaitFits
  BY WaitBound DEF Init, WaitFits
<1>8. Passed \in Nat
  BY <1>1, <1>7, PassedTypes DEF PassedOK
<1>9. sinceReport <= Allowance(Done) + Passed
  BY <1>5, <1>6, <1>8 DEF Init
<1> QED BY <1>7, <1>9 DEF Init, IntervalParts

\* The types of a step, of both of its states.
LEMMA StepOK ==
  TypeOK /\ TypeOK' /\ IntervalParts /\ WaitFits'
    => DoneOK /\ DoneOK' /\ PassedOK /\ PassedOK'
<1>1. IntervalParts => WaitFits
  BY DEF IntervalParts
<1> QED BY <1>1, DoneTypes, PassedTypes, PTL

\* A step on which the time of the present iteration keeps up with the clock
\* and no iteration is taken back.
LEMMA KeepsPace ==
  ASSUME TypeOK, TypeOK', IntervalParts, WaitFits',
         Begun' >= Begun, changes' = changes,
         sinceReport' - sinceReport <= Passed' - Passed
  PROVE  sinceReport' <= Allowance(Done') + Passed'
<1>1. DoneOK /\ DoneOK' /\ PassedOK /\ PassedOK'
  BY StepOK
<1>2. Done \in Int /\ Done' \in Int /\ Done <= Done'
  <2>1. Done' = changes * MostLoops + Begun' - 1
    BY <1>1, Rigid DEF DoneOK
  <2>2. /\ changes * MostLoops \in Nat /\ Begun \in Nat /\ Begun' \in Nat
        /\ Done = changes * MostLoops + Begun - 1
    BY <1>1 DEF DoneOK
  <2> QED BY <2>1, <2>2
<1>3. Allowance(Done) \in Int /\ Allowance(Done') \in Int /\ Allowance(Done) <= Allowance(Done')
  BY <1>2, AllowanceGrows
<1>4. sinceReport \in Nat /\ sinceReport' \in Nat /\ Passed \in Nat /\ Passed' \in Nat
  BY <1>1 DEF TypeOK, PassedOK
<1>5. sinceReport <= Allowance(Done) + Passed
  BY DEF IntervalParts
<1>6. PICK s \in Nat, p \in Nat, a \in Int :
        s = sinceReport' /\ p = Passed' /\ a = Allowance(Done')
  BY <1>3, <1>4
<1>7. s - sinceReport <= p - Passed /\ Allowance(Done) <= a
  BY <1>3, <1>6
<1>8. s <= a + p
  BY <1>3, <1>4, <1>5, <1>7
<1> QED BY <1>6, <1>8

\* The count of an iteration adds one.
LEMMA CountsOne ==
  ASSUME TypeOK, CountLoop
  PROVE  Begun' = Begun + 1
<1>1. loopsCount \in Nat /\ loopsToSend \in Nat
  BY LoopsBound DEF TypeOK
<1>2. pc = "count" /\ pc' = "delay" /\ loopsToSend' = loopsToSend
      /\ loopsCount' = IF Due THEN 1 ELSE loopsCount + 1
  BY DEF CountLoop, settings
<1>3. CASE Due
  <2>1. Begun = 0 /\ loopsCount' = 1
    BY <1>2, <1>3 DEF Begun
  <2>2. Begun' = 1
    BY <1>1, <1>2, <2>1 DEF Begun, Due
  <2> QED BY <2>1, <2>2
<1>4. CASE ~Due
  <2>1. Begun = loopsCount /\ loopsCount' = loopsCount + 1 /\ loopsCount + 1 <= loopsToSend
    BY <1>1, <1>2, <1>4 DEF Begun, Due
  <2>2. Begun' = loopsCount'
    BY <1>1, <1>2, <2>1 DEF Begun, Due
  <2> QED BY <2>1, <2>2
<1> QED BY <1>3, <1>4

\* Setting the count to what is due takes no iteration back.
LEMMA BegunKept ==
  ASSUME TypeOK, pc # "count", pc' # "count", loopsToSend' = loopsToSend,
         loopsCount' = loopsCount \/ loopsCount' = loopsToSend
  PROVE  Begun' >= Begun
<1>1. loopsCount \in Nat /\ loopsToSend \in Nat
  BY LoopsBound DEF TypeOK
<1> QED BY <1>1 DEF Begun, Due

LEMMA StepInterval == TypeOK /\ TypeOK' /\ IntervalParts /\ [Next]_vars => IntervalParts'
<1> SUFFICES ASSUME TypeOK, TypeOK', IntervalParts, [Next]_vars PROVE IntervalParts'
  OBVIOUS
<1>t. /\ LongestWait \in Nat /\ MaxBusy \in Nat /\ Iteration = LongestWait + 2 * MaxBusy
      /\ i \in Nat /\ thisDelay \in Nat /\ i <= thisDelay /\ thisDelay <= LongestWait
      /\ sinceReport \in Nat /\ sinceReport' \in Nat
  BY WaitBound, BoundAssumption, DelayAssumption, IterationType DEF TypeOK, IntervalParts, WaitFits
<1>w. /\ LongestWait' = LongestWait /\ LoopDelays' = LoopDelays /\ Iteration' = Iteration
      /\ MostLoops' = MostLoops
  BY Rigid
<1>d. loopDelay' \in LoopDelays'
  <2>1. CASE loopDelay' = loopDelay
    BY <2>1, <1>w DEF IntervalParts
  <2>2. CASE ReceivePeriod
    BY <2>2, <1>w DEF ReceivePeriod, LoopDelays
  <2>3. loopDelay' = loopDelay \/ ReceivePeriod
    BY DEF Next, Main, PartOne, Measure, SetLight, PartTwo, CountLoop, ComputeDelay, EndWait,
       CutWait, ClearBypass, WaitSecond, ReceiveOther, vars, settings
  <2> QED BY <2>1, <2>2, <2>3
<1>e. WaitFits'
  <2> USE DEF WaitFits
  <2>1. CASE thisDelay' = thisDelay
    BY <2>1, <1>t, <1>w
  <2>2. CASE ComputeDelay
    <3>1. PICK delay \in Jittered(loopDelay) : thisDelay' = Wrap(delay)
      BY <2>2 DEF ComputeDelay
    <3>2. loopDelay \in LoopDelays
      BY DEF IntervalParts
    <3>3. Wrap(delay) <= LongestWait
      BY <3>2, WaitBound
    <3> QED BY <3>1, <3>3, <1>w
  <2>3. thisDelay' = thisDelay \/ ComputeDelay
    BY DEF Next, Main, PartOne, Measure, SetLight, PartTwo, CountLoop, EndWait, CutWait,
       ClearBypass, WaitSecond, ReceivePeriod, ReceiveOther, Downlink, vars, wait
  <2> QED BY <2>1, <2>2, <2>3
<1>p. ASSUME Begun' >= Begun, changes' = changes,
             sinceReport' - sinceReport <= Passed' - Passed
      PROVE  sinceReport' <= Allowance(Done') + Passed'
  BY <1>p, <1>e, KeepsPace
<1>s. sinceReport' <= Allowance(Done') + Passed'
  <2> USE DEF settings, wait, meter, history
  <2>1. CASE PartOne
    <3>1. PICK d \in 0..MaxBusy : Elapse(d)
      BY <2>1, <1>t DEF PartOne
    <3>2. Passed = LongestWait /\ Passed' = LongestWait + MaxBusy
      BY <2>1, <1>w DEF PartOne, Passed
    <3>3. Begun' >= Begun /\ changes' = changes
      BY <2>1, BegunKept DEF PartOne
    <3>4. sinceReport' - sinceReport <= Passed' - Passed
      BY <3>1, <3>2, <1>t DEF Elapse
    <3> QED BY <3>3, <3>4, <1>p
  <2>2. CASE Measure \/ SetLight
    <3>1. Passed = LongestWait + MaxBusy /\ Passed' = LongestWait + MaxBusy
      BY <2>2, <1>w DEF Measure, SetLight, Passed
    <3>2. Begun' >= Begun /\ changes' = changes
      BY <2>2, BegunKept DEF Measure, SetLight
    <3>3. sinceReport' = sinceReport
      BY <2>2 DEF Measure, SetLight
    <3>4. sinceReport' - sinceReport <= Passed' - Passed
      BY <3>1, <3>3, <1>t
    <3> QED BY <3>2, <3>4, <1>p
  <2>3. CASE PartTwo /\ Due
    <3>1. sinceReport' = 0 /\ changes' = 0 /\ pc' = "count" /\ Due'
      BY <2>3 DEF PartTwo, Due
    <3>2. Begun' = 0 /\ Passed' = Iteration
      BY <3>1, <1>w DEF Begun, Passed
    <3>3. Done' = 0 - 1
      <4>1. Done' = 0 * MostLoops + 0 - 1
        BY <3>1, <3>2, <1>w DEF Done
      <4> QED BY <4>1, LoopsBound
    <3>4. Allowance(0 - 1) + Iteration = 0
      <4>1. \A k \in Nat : (0 - 1) * k + k = 0
        OBVIOUS
      <4> QED BY <4>1, IterationType DEF Allowance
    <3> QED BY <3>1, <3>2, <3>3, <3>4
  <2>4. CASE PartTwo /\ ~Due
    <3>1. pc = "part2" /\ pc' = "count" /\ ~Due' /\ Begun' = Begun /\ Begun \in Nat
      BY <2>4, LoopsBound DEF PartTwo, Due, Begun, TypeOK
    <3>2. Passed = LongestWait + MaxBusy /\ Passed' = Iteration
      BY <3>1, <1>w DEF Passed
    <3>3. sinceReport' = sinceReport /\ changes' = changes
      BY <2>4 DEF PartTwo
    <3>4. sinceReport' - sinceReport <= Passed' - Passed /\ Begun' >= Begun
      BY <3>1, <3>2, <3>3, <1>t
    <3> QED BY <3>3, <3>4, <1>p
  <2>5. CASE CountLoop
    <3>1. Begun' = Begun + 1
      BY <2>5, CountsOne
    <3>2. changes' = changes /\ sinceReport' = sinceReport
      BY <2>5 DEF CountLoop
    <3>3. Passed = Iteration /\ Passed' = 0
      BY <2>5 DEF CountLoop, Passed
    <3>4. DoneOK /\ DoneOK'
      BY <1>e, StepOK
    <3>5. Done' = Done + 1 /\ Done \in Int
      <4>1. Done' = changes * MostLoops + (Begun + 1) - 1
        BY <3>1, <3>2, <1>w DEF Done
      <4>2. /\ changes * MostLoops \in Nat /\ Begun \in Nat
            /\ Done = changes * MostLoops + Begun - 1
        BY <3>4 DEF DoneOK
      <4> QED BY <4>1, <4>2
    <3>6. Allowance(Done) \in Int /\ Allowance(Done') = Allowance(Done) + Iteration
      BY <3>5, AllowanceNext
    <3>7. sinceReport <= Allowance(Done) + Iteration
      BY <3>3 DEF IntervalParts
    <3> QED BY <3>2, <3>3, <3>6, <3>7, IterationType
  <2>6. CASE ComputeDelay
    <3>1. pc = "delay" /\ pc' = "wait" /\ i' = 0
      BY <2>6 DEF ComputeDelay
    <3>2. Passed = 0 /\ Passed' = 0
      BY <3>1 DEF Passed
    <3>3. /\ loopsToSend' = loopsToSend /\ loopsCount' = loopsCount /\ changes' = changes
          /\ sinceReport' = sinceReport
      BY <2>6 DEF ComputeDelay
    <3>4. Begun' >= Begun
      BY <3>1, <3>3, BegunKept
    <3>5. sinceReport' - sinceReport <= Passed' - Passed
      BY <3>2, <3>3, <1>t
    <3> QED BY <3>3, <3>4, <3>5, <1>p
  <2>7. CASE EndWait \/ CutWait
    <3>1. Passed = i /\ Passed' = LongestWait
      BY <2>7, <1>w DEF EndWait, CutWait, Passed
    <3>2. Begun' >= Begun /\ changes' = changes
      BY <2>7, BegunKept DEF EndWait, CutWait
    <3>3. sinceReport' = sinceReport
      BY <2>7 DEF EndWait, CutWait
    <3>4. sinceReport' - sinceReport <= Passed' - Passed
      BY <3>1, <3>3, <1>t
    <3> QED BY <3>2, <3>4, <1>p
  <2>8. CASE ClearBypass
    <3>1. Passed = LongestWait /\ Passed' = LongestWait
      BY <2>8, <1>w DEF ClearBypass, Passed
    <3>2. Begun' >= Begun /\ changes' = changes
      BY <2>8, BegunKept DEF ClearBypass
    <3>3. sinceReport' = sinceReport
      BY <2>8 DEF ClearBypass
    <3>4. sinceReport' - sinceReport <= Passed' - Passed
      BY <3>1, <3>3, <1>t
    <3> QED BY <3>2, <3>4, <1>p
  <2>9. CASE WaitSecond
    <3>1. Passed = i
      BY <2>9 DEF WaitSecond, Passed
    <3>2. Begun' >= Begun /\ changes' = changes
      <4>1. pc = "wait" /\ pc' # "count" /\ loopsToSend' = loopsToSend
            /\ (loopsCount' = loopsCount \/ loopsCount' = loopsToSend) /\ changes' = changes
        BY <2>9 DEF WaitSecond
      <4> QED BY <4>1, BegunKept
    <3>3. \/ pc' = "part1" /\ sinceReport' = sinceReport
          \/ pc' = "wait" /\ i' = i + 1 /\ sinceReport' = sinceReport + 1
      BY <2>9 DEF WaitSecond, Elapse
    <3>4. sinceReport' - sinceReport <= Passed' - Passed
      <4>1. CASE pc' = "part1" /\ sinceReport' = sinceReport
        <5>1. Passed' = LongestWait
          BY <4>1, <1>w DEF Passed
        <5> QED BY <4>1, <5>1, <3>1, <1>t
      <4>2. CASE pc' = "wait" /\ i' = i + 1 /\ sinceReport' = sinceReport + 1
        <5>1. Passed' = i + 1
          BY <4>2 DEF Passed
        <5> QED BY <4>2, <5>1, <3>1, <1>t
      <4> QED BY <3>3, <4>1, <4>2
    <3> QED BY <3>2, <3>4, <1>p
  <2>10. CASE ReceivePeriod
    <3>1. /\ changes' = changes + 1 /\ sinceReport' = sinceReport
          /\ pc' = pc /\ i' = i
      BY <2>10 DEF ReceivePeriod, Downlink
    <3>2. Passed' = Passed
      BY <3>1, <1>w DEF Passed
    <3>3. DoneOK /\ DoneOK' /\ PassedOK
      BY <1>e, StepOK
    <3>4. Done' \in Int /\ Done \in Int /\ Done <= Done'
      <4>1. changes \in Nat /\ MostLoops \in Nat
        BY LoopsBound, BoundAssumption DEF TypeOK
      <4>2. (changes + 1) * MostLoops = changes * MostLoops + MostLoops
        BY <4>1, SMT
      <4>3. Done' = changes * MostLoops + MostLoops + Begun' - 1
        BY <3>1, <4>2, <1>w DEF Done
      <4>4. /\ changes * MostLoops \in Nat /\ Begun \in Nat /\ Begun' \in Nat
            /\ Begun <= MostLoops /\ Done = changes * MostLoops + Begun - 1
        BY <3>3 DEF DoneOK
      <4>5. PICK r \in Nat, b \in Nat : r = changes * MostLoops /\ b = Begun'
        BY <4>4
      <4>6. Done = r + Begun - 1 /\ Done' = r + MostLoops + b - 1
        BY <4>3, <4>4, <4>5
      <4>7. r + Begun - 1 \in Int /\ r + MostLoops + b - 1 \in Int
            /\ r + Begun - 1 <= r + MostLoops + b - 1
        BY <4>1, <4>4
      <4> QED BY <4>6, <4>7
    <3>5. Allowance(Done) \in Int /\ Allowance(Done') \in Int /\ Allowance(Done) <= Allowance(Done')
      BY <3>4, AllowanceGrows
    <3>6. sinceReport <= Allowance(Done) + Passed /\ Passed \in Nat
      BY <3>3 DEF IntervalParts, PassedOK
    <3> QED BY <3>1, <3>2, <3>5, <3>6, <1>t
  <2>11. CASE ReceiveOther \/ UNCHANGED vars
    <3>1. /\ pc' = pc /\ i' = i /\ loopsCount' = loopsCount /\ loopsToSend' = loopsToSend
          /\ changes' = changes /\ sinceReport' = sinceReport
      BY <2>11 DEF ReceiveOther, Downlink, vars
    <3>2. Passed' = Passed /\ Begun' = Begun
      BY <3>1, <1>w DEF Passed, Begun, Due
    <3>3. DoneOK /\ PassedOK
      BY <1>e, StepOK
    <3>4. Begun' >= Begun /\ sinceReport' - sinceReport <= Passed' - Passed
      BY <3>1, <3>2, <3>3, <1>t DEF DoneOK, PassedOK
    <3> QED BY <3>1, <3>4, <1>p
  <2> QED BY <2>1, <2>2, <2>3, <2>4, <2>5, <2>6, <2>7, <2>8, <2>9, <2>10, <2>11, NextCases
<1> QED BY <1>d, <1>e, <1>s, Rigid DEF IntervalParts

\* No order of bypasses, demonstrations and changes of the period puts a report
\* off for longer than the loops to send, and as many again for every 'T' since
\* (src/src/luminary.cpp:600-669).
THEOREM ReportsDue == Spec => []ReportInterval
<1>1. TypeOK /\ IntervalParts => ReportInterval
  <2> SUFFICES ASSUME TypeOK, IntervalParts PROVE ReportInterval
    OBVIOUS
  <2>1. DoneOK /\ PassedOK
    BY DoneTypes, PassedTypes DEF IntervalParts
  <2>2. /\ Allowance(Done) \in Int /\ Allowance(Done + 1) = Allowance(Done) + Iteration
    BY <2>1, AllowanceNext DEF DoneOK
  <2>3. sinceReport <= Allowance(Done + 1) /\ sinceReport \in Nat
    BY <2>1, <2>2, IterationType DEF IntervalParts, PassedOK, TypeOK
  <2>4. /\ (1 + changes) * MostLoops \in Int /\ Done + 1 \in Int
        /\ Done + 1 <= (1 + changes) * MostLoops
    <3>1. changes \in Nat /\ MostLoops \in Nat
      BY LoopsBound, BoundAssumption DEF TypeOK
    <3>2. (1 + changes) * MostLoops = changes * MostLoops + MostLoops
      BY <3>1, SMT
    <3> QED BY <2>1, <3>1, <3>2 DEF DoneOK
  <2>5. /\ Allowance(Done + 1) \in Int /\ Allowance((1 + changes) * MostLoops) \in Int
        /\ Allowance(Done + 1) <= Allowance((1 + changes) * MostLoops)
    BY <2>4, AllowanceGrows
  <2>6. Allowance((1 + changes) * MostLoops)
          = (1 + changes) * MostLoops * (LongestWait + 2 * MaxBusy)
    BY Zenon DEF Allowance, Iteration
  <2>7. sinceReport <= Allowance((1 + changes) * MostLoops)
    BY <2>3, <2>5
  <2> QED BY <2>6, <2>7, Zenon DEF ReportInterval
<1> QED BY <1>1, InitTypes, StepTypes, InitInterval, StepInterval, PTL DEF Spec

-----------------------------------------------------------------------------
(* The energy account                                                      *)

\* The account of Ledger, of a counter e, a load r and a timer t.
Owed(e, r, t) == e + r * t

\* The laws of the account. Named, so that a proof about the state instantiates
\* them before any arithmetic is visible.
DrawLaw(e, r, t, d) == Owed(e, r, t + d) = Owed(e, r, t) + r * d
ReportLaw(e, r, t, d) ==
  /\ Owed(e % Hour, r, t + d) = Owed(e, r, t) - (e \div Hour) * Hour + r * d
  /\ e \div Hour \in 0..(Owed(e, r, t) \div Hour)

\* While time passes the load is owed for it.
LEMMA DrawArith ==
  ASSUME NEW e \in Nat, NEW r \in Nat, NEW t \in Nat, NEW d \in Nat
  PROVE  DrawLaw(e, r, t, d)
<1> USE DEF DrawLaw
<1>1. r * (t + d) = r * t + r * d
  BY SMT
<1>2. r * t \in Nat /\ r * d \in Nat
  BY SMT
<1> QED BY <1>1, <1>2 DEF Owed

\* A measurement moves what is owed into the counter.
LEMMA MeasureArith ==
  ASSUME NEW e \in Nat, NEW r \in Nat, NEW t \in Nat
  PROVE  Owed(e + r * t, r, 0) = Owed(e, r, t)
<1>1. r * t \in Nat /\ r * 0 = 0
  BY SMT
<1> QED BY <1>1 DEF Owed

\* A report takes the whole watt hours of the counter, which are owed.
LEMMA ReportArith ==
  ASSUME NEW e \in Nat, NEW r \in Nat, NEW t \in Nat, NEW d \in Nat
  PROVE  ReportLaw(e, r, t, d)
<1>1. /\ e \div Hour \in Nat /\ e % Hour \in Nat
      /\ e % Hour = e - Hour * (e \div Hour)
  BY WholeHours
<1>2. Hour \in Nat /\ Hour > 0
  BY EnergyAssumption
<1>3. r * t \in Nat /\ r * d \in Nat
  BY SMT
<1>4. Owed(e % Hour, r, t + d) = (e % Hour) + r * t + r * d
  <2>1. DrawLaw(e % Hour, r, t, d)
    BY <1>1, DrawArith
  <2> QED BY <2>1 DEF DrawLaw, Owed
<1>5. Hour * (e \div Hour) = (e \div Hour) * Hour
  BY <1>1, <1>2, SMT
<1>6. Owed(e, r, t) \in Nat /\ e <= Owed(e, r, t)
  BY <1>3 DEF Owed
<1>7. e \div Hour <= Owed(e, r, t) \div Hour /\ Owed(e, r, t) \div Hour \in Nat
  <2> HIDE DEF Owed
  <2>1. e \div Hour <= Owed(e, r, t) \div Hour
    BY <1>2, <1>6, SMT
  <2>2. Owed(e, r, t) \div Hour \in Nat
    BY <1>6, WholeHours
  <2> QED BY <2>1, <2>2
<1>8. (e \div Hour) * Hour \in Nat
  BY <1>1, <1>2, SMT
<1>9. Owed(e % Hour, r, t + d) = Owed(e, r, t) - (e \div Hour) * Hour + r * d
  <2>1. e % Hour = e - (e \div Hour) * Hour
    BY <1>1, <1>5
  <2> QED BY <2>1, <1>1, <1>3, <1>4, <1>8 DEF Owed
<1>10. e \div Hour \in 0..(Owed(e, r, t) \div Hour)
  <2> HIDE DEF Owed
  <2> QED BY <1>1, <1>7
<1> QED BY <1>9, <1>10, Zenon DEF ReportLaw

\* The steps of the account, on the state of Telemetry.
Owes == Owed(energy, Reading(load), elapsed)
Draws ==
  /\ \E d \in 0..(MaxBusy + 1) : Owes' = Owes + Reading(load) * d
  /\ Reading(load)' = Reading(load) /\ frame' = frame
Changes ==
  /\ Reading(load)' \in {Reading(power) : power \in Loads}
  /\ Owes' = Owes /\ frame' = frame
HandsOver ==
  /\ \E n \in 0..(Owes \div Hour), d \in 0..(MaxBusy + 1) :
       /\ Owes' = Owes - n * Hour + Reading(load) * d
       /\ frame' \in IF n < FrameWord THEN {n} ELSE 0..(FrameWord - 1)
  /\ Reading(load)' = Reading(load)
Rests == Owes' = Owes /\ Reading(load)' = Reading(load) /\ frame' = frame

\* A step that lets d pass and touches neither the lamp nor the counter.
LEMMA TimeDraws ==
  ASSUME TypeOK, NEW d \in 0..(MaxBusy + 1), elapsed' = elapsed + d,
         energy' = energy, load' = load, frame' = frame
  PROVE  Draws
<1>1. energy \in Nat /\ elapsed \in Nat /\ Reading(load) \in Nat
  BY LoadType DEF TypeOK
<1>2. d \in Nat
  BY BoundAssumption
<1>3. Owed(energy, Reading(load), elapsed + d)
        = Owed(energy, Reading(load), elapsed) + Reading(load) * d
  <2>1. DrawLaw(energy, Reading(load), elapsed, d)
    BY <1>1, <1>2, DrawArith
  <2> QED BY <2>1, Zenon DEF DrawLaw
<1>4. Reading(load)' = Reading(load)
  BY Zenon DEF Reading
<1>5. Owes' = Owed(energy, Reading(load), elapsed + d)
  BY <1>4, Zenon DEF Owes, Owed
<1>6. Owes' = Owes + Reading(load) * d
  BY <1>3, <1>5, Zenon DEF Owes
<1> QED BY <1>4, <1>6, Zenon DEF Draws

\* Every step of the loop is a step of the account, or none.
LEMMA StepAccounts ==
  TypeOK /\ PaceParts /\ [Next]_vars => Draws \/ Changes \/ HandsOver \/ Rests
<1> SUFFICES ASSUME TypeOK, PaceParts, [Next]_vars
             PROVE  Draws \/ Changes \/ HandsOver \/ Rests
  OBVIOUS
<1>t. energy \in Nat /\ elapsed \in Nat /\ Reading(load) \in Nat /\ MaxBusy \in Nat
  BY LoadType, BoundAssumption DEF TypeOK
<1>r. ASSUME load' = load PROVE Reading(load)' = Reading(load)
  BY <1>r DEF Reading
<1>s. ASSUME UNCHANGED <<load, energy, elapsed, frame>> PROVE Rests
  BY <1>s DEF Rests, Owes, Owed, Reading
<1>1. CASE PartOne
  <2>1. PICK d \in (IF Due THEN 0..MaxBusy ELSE {0}) : Elapse(d)
    BY <1>1 DEF PartOne
  <2>2. d \in 0..(MaxBusy + 1)
    BY <1>t
  <2> QED BY <1>1, <2>1, <2>2, TimeDraws DEF PartOne, Elapse
<1>2. CASE Measure
  <2>1. Owed(energy + Reading(load) * elapsed, Reading(load), 0)
          = Owed(energy, Reading(load), elapsed)
    BY <1>t, MeasureArith
  <2>2. /\ energy' = energy + Reading(load) * elapsed /\ elapsed' = 0
        /\ load' = load /\ frame' = frame
    BY <1>2 DEF Measure
  <2>3. Owes' = Owes
    BY <2>1, <2>2, <1>r DEF Owes, Owed
  <2> QED BY <2>2, <2>3, <1>r DEF Rests
<1>3. CASE SetLight
  <2>1. load' \in Loads /\ energy' = energy /\ frame' = frame /\ elapsed' = elapsed /\ elapsed = 0
    BY <1>3 DEF SetLight, PaceParts
  <2>2. Reading(load)' \in {Reading(power) : power \in Loads}
    BY <2>1 DEF Reading
  <2>3. Reading(load') \in Nat /\ Reading(load) \in Nat
    BY <2>1, LoadType, <1>t
  <2>4. Reading(load') * 0 = 0 /\ Reading(load) * 0 = 0
    BY <2>3, SMT
  <2>5. Owes' = energy + Reading(load') * 0 /\ Owes = energy + Reading(load) * 0
    BY <2>1 DEF Owes, Owed, Reading
  <2> QED BY <2>1, <2>2, <2>4, <2>5 DEF Changes
<1>4. CASE PartTwo
  <2>1. load' = load
    BY <1>4 DEF PartTwo
  <2>2. CASE Due
    <3>1. PICK d \in 0..MaxBusy : Report(d)
      BY <1>4, <2>2 DEF PartTwo
    <3>2. d \in Nat /\ d \in 0..(MaxBusy + 1)
      BY <1>t
    <3>3. CASE /\ energy' = energy % Hour
               /\ frame' \in (IF energy \div Hour < FrameWord THEN {energy \div Hour}
                                                              ELSE 0..(FrameWord - 1))
               /\ failures' = 0
      <4>1. elapsed' = elapsed + d
        BY <3>1 DEF Report
      <4>2. /\ Owed(energy % Hour, Reading(load), elapsed + d)
                 = Owes - (energy \div Hour) * Hour + Reading(load) * d
            /\ energy \div Hour \in 0..(Owes \div Hour)
        <5>1. /\ Owed(energy % Hour, Reading(load), elapsed + d)
                   = Owed(energy, Reading(load), elapsed) - (energy \div Hour) * Hour
                       + Reading(load) * d
              /\ energy \div Hour \in 0..(Owed(energy, Reading(load), elapsed) \div Hour)
          <6>1. ReportLaw(energy, Reading(load), elapsed, d)
            BY <1>t, <3>2, ReportArith
          <6> QED BY <6>1, Zenon DEF ReportLaw
        <5> QED BY <5>1, Zenon DEF Owes
      <4>3. Owes' = Owed(energy % Hour, Reading(load), elapsed + d)
        BY <3>3, <4>1, <2>1, <1>r DEF Owes, Owed
      <4> QED BY <3>2, <3>3, <4>2, <4>3, <2>1, <1>r DEF HandsOver
    <3>4. CASE /\ failures < MaxFailures /\ failures' = failures + 1
               /\ UNCHANGED <<energy, frame>>
      BY <3>1, <3>2, <3>4, <2>1, TimeDraws DEF Report
    <3> QED BY <3>1, <3>3, <3>4 DEF Report
  <2>3. CASE ~Due
    BY <1>4, <2>1, <2>3, <1>s DEF PartTwo
  <2> QED BY <2>2, <2>3
<1>10. CASE WaitSecond
  <2>1. UNCHANGED <<load, energy, frame>>
    BY <1>10 DEF WaitSecond
  <2>2. elapsed' = elapsed \/ elapsed' = elapsed + 1
    BY <1>10 DEF WaitSecond, Elapse
  <2>3. 1 \in 0..(MaxBusy + 1)
    BY <1>t
  <2> QED BY <2>1, <2>2, <2>3, <1>s, TimeDraws
<1>11. CASE CountLoop \/ ComputeDelay \/ EndWait \/ CutWait \/ ClearBypass
              \/ ReceivePeriod \/ ReceiveOther \/ UNCHANGED vars
  <2>1. UNCHANGED <<load, energy, elapsed, frame>>
    BY <1>11 DEF CountLoop, ComputeDelay, EndWait, CutWait, ClearBypass, ReceivePeriod,
       ReceiveOther, Downlink, vars, meter
  <2> QED BY <2>1, <1>s
<1> QED BY <1>1, <1>2, <1>3, <1>4, <1>10, <1>11, NextCases

\* The loop implements the account: no watt hour is lost or told twice, whatever
\* becomes of the reports and however the lamp changes
\* (src/src/luminary.cpp:553-567 and :600-618).
THEOREM EnergyAccounted == Spec => AccountKept
<1>1. Init => Account!Init
  <2> SUFFICES ASSUME Init PROVE Account!Init
    OBVIOUS
  <2>1. load \in Loads /\ energy = 0 /\ elapsed = 0 /\ frame = 0
    BY DEF Init
  <2>2. Reading(load) * 0 = 0
    <3>1. Reading(load) \in Nat
      BY <2>1, LoadType
    <3> QED BY <3>1, SMT
  <2> QED BY <2>1, <2>2 DEF Account!Init
<1>2. TypeOK /\ PaceParts /\ [Next]_vars => [Account!Next]_(Account!vars)
  <2> SUFFICES ASSUME TypeOK, PaceParts, [Next]_vars
               PROVE  [Account!Next]_(Account!vars)
    OBVIOUS
  <2>1. CASE Draws
    BY <2>1 DEF Draws, Owes, Owed, Account!Draw, Account!Next
  <2>2. CASE Changes
    BY <2>2 DEF Changes, Owes, Owed, Account!Change, Account!Next
  <2>3. CASE HandsOver
    BY <2>3 DEF HandsOver, Owes, Owed, Account!HandOver, Account!Next
  <2>4. CASE Rests
    BY <2>4 DEF Rests, Owes, Owed, Account!vars
  <2> QED BY <2>1, <2>2, <2>3, <2>4, StepAccounts
<1> QED BY <1>1, <1>2, InitTypes, StepTypes, InitPace, StepPace, PTL
        DEF Spec, AccountKept, Account!Spec

=============================================================================
