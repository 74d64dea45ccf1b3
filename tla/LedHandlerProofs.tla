--------------------------- MODULE LedHandlerProofs ---------------------------
(* The status LED under interrupts, for sequences of any length.           *)
EXTENDS LedHandler, TLAPS

\* Places of a call of setCicle after the vector was replaced, and those of
\* setManual and toggle.
Replaced == {"index", "oneTime", "mode", "on", "attach"}
Fixing == {"detach", "detachToggle", "write", "toggle"}

\* The vector is torn exactly while it is assigned, and is then the new one; a
\* LED in a sequence has one of two times at least.
Vector ==
  /\ vector = Torn <=> pc = "assign"
  /\ pc \in Replaced \union {"assign"} => newLength >= 2
  /\ pc \in Replaced => vector = newLength
  /\ mode = "Cicle" => vector = Torn \/ vector >= 2

\* How far each call got.
Progress ==
  /\ pc \in Replaced \ {"index"} /\ ~raced => cicleIndex = 0
  /\ pc = "attach" /\ ~raced => on
  /\ pc \in {"on", "attach"} /\ ~ended => mode = "Cicle"
  /\ pc \in Fixing => mode = "Manual"
  /\ pc \in {"write", "toggle"} => timeout = Off

Inv == TypeOK /\ Vector /\ Progress /\ NeverFreezes /\ InStep /\ ManualIsStill

LEMMA ZeroIsLit == Lit(0) = TRUE
  BY DEF Lit

\* What the constants are to the proofs below.
LEMMA ConstantFacts ==
  /\ \A n \in Lengths : n \in Nat /\ n < IndexWord
  /\ IndexWord \in Nat /\ IndexWord > 0 /\ 0 \in 0..(IndexWord - 1)
  /\ Off \in Int /\ Off < 0 /\ Torn \in Int /\ Torn < 0 /\ Junk # Off
  BY LengthAssumption, WordAssumption DEF Off, Torn, Junk

LEMMA InitHolds == Init => Inv
<1> SUFFICES ASSUME Init PROVE Inv
  OBVIOUS
<1>1. TypeOK
  BY ConstantFacts DEF Init, TypeOK
<1>2. Vector
  BY ConstantFacts DEF Init, Vector, Replaced, Torn
<1>3. Progress
  BY DEF Init, Progress, Replaced, Fixing
<1>4. NeverFreezes /\ InStep /\ ManualIsStill
  BY DEF Init, NeverFreezes, InStep, ManualIsStill
<1> QED BY <1>1, <1>2, <1>3, <1>4 DEF Inv

\* The statements of setCicle.
LEMMA SequenceSteps ==
  Inv /\ (SetCicle \/ Assign \/ ResetIndex \/ SetOneTime \/ SetMode \/ SetOn \/ Attach)
    => Inv'
<1> SUFFICES ASSUME Inv,
                    SetCicle \/ Assign \/ ResetIndex \/ SetOneTime \/ SetMode
                      \/ SetOn \/ Attach
             PROVE  Inv'
  OBVIOUS
<1> USE ConstantFacts DEF arguments
<1>1. CASE SetCicle
  <2>1. TypeOK'
    BY <1>1 DEF SetCicle, Inv, TypeOK
  <2>2. Vector'
    BY <1>1 DEF SetCicle, Inv, Vector, TypeOK, Replaced
  <2>3. Progress'
    BY <1>1 DEF SetCicle, Inv, Progress, Replaced, Fixing
  <2>4. (NeverFreezes /\ InStep /\ ManualIsStill)'
    BY <1>1 DEF SetCicle, NeverFreezes, InStep, ManualIsStill
  <2> QED BY <2>1, <2>2, <2>3, <2>4 DEF Inv
<1>2. CASE Assign
  <2>1. TypeOK'
    BY <1>2 DEF Assign, Inv, TypeOK
  <2>2. Vector'
    BY <1>2 DEF Assign, Inv, Vector, TypeOK, Replaced
  <2>3. Progress'
    BY <1>2 DEF Assign, Inv, Progress, Replaced, Fixing
  <2>4. (NeverFreezes /\ InStep /\ ManualIsStill)'
    BY <1>2 DEF Assign, NeverFreezes, InStep, ManualIsStill
  <2> QED BY <2>1, <2>2, <2>3, <2>4 DEF Inv
<1>3. CASE ResetIndex
  <2>1. TypeOK'
    BY <1>3 DEF ResetIndex, Inv, TypeOK
  <2>2. Vector'
    BY <1>3 DEF ResetIndex, Inv, Vector, TypeOK, Replaced
  <2>3. Progress'
    BY <1>3 DEF ResetIndex, Inv, Progress, Replaced, Fixing
  <2>4. (NeverFreezes /\ InStep /\ ManualIsStill)'
    BY <1>3 DEF ResetIndex, NeverFreezes, InStep, ManualIsStill
  <2> QED BY <2>1, <2>2, <2>3, <2>4 DEF Inv
<1>4. CASE SetOneTime
  <2>1. TypeOK'
    BY <1>4 DEF SetOneTime, Inv, TypeOK
  <2>2. Vector'
    BY <1>4 DEF SetOneTime, Inv, Vector, TypeOK, Replaced
  <2>3. Progress'
    BY <1>4 DEF SetOneTime, Inv, Progress, Replaced, Fixing
  <2>4. (NeverFreezes /\ InStep /\ ManualIsStill)'
    BY <1>4 DEF SetOneTime, NeverFreezes, InStep, ManualIsStill
  <2> QED BY <2>1, <2>2, <2>3, <2>4 DEF Inv
<1>5. CASE SetMode
  <2>1. TypeOK'
    BY <1>5 DEF SetMode, Inv, TypeOK
  <2>2. Vector'
    BY <1>5 DEF SetMode, Inv, Vector, TypeOK, Replaced
  <2>3. Progress'
    BY <1>5 DEF SetMode, Inv, Progress, Replaced, Fixing
  <2>4. (NeverFreezes /\ InStep /\ ManualIsStill)'
    BY <1>5 DEF SetMode, NeverFreezes, InStep, ManualIsStill
  <2> QED BY <2>1, <2>2, <2>3, <2>4 DEF Inv
<1>6. CASE SetOn
  <2>1. TypeOK'
    BY <1>6 DEF SetOn, Inv, TypeOK
  <2>2. Vector'
    BY <1>6 DEF SetOn, Inv, Vector, TypeOK, Replaced
  <2>3. Progress'
    BY <1>6 DEF SetOn, Inv, Progress, Replaced, Fixing
  <2>4. (NeverFreezes /\ InStep /\ ManualIsStill)'
    BY <1>6 DEF SetOn, NeverFreezes, InStep, ManualIsStill
  <2> QED BY <2>1, <2>2, <2>3, <2>4 DEF Inv
<1>7. CASE Attach
  <2>1. TypeOK'
    BY <1>7 DEF Attach, Inv, TypeOK
  <2>2. Vector'
    BY <1>7 DEF Attach, Inv, Vector, TypeOK, Replaced
  <2>3. Progress'
    BY <1>7 DEF Attach, Inv, Progress, Replaced, Fixing
  <2>4. NeverFreezes'
    <3>1. vector \in Nat /\ vector >= 2 /\ vector' = vector /\ timeout' = 0
      BY <1>7 DEF Attach, Inv, Vector, TypeOK, Replaced
    <3> QED BY <3>1 DEF NeverFreezes
  <2>5. InStep'
    <3>1. ~raced => cicleIndex = 0 /\ on
      BY <1>7 DEF Attach, Inv, Progress, Replaced
    <3>2. ~raced => on = Lit(cicleIndex)
      BY <3>1, ZeroIsLit DEF Inv, TypeOK
    <3> QED BY <1>7, <3>1, <3>2 DEF Attach, InStep
  <2>6. ManualIsStill'
    BY <1>7 DEF Attach, Inv, Progress, ManualIsStill
  <2> QED BY <2>1, <2>2, <2>3, <2>4, <2>5, <2>6 DEF Inv
<1> QED BY <1>1, <1>2, <1>3, <1>4, <1>5, <1>6, <1>7

\* The statements of setManual and toggle.
LEMMA FixedSteps == Inv /\ (SetManual \/ Toggle \/ Detach \/ WritePin) => Inv'
<1> SUFFICES ASSUME Inv, SetManual \/ Toggle \/ Detach \/ WritePin
             PROVE  Inv'
  OBVIOUS
<1> USE ConstantFacts DEF arguments
<1>1. TypeOK'
  BY DEF SetManual, Toggle, Detach, WritePin, Inv, TypeOK
<1>2. Vector'
  BY DEF SetManual, Toggle, Detach, WritePin, Inv, Vector, Replaced
<1>3. Progress'
  BY DEF SetManual, Toggle, Detach, WritePin, Inv, Progress, Replaced, Fixing
<1>4. NeverFreezes' /\ InStep'
  BY DEF SetManual, Toggle, Detach, WritePin, Inv, Progress, Fixing, NeverFreezes, InStep
<1>5. ManualIsStill'
  BY DEF SetManual, Toggle, Detach, WritePin, Inv, Progress, ManualIsStill
<1> QED BY <1>1, <1>2, <1>3, <1>4, <1>5 DEF Inv

\* What the interrupt leaves behind: the one-time sequence over, or an entry of
\* the sequence begun.
Ended == mode' = "Manual" /\ timeout' = Off /\ on' = FALSE /\ ended' = (pc # "idle")
Begun ==
  /\ mode' = mode /\ ended' = ended
  /\ on' = Lit(cicleIndex')
  /\ vector # Torn /\ vector >= 2 =>
       timeout' = cicleIndex' /\ cicleIndex' \in 0..(vector - 1)

LEMMA CallbackEffect ==
  Inv /\ CicleCallback =>
    /\ cicleIndex' \in 0..(IndexWord - 1)
    /\ timeout' \in 0..(IndexWord - 1) \union {Off, Junk}
    /\ Ended \/ Begun
<1> SUFFICES ASSUME Inv, CicleCallback
             PROVE  /\ cicleIndex' \in 0..(IndexWord - 1)
                    /\ timeout' \in 0..(IndexWord - 1) \union {Off, Junk}
                    /\ Ended \/ Begun
  OBVIOUS
<1>1. NextIndex \in 0..(IndexWord - 1)
  BY ConstantFacts DEF NextIndex, Inv, TypeOK
<1> USE <1>1, ConstantFacts
<1>2. PICK past \in PastEnd(NextIndex) :
       \/ /\ past /\ oneTime
          /\ mode' = "Manual" /\ timeout' = Off /\ on' = FALSE
          /\ cicleIndex' = NextIndex
          /\ ended' = (pc # "idle")
       \/ past /\ ~oneTime /\ Play(0) /\ UNCHANGED ended
       \/ ~past /\ Play(NextIndex) /\ UNCHANGED ended
  BY DEF CicleCallback
<1>3. CASE past /\ oneTime
  BY <1>2, <1>3 DEF Ended
<1>4. CASE past /\ ~oneTime
  <2>1. Play(0) /\ UNCHANGED ended
    BY <1>2, <1>4
  <2>2. cicleIndex' = 0 /\ timeout' \in {0, Junk} /\ (vector # Torn => timeout' = 0)
    BY <2>1 DEF Play
  <2>3. vector # Torn /\ vector >= 2 => 0 \in 0..(vector - 1)
    BY DEF Inv, TypeOK
  <2> QED BY <2>1, <2>2, <2>3 DEF Play, Begun
<1>5. CASE ~past
  <2>1. Play(NextIndex) /\ UNCHANGED ended
    BY <1>2, <1>5
  <2>2. /\ cicleIndex' = NextIndex /\ timeout' \in {NextIndex, Junk}
        /\ vector # Torn => timeout' = NextIndex
    BY <2>1 DEF Play
  <2>3. vector # Torn => NextIndex < vector
    <3>1. vector # Torn => past = (NextIndex >= vector)
      BY Zenon DEF PastEnd
    <3>2. vector # Torn => ~(NextIndex >= vector)
      BY <3>1, <1>5, Zenon
    <3>3. NextIndex \in Int /\ vector \in Int
      BY DEF Inv, TypeOK
    <3> QED BY <3>2, <3>3
  <2>4. vector # Torn => NextIndex \in 0..(vector - 1)
    BY <2>3 DEF Inv, TypeOK
  <2> QED BY <2>1, <2>2, <2>4 DEF Play, Begun
<1> QED BY <1>3, <1>4, <1>5, <1>2

\* The interrupt, at any place of a call.
LEMMA CallbackStep == Inv /\ CicleCallback => Inv'
<1> SUFFICES ASSUME Inv, CicleCallback
             PROVE  Inv'
  OBVIOUS
<1>1. /\ timeout # Off /\ raced' = (pc # "idle")
      /\ vector' = vector /\ oneTime' = oneTime /\ pc' = pc
      /\ newLength' = newLength /\ newOneTime' = newOneTime /\ wanted' = wanted
  BY DEF CicleCallback, arguments
<1>2. /\ cicleIndex' \in 0..(IndexWord - 1)
      /\ timeout' \in 0..(IndexWord - 1) \union {Off, Junk}
      /\ Ended \/ Begun
  BY CallbackEffect
<1>3. on' \in BOOLEAN /\ mode' \in {"Manual", "Cicle"} /\ ended' \in BOOLEAN
  BY <1>2 DEF Ended, Begun, Lit, Inv, TypeOK
<1>4. raced' \in BOOLEAN
  BY <1>1
<1>5. TypeOK'
  BY <1>1, <1>2, <1>3, <1>4 DEF Inv, TypeOK
<1>6. mode' = "Cicle" => mode = "Cicle" /\ Begun
  BY <1>2 DEF Ended, Begun
<1>7. Vector'
  BY <1>1, <1>6 DEF Inv, Vector
<1>8. Progress'
  <2>1. raced' \/ pc = "idle"
    BY <1>1
  <2>2. (pc \in {"on", "attach"} /\ ~ended => mode = "Cicle")'
    <3>1. CASE Ended
      BY <3>1, <1>1 DEF Ended
    <3>2. CASE Begun
      BY <3>2, <1>1 DEF Begun, Inv, Progress
    <3> QED BY <1>2, <3>1, <3>2
  <2>3. (pc \in Fixing => mode = "Manual")'
    BY <1>1, <1>2 DEF Ended, Begun, Inv, Progress
  <2>4. (pc \in {"write", "toggle"} => timeout = Off)'
    BY <1>1 DEF Inv, Progress
  <2> QED BY <1>1, <2>1, <2>2, <2>3, <2>4 DEF Progress, Replaced
<1>9. NeverFreezes' /\ InStep'
  <2> SUFFICES ASSUME pc = "idle", mode' = "Cicle"
               PROVE  /\ timeout' \in 0..(vector' - 1)
                      /\ on' = Lit(cicleIndex') /\ timeout' = cicleIndex'
    BY <1>1 DEF NeverFreezes, InStep
  <2>1. Begun /\ mode = "Cicle" /\ vector # Torn /\ vector >= 2
    BY <1>6 DEF Inv, Vector
  <2> QED BY <2>1, <1>1 DEF Begun
<1>10. ManualIsStill'
  <2>1. CASE Ended
    BY <2>1 DEF Ended, ManualIsStill
  <2>2. CASE Begun
    BY <2>2, <1>1 DEF Begun, Inv, ManualIsStill
  <2> QED BY <1>2, <2>1, <2>2
<1> QED BY <1>5, <1>7, <1>8, <1>9, <1>10 DEF Inv

LEMMA StepKeeps == Inv /\ [Next]_vars => Inv'
<1>1. ASSUME Inv, UNCHANGED vars
      PROVE  Inv'
  BY <1>1 DEF vars, arguments, Inv, TypeOK, Vector, Progress, NeverFreezes, InStep,
              ManualIsStill
<1> QED BY <1>1, SequenceSteps, FixedSteps, CallbackStep DEF Next, Call

LEMMA InvHolds == Spec => []Inv
  BY InitHolds, StepKeeps, PTL DEF Spec

\* The types of the members of LedHandler, under any interrupt.
THEOREM TypesHold == Spec => []TypeOK
<1>1. Inv => TypeOK
  BY DEF Inv
<1> QED BY InvHolds, <1>1, PTL

\* A LED in a sequence always has a timeout running, for a time of that
\* sequence, although the interrupt may fall anywhere in setCicle
\* (LedHandler::setCicle, LedHandler::cicleCallback).
THEOREM SequenceGoesOn == Spec => []NeverFreezes
<1>1. Inv => NeverFreezes
  BY DEF Inv
<1> QED BY InvHolds, <1>1, PTL

\* The LED is lit during the even entries of its sequence, each for its own
\* time, but for one entry after an interrupt within setCicle.
THEOREM SequenceIsShown == Spec => []InStep
<1>1. Inv => InStep
  BY DEF Inv
<1> QED BY InvHolds, <1>1, PTL

\* A fixed state has no timeout running (the detach of LedHandler::setManual),
\* unless a one-time sequence ended within the call.
THEOREM FixedStaysFixed == Spec => []ManualIsStill
<1>1. Inv => ManualIsStill
  BY DEF Inv
<1> QED BY InvHolds, <1>1, PTL

=============================================================================
