--------------------------- MODULE LuminaryProofs ---------------------------
(* Proofs about Luminary, for every value of its constants.                *)
EXTENDS Luminary, TLAPS

-----------------------------------------------------------------------------
(* The settings and their values                                           *)

\* The slots are distinct and in range.
LEMMA SlotFacts ==
  /\ \A f \in Settings : Slot[f] \in 1..LastSlot
  /\ \A f, g \in Settings : Slot[f] = Slot[g] => f = g
  BY DEF Settings, Slot, LastSlot

\* What a save stores for a value in RAM, and what a boot makes of a stored
\* value, have the types of the two sides.
LEMMA ValueTypes ==
  /\ \A f \in Settings : RamType[f] \subseteq NvmType[f]
  /\ \A f \in Settings : \A v \in RamType[f] : SaveValue(f, v) \in NvmType[f]
  /\ \A f \in Settings : \A v \in NvmType[f] : LoadValue(f, v) \in RamType[f]
<1>1. \A f \in Settings : f \notin {"curve", "manual"} => RamType[f] = NvmType[f]
  <2>1. /\ RamType["loopDelay"] = NvmType["loopDelay"]
        /\ RamType["loopsToSend"] = NvmType["loopsToSend"]
        /\ RamType["opMode"] = NvmType["opMode"]
        /\ RamType["onOff"] = NvmType["onOff"]
        /\ RamType["low"] = NvmType["low"]
        /\ RamType["high"] = NvmType["high"]
    BY DEF RamType, NvmType
  <2> QED BY <2>1 DEF Settings
<1>2. /\ RamType["curve"] = 0..3 /\ NvmType["curve"] = Byte
      /\ RamType["manual"] = 0..100 /\ NvmType["manual"] = Byte
      /\ RamType["opMode"] = OpMode
  BY DEF RamType, NvmType
<1>3. \A f \in Settings : RamType[f] \subseteq NvmType[f]
  <2> SUFFICES ASSUME NEW f \in Settings, NEW v \in RamType[f]
               PROVE  v \in NvmType[f]
    OBVIOUS
  <2>1. CASE f \in {"curve", "manual"}
    BY <2>1, <1>2 DEF Byte
  <2>2. CASE f \notin {"curve", "manual"}
    BY <2>2, <1>1
  <2> QED BY <2>1, <2>2
<1>4. ASSUME NEW f \in Settings, NEW v \in RamType[f]
      PROVE  SaveValue(f, v) \in NvmType[f]
  BY <1>1, <1>2, <1>3 DEF SaveValue, SavedPercent
<1>5. ASSUME NEW f \in Settings, NEW v \in NvmType[f]
      PROVE  LoadValue(f, v) \in RamType[f]
  <2>1. CASE f = "opMode"
    BY <2>1, <1>1, <1>2 DEF LoadValue, OpMode
  <2>2. CASE f = "curve"
    BY <2>2, <1>2 DEF LoadValue, SelectCurve, Byte
  <2>3. CASE f = "manual"
    BY <2>3, <1>2 DEF LoadValue, ClampLevel, Byte
  <2>4. CASE f \notin {"opMode", "curve", "manual"}
    <3>1. LoadValue(f, v) = v
      BY <2>4 DEF LoadValue
    <3> QED BY <3>1, <2>4, <1>1
  <2> QED BY <2>1, <2>2, <2>3, <2>4
<1> QED BY <1>3, <1>4, <1>5

LEMMA StaticTypes ==
  /\ DOMAIN StaticSettings = Settings
  /\ Holds(StaticSettings, RamType) /\ Holds(StaticSettings, NvmType)
  /\ Holds(DefaultSettings, NvmType)
<1>1. DOMAIN StaticSettings = Settings /\ DOMAIN DefaultSettings = Settings
  BY DEF StaticSettings, DefaultSettings, Settings
<1>2. /\ 30 \in Word /\ 20 \in Byte /\ 0 \in 0..3 /\ 100 \in 0..100
      /\ 0 \in Byte /\ 100 \in Byte
  BY DEF Word, Byte
<1>3. "Manual" \in OpMode /\ "AutoPhotoCell" \in OpMode
  BY DEF OpMode
<1>4. ASSUME NEW f \in Settings PROVE StaticSettings[f] \in RamType[f]
  BY <1>2, <1>3, <1>4, FrameAssumption DEF StaticSettings, Settings, RamType
<1>5. ASSUME NEW f \in Settings PROVE StaticSettings[f] \in NvmType[f]
  BY <1>2, <1>3, <1>5, FrameAssumption DEF StaticSettings, Settings, NvmType
<1>6. ASSUME NEW f \in Settings PROVE DefaultSettings[f] \in NvmType[f]
  <2>1. CASE f = "opMode"
    BY <2>1, <1>1, <1>3 DEF DefaultSettings, StaticSettings, NvmType
  <2>2. CASE f # "opMode"
    <3>1. DefaultSettings[f] = StaticSettings[f]
      BY <2>2, <1>1 DEF DefaultSettings
    <3> QED BY <3>1, <1>5
  <2> QED BY <2>1, <2>2
<1> QED BY <1>1, <1>4, <1>5, <1>6 DEF Holds

\* Replacing one setting by a value of its type keeps the types.
LEMMA HoldsExcept ==
  ASSUME NEW x, NEW type, Holds(x, type), NEW f \in Settings, NEW v \in type[f]
  PROVE  /\ Holds([x EXCEPT ![f] = v], type)
         /\ DOMAIN [x EXCEPT ![f] = v] = DOMAIN x
  BY DEF Holds

\* A level the lamp may be given is at most 150 percent.
LEMMA LevelTypes ==
  ASSUME Holds(cfg, RamType)
  PROVE  Levels(cfg) \subseteq 0..150
<1>1. cfg.manual \in 0..100
  BY DEF Holds, Settings, RamType
<1> QED BY <1>1, LevelAssumption DEF Levels

-----------------------------------------------------------------------------
(* Types                                                                   *)

LEMMA InitTypes == Init => TypeOK
<1> SUFFICES ASSUME Init PROVE TypeOK
  OBVIOUS
<1>1. /\ DOMAIN nvm = Settings \union {"stamped"} /\ Holds(nvm, NvmType)
      /\ nvm.stamped \in BOOLEAN
  BY NvmAssumption DEF Init
<1>2. commanded \in OpMode
  <2>1. nvm["opMode"] \in NvmType["opMode"]
    BY <1>1 DEF Holds, Settings
  <2> QED BY <2>1 DEF Init, NvmType
<1>3. pc \in BootPcs /\ cursor \in 1..(IF pc = "fill" THEN BlockSize ELSE LastSlot)
  BY DEF Init, BootPcs, LastSlot
<1>4. left \in (IF pc \in {"wait", "sleep"} THEN 1 ELSE 0)..MaxWait
  BY BoundAssumption DEF Init
<1>5. downlinks \in 0..MaxDownlinks /\ restarts \in 0..MaxRestarts
  BY BoundAssumption DEF Init
<1>6. /\ DOMAIN cfg = Settings /\ Holds(cfg, RamType)
      /\ DOMAIN saveBuffer = Settings /\ Holds(saveBuffer, NvmType)
  BY StaticTypes DEF Init
<1>7. loopsCount \in Byte /\ lastDimming \in 0..150 /\ report = NoReport
  BY DEF Init, Byte
<1>8. /\ pending \subseteq Flags /\ missed \subseteq Settings
      /\ bypass \in BOOLEAN /\ synced \in BOOLEAN /\ isJoined \in BOOLEAN
      /\ chosen \in BOOLEAN /\ overtaken \in BOOLEAN /\ modeUnread \in BOOLEAN
  BY DEF Init
<1> QED
  BY <1>1, <1>2, <1>3, <1>4, <1>5, <1>6, <1>7, <1>8 DEF TypeOK

\* A downlink that leaves settings of their types, and raises known flags.
LEMMA DownlinkTypes ==
  ASSUME TypeOK, NEW changes, NEW newCfg, NEW flags,
         changes \subseteq Settings, flags \subseteq Flags,
         DOMAIN newCfg = Settings, Holds(newCfg, RamType),
         Downlink(changes, newCfg, flags),
         synced' \in BOOLEAN, commanded' \in OpMode, chosen' \in BOOLEAN
  PROVE  TypeOK'
<1>1. missed' \subseteq Settings
  BY DEF Downlink, TypeOK
<1>2. downlinks' \in 0..MaxDownlinks
  BY BoundAssumption DEF Downlink, TypeOK
<1>3. pending' \subseteq Flags
  BY DEF Downlink, TypeOK
<1>4. /\ DOMAIN cfg' = Settings /\ Holds(cfg', RamType)
      /\ DOMAIN saveBuffer' = Settings /\ Holds(saveBuffer', NvmType)
      /\ DOMAIN nvm' = Settings \union {"stamped"} /\ Holds(nvm', NvmType)
      /\ nvm'.stamped \in BOOLEAN
  BY DEF Downlink, TypeOK
<1> QED
  BY <1>1, <1>2, <1>3, <1>4 DEF Downlink, TypeOK

\* The same for a command that chooses a mode.
LEMMA CommandModeTypes ==
  ASSUME TypeOK, NEW m \in OpMode, NEW others, NEW newCfg,
         others \subseteq Settings,
         DOMAIN newCfg = Settings, Holds(newCfg, RamType),
         CommandMode(m, others, newCfg)
  PROVE  TypeOK'
<1> DEFINE chosenCfg == [newCfg EXCEPT !.opMode = m]
<1>1. DOMAIN chosenCfg = Settings /\ Holds(chosenCfg, RamType)
  <2>1. "opMode" \in Settings /\ m \in RamType["opMode"]
    BY DEF Settings, RamType
  <2> QED BY <2>1, HoldsExcept
<1>2. others \union {"opMode"} \subseteq Settings /\ {"SaveConfig"} \subseteq Flags
  BY DEF Settings, Flags
<1>3. /\ Downlink(others \union {"opMode"}, chosenCfg, {"SaveConfig"})
      /\ synced' \in BOOLEAN /\ commanded' \in OpMode /\ chosen' \in BOOLEAN
  BY DEF CommandMode, TypeOK
<1> HIDE DEF chosenCfg
<1> QED BY <1>1, <1>2, <1>3, DownlinkTypes

LEMMA RestartTypes == TypeOK /\ Restart => TypeOK'
<1> SUFFICES ASSUME TypeOK, Restart PROVE TypeOK'
  OBVIOUS
<1>1. /\ DOMAIN cfg' = Settings /\ Holds(cfg', RamType)
      /\ DOMAIN saveBuffer' = Settings /\ Holds(saveBuffer', NvmType)
  BY StaticTypes DEF Restart
<1>2. /\ pc' \in BootPcs
      /\ cursor' \in 1..(IF pc' = "fill" THEN BlockSize ELSE LastSlot)
  BY DEF Restart, BootPcs, LastSlot
<1>3. left' \in (IF pc' \in {"wait", "sleep"} THEN 1 ELSE 0)..MaxWait
  BY BoundAssumption DEF Restart
<1>4. restarts' \in 0..MaxRestarts
  BY BoundAssumption DEF Restart, TypeOK
<1>5. /\ DOMAIN nvm' = Settings \union {"stamped"} /\ Holds(nvm', NvmType)
      /\ nvm'.stamped \in BOOLEAN
      /\ downlinks' \in 0..MaxDownlinks /\ commanded' \in OpMode
  BY DEF Restart, TypeOK
<1>6. /\ pending' \subseteq Flags /\ missed' \subseteq Settings
      /\ bypass' \in BOOLEAN /\ synced' \in BOOLEAN /\ isJoined' \in BOOLEAN
      /\ chosen' \in BOOLEAN /\ overtaken' \in BOOLEAN /\ modeUnread' \in BOOLEAN
  BY DEF Restart, TypeOK
<1>7. loopsCount' \in Byte /\ lastDimming' \in 0..150 /\ report' = NoReport
  BY DEF Restart, Byte
<1> QED BY <1>1, <1>2, <1>3, <1>4, <1>5, <1>6, <1>7 DEF TypeOK, NoReport

LEMMA ReceiveTypes == TypeOK /\ Receive => TypeOK'
<1> SUFFICES ASSUME TypeOK, Receive PROVE TypeOK'
  OBVIOUS
<1>t. /\ DOMAIN cfg = Settings /\ Holds(cfg, RamType)
      /\ synced \in BOOLEAN /\ commanded \in OpMode /\ chosen \in BOOLEAN
  BY DEF TypeOK
<1>f. {} \subseteq Settings /\ {} \subseteq Flags /\ {"SaveConfig"} \subseteq Flags
  BY DEF Flags
<1>1. CASE ReceiveTime
  BY <1>1, <1>t, <1>f, DownlinkTypes DEF ReceiveTime
<1>2. CASE ReceiveCurve
  <2>1. PICK index \in CurveIndexes :
          CommandMode("AutoCurve", {"curve"}, [cfg EXCEPT !.curve = SelectCurve(index)])
    BY <1>2 DEF ReceiveCurve
  <2>2. SelectCurve(index) \in RamType["curve"]
    BY FrameAssumption DEF SelectCurve, RamType, Byte
  <2>3. "AutoCurve" \in OpMode /\ {"curve"} \subseteq Settings /\ "curve" \in Settings
    BY DEF OpMode, Settings
  <2> QED BY <2>1, <2>2, <2>3, <1>t, HoldsExcept, CommandModeTypes
<1>3. CASE ReceiveManual
  <2>1. PICK level \in DimBytes :
          CommandMode("Manual", {"manual"}, [cfg EXCEPT !.manual = ClampLevel(level)])
    BY <1>3 DEF ReceiveManual
  <2>2. ClampLevel(level) \in RamType["manual"]
    BY FrameAssumption DEF ClampLevel, RamType, Byte
  <2>3. "Manual" \in OpMode /\ {"manual"} \subseteq Settings /\ "manual" \in Settings
    BY DEF OpMode, Settings
  <2> QED BY <2>1, <2>2, <2>3, <1>t, HoldsExcept, CommandModeTypes
<1>4. CASE ReceiveRequest
  <2>1. PICK flag \in {"SendConfig", "SendTimestamp", "SyncClock"} :
          Downlink({}, cfg, {flag})
    BY <1>4 DEF ReceiveRequest
  <2>2. {flag} \subseteq Flags
    BY DEF Flags
  <2> QED BY <1>4, <2>1, <2>2, <1>t, <1>f, DownlinkTypes DEF ReceiveRequest
<1>5. CASE ReceiveCustomCurve
  <2> DEFINE newCfg(half, bytes) == [cfg EXCEPT ![half] = bytes]
  <2>1. PICK half \in {"low", "high"}, bytes \in CurveHalves :
          Downlink({half}, newCfg(half, bytes), {"SaveConfig"})
    BY <1>5 DEF ReceiveCustomCurve
  <2>2. half \in Settings /\ bytes \in RamType[half]
    BY DEF Settings, RamType
  <2>3. {half} \subseteq Settings
    BY <2>2
  <2>4. /\ DOMAIN newCfg(half, bytes) = Settings
        /\ Holds(newCfg(half, bytes), RamType)
    BY <2>2, <1>t, HoldsExcept
  <2>5. synced' \in BOOLEAN /\ commanded' \in OpMode /\ chosen' \in BOOLEAN
    BY <1>5, <1>t DEF ReceiveCustomCurve
  <2> HIDE DEF newCfg
  <2> QED BY <2>1, <2>3, <2>4, <2>5, <1>f, DownlinkTypes
<1>6. CASE ReceiveMode
  <2>1. PICK m \in {"Manual", "AutoPhotoCell", "AutoCurve", "Demo"} :
          CommandMode(m, {}, cfg)
    BY <1>6 DEF ReceiveMode
  <2>2. m \in OpMode
    BY DEF OpMode
  <2> QED BY <2>1, <2>2, <1>t, <1>f, CommandModeTypes
<1>7. CASE ReceiveUnknownMode
  BY <1>7, <1>t, <1>f, DownlinkTypes DEF ReceiveUnknownMode
<1>8. CASE ReceiveOnOff
  <2>1. PICK times \in OnOffTimes :
          CommandMode("AutoTime", {"onOff"}, [cfg EXCEPT !.onOff = times])
    BY <1>8 DEF ReceiveOnOff
  <2>2. times \in RamType["onOff"]
    BY DEF RamType
  <2>3. "AutoTime" \in OpMode /\ {"onOff"} \subseteq Settings /\ "onOff" \in Settings
    BY DEF OpMode, Settings
  <2>4. /\ DOMAIN [cfg EXCEPT !.onOff = times] = Settings
        /\ Holds([cfg EXCEPT !.onOff = times], RamType)
    BY <2>2, <2>3, <1>t, HoldsExcept
  <2> QED BY <2>1, <2>3, <2>4, CommandModeTypes
<1>9. CASE ReceivePeriod
  <2> DEFINE delay(p) == IF p.delay < 30 THEN 30 ELSE p.delay
             newCfg(p) == [cfg EXCEPT !.loopDelay = delay(p), !.loopsToSend = p.loops]
  <2>1. PICK p \in Periods :
          Downlink({"loopDelay", "loopsToSend"}, newCfg(p), {"SaveConfig"})
    BY <1>9 DEF ReceivePeriod
  <2>6. p \in [delay : Word, loops : Byte]
    BY PeriodAssumption
  <2>2. p.delay \in Word /\ p.loops \in Byte
    BY <2>6
  <2>7. RamType["loopDelay"] = Word /\ RamType["loopsToSend"] = Byte
    BY DEF RamType
  <2>3. delay(p) \in RamType["loopDelay"] /\ p.loops \in RamType["loopsToSend"]
    <3>1. 30 \in Word
      BY DEF Word
    <3>2. delay(p) \in Word
      BY <2>2, <3>1
    <3> HIDE DEF delay
    <3> QED BY <2>2, <2>7, <3>2, Zenon
  <2>4. {"loopDelay", "loopsToSend"} \subseteq Settings
    BY DEF Settings
  <2>5. DOMAIN newCfg(p) = Settings /\ Holds(newCfg(p), RamType)
    <3>1. /\ DOMAIN [cfg EXCEPT !.loopDelay = delay(p)] = Settings
          /\ Holds([cfg EXCEPT !.loopDelay = delay(p)], RamType)
      BY <2>3, <2>4, <1>t, HoldsExcept
    <3> QED BY <2>3, <2>4, <3>1, HoldsExcept
  <2> HIDE DEF newCfg
  <2> QED BY <1>9, <2>1, <2>4, <2>5, <1>t, <1>f, DownlinkTypes DEF ReceivePeriod
<1>10. CASE ReceiveIgnored
  BY <1>10, <1>t, <1>f, DownlinkTypes DEF ReceiveIgnored
<1>11. CASE ReceiveReset
  BY <1>11, RestartTypes DEF ReceiveReset
<1> QED
  BY <1>1, <1>2, <1>3, <1>4, <1>5, <1>6, <1>7, <1>8, <1>9, <1>10, <1>11 DEF Receive

LEMMA MainTypes == TypeOK /\ Main => TypeOK'
<1> SUFFICES ASSUME TypeOK, Main PROVE TypeOK'
  OBVIOUS
<1>t. /\ DOMAIN cfg = Settings /\ Holds(cfg, RamType)
      /\ DOMAIN saveBuffer = Settings /\ Holds(saveBuffer, NvmType)
      /\ DOMAIN nvm = Settings \union {"stamped"} /\ Holds(nvm, NvmType)
      /\ nvm.stamped \in BOOLEAN
  BY DEF TypeOK
<1>m. cfg["loopsToSend"] \in Byte /\ cfg["opMode"] \in OpMode /\ nvm["opMode"] \in OpMode
  BY <1>t DEF Holds, Settings, RamType, NvmType
<1>1. CASE ReadVersion
  BY <1>1
     DEF ReadVersion, TypeOK, ramVars, bounds, history, BootPcs, LoopPcs,
         SavePcs, PartOnePcs, WaitPcs, BlockSize, LastSlot
<1>2. CASE StampVersion
  <2>1. /\ DOMAIN nvm' = Settings \union {"stamped"} /\ Holds(nvm', NvmType)
        /\ nvm'.stamped \in BOOLEAN
    BY <1>2, <1>t DEF StampVersion, Holds, Settings
  <2> QED
    BY <1>2, <2>1 DEF StampVersion, TypeOK, ramVars, bounds, history, BootPcs,
       LoopPcs, LastSlot
<1>3. CASE WriteDefault
  <2>1. PICK f \in Settings :
          /\ Slot[f] = cursor
          /\ nvm' = [nvm EXCEPT ![f] = DefaultSettings[f]]
          /\ commanded' = IF f = "opMode" THEN DefaultSettings[f] ELSE commanded
    BY <1>3 DEF WriteDefault
  <2>2. DefaultSettings[f] \in NvmType[f]
    BY StaticTypes DEF Holds
  <2>3. /\ DOMAIN nvm' = Settings \union {"stamped"} /\ Holds(nvm', NvmType)
        /\ nvm'.stamped \in BOOLEAN
    <3>1. DOMAIN nvm' = DOMAIN nvm /\ Holds(nvm', NvmType)
      BY <2>1, <2>2, <1>t, HoldsExcept
    <3>2. nvm'.stamped = nvm.stamped
      BY <2>1, <1>t DEF Settings
    <3> QED BY <3>1, <3>2, <1>t
  <2>4. commanded' \in OpMode
    BY <2>1, <2>2 DEF NvmType, TypeOK
  <2>5. /\ pc' \in {"writeDefaults", "loadConfig"}
        /\ cursor' \in 1..LastSlot
    BY <1>3 DEF WriteDefault, TypeOK, LastSlot
  <2> QED
    BY <1>3, <2>3, <2>4, <2>5 DEF WriteDefault, TypeOK, ramVars, bounds, BootPcs
<1>4. CASE LoadConfig
  <2>1. PICK unread \in ReadFaults :
          /\ cfg' = [f \in Settings |-> IF f \in unread THEN cfg[f]
                                        ELSE LoadValue(f, nvm[f])]
          /\ missed' = unread
    BY <1>4 DEF LoadConfig
  <2>2. DOMAIN cfg' = Settings /\ Holds(cfg', RamType)
    BY <2>1, <1>t, ValueTypes DEF Holds
  <2>3. missed' \subseteq Settings
    BY <2>1, ReadAssumption
  <2> QED
    BY <1>4, <2>2, <2>3 DEF LoadConfig, TypeOK, bounds, BootPcs
<1>5. CASE InitialJoin
  BY <1>5
     DEF InitialJoin, JoinNetwork, TypeOK, ramVars, bounds, history, BootPcs, LoopPcs,
         SavePcs, PartOnePcs, WaitPcs, BlockSize, LastSlot
<1>6. CASE PrimeLoops
  BY <1>6, <1>m
     DEF PrimeLoops, TypeOK, ramVars, bounds, history, BootPcs, LoopPcs,
         SavePcs, PartOnePcs, WaitPcs, BlockSize, LastSlot
<1>7. CASE CheckSave
  BY <1>7
     DEF CheckSave, TypeOK, ramVars, bounds, history, BootPcs, LoopPcs,
         SavePcs, PartOnePcs, WaitPcs, BlockSize, LastSlot
<1>8. CASE FillBuffer
  <2>1. PICK f \in Settings :
          /\ Slot[f] = cursor
          /\ saveBuffer' = [saveBuffer EXCEPT ![f] = SaveValue(f, cfg[f])]
    BY <1>8 DEF FillBuffer
  <2>2. SaveValue(f, cfg[f]) \in NvmType[f]
    BY <1>t, ValueTypes DEF Holds
  <2>3. DOMAIN saveBuffer' = Settings /\ Holds(saveBuffer', NvmType)
    BY <2>1, <2>2, <1>t, HoldsExcept
  <2>4. /\ pc' \in {"fill", "write"}
        /\ cursor' \in 1..(IF pc' = "fill" THEN BlockSize ELSE LastSlot)
    BY <1>8 DEF FillBuffer, TypeOK, BlockSize, LastSlot
  <2> QED
    BY <1>8, <2>3, <2>4 DEF FillBuffer, TypeOK, bounds, history, LoopPcs, SavePcs
<1>9. CASE WriteNvm
  <2>1. PICK f \in Settings :
          /\ Slot[f] = cursor
          /\ nvm' = [nvm EXCEPT ![f] = IF cursor <= BlockSize THEN saveBuffer[f]
                                                              ELSE cfg[f]]
    BY <1>9 DEF WriteNvm
  <2>2. saveBuffer[f] \in NvmType[f] /\ cfg[f] \in NvmType[f]
    BY <1>t, ValueTypes DEF Holds
  <2>3. /\ DOMAIN nvm' = Settings \union {"stamped"} /\ Holds(nvm', NvmType)
        /\ nvm'.stamped \in BOOLEAN
    <3>1. DOMAIN nvm' = DOMAIN nvm /\ Holds(nvm', NvmType)
      BY <2>1, <2>2, <1>t, HoldsExcept
    <3>2. nvm'.stamped = nvm.stamped
      BY <2>1, <1>t DEF Settings
    <3> QED BY <3>1, <3>2, <1>t
  <2>4. pc' \in {"write", "saved"} /\ cursor' \in 1..LastSlot
    BY <1>9 DEF WriteNvm, TypeOK, LastSlot
  <2> QED
    BY <1>9, <2>3, <2>4 DEF WriteNvm, TypeOK, ramVars, bounds, history, LoopPcs,
       SavePcs
<1>10. CASE ClearPending
  BY <1>10, StaticTypes DEF ClearPending, TypeOK, bounds, history, LoopPcs, LastSlot, BlockSize
<1>11. CASE PartOne
  BY <1>11
     DEF PartOne, TypeOK, ramVars, bounds, history, BootPcs, LoopPcs,
         SavePcs, PartOnePcs, WaitPcs, BlockSize, LastSlot
<1>12. CASE Rejoin
  <2>1. isJoined' \in BOOLEAN /\ pc' = "sync" /\ cursor \in 1..LastSlot
    BY <1>12 DEF Rejoin, JoinNetwork, TypeOK, LastSlot
  <2> QED
    BY <1>12, <2>1 DEF Rejoin, TypeOK, bounds, history, LoopPcs, PartOnePcs
<1>13. CASE SyncClock
  <2>1. /\ synced' \in BOOLEAN /\ pending' \subseteq Flags
        /\ pc' = "timestamp" /\ cursor \in 1..LastSlot
    BY <1>13 DEF SyncClock, SyncTime, TypeOK, LastSlot
  <2> QED
    BY <1>13, <2>1 DEF SyncClock, TypeOK, bounds, history, LoopPcs, PartOnePcs
<1>14. CASE SendTimestamp
  BY <1>14
     DEF SendTimestamp, TypeOK, ramVars, bounds, history, BootPcs, LoopPcs,
         SavePcs, PartOnePcs, WaitPcs, BlockSize, LastSlot
<1>15. CASE RecoverMode
  <2>1. DOMAIN cfg' = Settings /\ Holds(cfg', RamType)
    <3>1. "opMode" \in Settings /\ nvm.opMode \in RamType["opMode"]
      BY <1>m DEF Settings, RamType
    <3>2. cfg' = cfg \/ cfg' = [cfg EXCEPT !.opMode = nvm.opMode]
      BY <1>15 DEF RecoverMode
    <3> QED BY <1>t, <3>1, <3>2, HoldsExcept
  <2> QED
    BY <1>15, <2>1 DEF RecoverMode, TypeOK, bounds, history, LoopPcs, PartOnePcs,
       BlockSize, LastSlot
<1>16. CASE SendConfig
  BY <1>16
     DEF SendConfig, TypeOK, ramVars, bounds, history, BootPcs, LoopPcs,
         SavePcs, PartOnePcs, WaitPcs, BlockSize, LastSlot
<1>17. CASE SetLight
  BY <1>17, <1>t, LevelTypes
     DEF SetLight, TypeOK, ramVars, bounds, history, BootPcs, LoopPcs,
         SavePcs, PartOnePcs, WaitPcs, BlockSize, LastSlot
<1>18. CASE PartTwo
  <2>1. report' = report \/ report' \in [dimming : 0..150, mode : OpMode]
    BY <1>18, <1>m DEF PartTwo, LightStatus, TypeOK
  <2> QED
    BY <1>18, <2>1 DEF PartTwo, LightStatus, TypeOK, bounds, history, LoopPcs, BlockSize, LastSlot
<1>19. CASE CountLoop
  <2>1. loopsCount' \in Byte
    BY <1>19, <1>m DEF CountLoop, Due, TypeOK, Byte
  <2> QED
    BY <1>19, <2>1 DEF CountLoop, TypeOK, bounds, history, LoopPcs, WaitPcs,
       BlockSize, LastSlot
<1>20. CASE ComputeDelay
  BY <1>20, BoundAssumption
     DEF ComputeDelay, TypeOK, ramVars, bounds, history, BootPcs, LoopPcs,
         SavePcs, PartOnePcs, WaitPcs, BlockSize, LastSlot
<1>21. CASE CheckWait
  <2>1. /\ pc' \in {"top", "clear", "sleep"}
        /\ left' \in (IF pc' \in {"wait", "sleep"} THEN 1 ELSE 0)..MaxWait
    BY <1>21, BoundAssumption DEF CheckWait, TypeOK
  <2>2. loopsCount' \in Byte /\ bypass' \in BOOLEAN
    BY <1>21, <1>m DEF CheckWait, TypeOK
  <2> QED
    BY <1>21, <2>1, <2>2 DEF CheckWait, TypeOK, bounds, history, LoopPcs, WaitPcs,
       BlockSize, LastSlot
<1>22. CASE Sleep
  BY <1>22, BoundAssumption
     DEF Sleep, TypeOK, ramVars, bounds, history, BootPcs, LoopPcs,
         SavePcs, PartOnePcs, WaitPcs, BlockSize, LastSlot
<1>23. CASE ClearBypass
  BY <1>23, BoundAssumption
     DEF ClearBypass, TypeOK, bounds, history, BootPcs, LoopPcs,
         SavePcs, PartOnePcs, WaitPcs, BlockSize, LastSlot
<1> QED
  BY <1>1, <1>2, <1>3, <1>4, <1>5, <1>6, <1>7, <1>8, <1>9, <1>10, <1>11, <1>12,
     <1>13, <1>14, <1>15, <1>16, <1>17, <1>18, <1>19, <1>20, <1>21, <1>22, <1>23
     DEF Main, Boot, Save, Iterate, Wait

\* Every reachable state has its types: the counters stay in their bytes, the
\* curve index and the manual level in their ranges, whatever is stored, read
\* back or received.
THEOREM TypeCorrect == Spec => []TypeOK
<1>1. TypeOK /\ [Next]_vars => TypeOK'
  <2> SUFFICES ASSUME TypeOK, [Next]_vars PROVE TypeOK'
    OBVIOUS
  <2>1. CASE Next
    BY <2>1, MainTypes, ReceiveTypes, RestartTypes DEF Next, PowerCut
  <2>2. CASE UNCHANGED vars
    BY <2>2 DEF vars, ramVars, bounds, history, TypeOK
  <2> QED BY <2>1, <2>2
<1> QED BY InitTypes, <1>1, PTL DEF Spec

-----------------------------------------------------------------------------
(* Durability                                                              *)

\* What a save under way has done so far: the settings it has captured, and
\* that no downlink changed since, are in the buffer or in the EEPROM with the
\* value RAM has. The flag stays set until it ends.
SaveUnderWay ==
  /\ pc \in SavePcs => "SaveConfig" \in pending
  /\ \A f \in Settings \ missed :
       /\ (pc = "fill" /\ Slot[f] < cursor) \/ (pc = "write" /\ Slot[f] <= BlockSize)
            => saveBuffer[f] = SaveValue(f, cfg[f])
       /\ (pc = "write" /\ Slot[f] < cursor) \/ pc = "saved"
            => nvm[f] = SaveValue(f, cfg[f])

DurableInv == TypeOK /\ DurableSettings /\ SaveUnderWay

\* Settings that are neither changed in RAM nor in the EEPROM, nor dropped from
\* the missed ones, remain in force.
LEMMA InForceStable ==
  ASSUME NEW f \in Settings, InForce(f), cfg'[f] = cfg[f], nvm'[f] = nvm[f]
  PROVE  InForce(f)'
  BY DEF InForce

\* A step of the main thread that changes neither side of a setting, does not
\* touch the saving flag and stays outside boot and save.
LEMMA QuietStep ==
  ASSUME DurableInv, UNCHANGED <<nvm, missed>>, pc' \notin SavePcs, Loaded,
         pc \notin SavePcs, \A f \in Settings : cfg'[f] = cfg[f],
         "SaveConfig" \in pending => "SaveConfig" \in pending'
  PROVE  DurableSettings' /\ SaveUnderWay'
<1>1. SaveUnderWay'
  BY DEF SaveUnderWay, SavePcs
<1>2. DurableSettings'
  BY InForceStable DEF DurableInv, DurableSettings
<1> QED BY <1>1, <1>2

LEMMA BootDurable ==
  ASSUME DurableInv, Boot
  PROVE  DurableSettings' /\ SaveUnderWay'
<1>1. CASE ReadVersion \/ StampVersion \/ WriteDefault
  <2>1. pc' \in {"readVersion", "stampVersion", "writeDefaults", "loadConfig"}
    BY <1>1 DEF ReadVersion, StampVersion, WriteDefault
  <2> QED BY <2>1 DEF DurableSettings, SaveUnderWay, Loaded, SavePcs
<1>2. CASE LoadConfig
  <2>1. PICK unread \in ReadFaults :
          /\ cfg' = [f \in Settings |-> IF f \in unread THEN cfg[f]
                                        ELSE LoadValue(f, nvm[f])]
          /\ missed' = unread /\ nvm' = nvm /\ pc' = "initialJoin"
    BY <1>2 DEF LoadConfig
  <2>2. \A f \in Settings \ missed' : cfg'[f] = LoadValue(f, nvm'[f])
    BY <2>1
  <2> QED BY <2>1, <2>2 DEF DurableSettings, SaveUnderWay, InForce, SavePcs
<1>3. CASE InitialJoin
  BY <1>3, QuietStep DEF InitialJoin, JoinNetwork, history, SavePcs, Loaded
<1>4. CASE PrimeLoops
  BY <1>4, QuietStep DEF PrimeLoops, history, SavePcs, Loaded
<1> QED BY <1>1, <1>2, <1>3, <1>4 DEF Boot

LEMMA SaveDurable ==
  ASSUME DurableInv, Save
  PROVE  DurableSettings' /\ SaveUnderWay'
<1>t. cursor \in 1..LastSlot /\ (pc = "fill" => cursor \in 1..BlockSize)
  BY DEF DurableInv, TypeOK, LastSlot, BlockSize
<1>d. /\ DOMAIN saveBuffer = Settings
      /\ DOMAIN nvm = Settings \union {"stamped"}
  BY DEF DurableInv, TypeOK
<1>1. CASE CheckSave
  <2>1. CASE "SaveConfig" \in pending
    BY <1>1, <2>1, SlotFacts
       DEF CheckSave, ramVars, DurableSettings, SaveUnderWay, LastSlot
  <2>2. CASE "SaveConfig" \notin pending
    BY <1>1, <2>2, QuietStep DEF CheckSave, ramVars, SavePcs, Loaded
  <2> QED BY <2>1, <2>2
<1>2. CASE FillBuffer
  <2>1. PICK f \in Settings :
          /\ Slot[f] = cursor
          /\ saveBuffer' = [saveBuffer EXCEPT ![f] = SaveValue(f, cfg[f])]
    BY <1>2 DEF FillBuffer
  <2>2. ASSUME NEW g \in Settings \ missed', Slot[g] <= cursor
        PROVE  saveBuffer'[g] = SaveValue(g, cfg[g])
    <3>1. CASE g = f
      BY <2>1, <1>d, <3>1
    <3>2. CASE g # f
      <4>1. Slot[g] < cursor
        BY <2>1, <2>2, <3>2, <1>t, SlotFacts DEF LastSlot
      <4>2. saveBuffer[g] = SaveValue(g, cfg[g])
        BY <1>2, <4>1 DEF FillBuffer, DurableInv, SaveUnderWay, history
      <4> QED BY <2>1, <1>d, <3>2, <4>2
    <3> QED BY <3>1, <3>2
  <2>3. /\ "SaveConfig" \in pending' /\ cfg' = cfg
        /\ \/ cursor = BlockSize /\ pc' = "write" /\ cursor' = 1
           \/ pc' = "fill" /\ cursor' = cursor + 1
    BY <1>2 DEF FillBuffer, DurableInv, SaveUnderWay, SavePcs
  <2>4. SaveUnderWay'
    BY <2>2, <2>3, <1>t, SlotFacts DEF SaveUnderWay, LastSlot
  <2> QED BY <2>3, <2>4 DEF DurableSettings
<1>3. CASE WriteNvm
  <2>1. PICK f \in Settings :
          /\ Slot[f] = cursor
          /\ nvm' = [nvm EXCEPT ![f] = IF cursor <= BlockSize THEN saveBuffer[f]
                                                              ELSE cfg[f]]
    BY <1>3 DEF WriteNvm
  <2>2. /\ "SaveConfig" \in pending' /\ cfg' = cfg /\ saveBuffer' = saveBuffer
        /\ missed' = missed /\ pc = "write"
        /\ \/ cursor = LastSlot /\ pc' = "saved"
           \/ pc' = "write" /\ cursor' = cursor + 1
    BY <1>3 DEF WriteNvm, ramVars, history, DurableInv, SaveUnderWay, SavePcs
  <2>3. ASSUME NEW g \in Settings \ missed, Slot[g] <= cursor
        PROVE  nvm'[g] = SaveValue(g, cfg[g])
    <3>1. CASE g = f /\ cursor <= BlockSize
      BY <2>1, <2>2, <1>d, <3>1 DEF DurableInv, SaveUnderWay
    <3>2. CASE g = f /\ cursor > BlockSize
      <4>1. g # "manual"
        BY <2>1, <3>2 DEF Slot, BlockSize
      <4>2. nvm'[g] = cfg[g]
        BY <2>1, <1>d, <1>t, <3>2 DEF BlockSize, LastSlot
      <4> QED BY <4>1, <4>2 DEF SaveValue
    <3>3. CASE g # f
      <4>1. Slot[g] < cursor
        BY <2>1, <2>3, <3>3, <1>t, SlotFacts DEF LastSlot
      <4>2. nvm[g] = SaveValue(g, cfg[g])
        BY <2>2, <4>1 DEF DurableInv, SaveUnderWay
      <4> QED BY <2>1, <1>d, <3>3, <4>2
    <3> QED BY <3>1, <3>2, <3>3, <1>t DEF BlockSize, LastSlot
  <2>4. SaveUnderWay'
    BY <2>2, <2>3, <1>t, SlotFacts DEF DurableInv, SaveUnderWay, LastSlot
  <2> QED BY <2>2, <2>4 DEF DurableSettings
<1>4. CASE ClearPending
  <2>1. \A f \in Settings \ missed' : nvm'[f] = SaveValue(f, cfg'[f])
    BY <1>4 DEF ClearPending, history, DurableInv, SaveUnderWay
  <2> QED
    BY <1>4, <2>1 DEF ClearPending, DurableSettings, SaveUnderWay, InForce, SavePcs
<1> QED BY <1>1, <1>2, <1>3, <1>4 DEF Save

LEMMA LoopDurable ==
  ASSUME DurableInv, Iterate \/ Wait
  PROVE  DurableSettings' /\ SaveUnderWay'
<1>1. CASE PartOne
  BY <1>1, QuietStep DEF PartOne, ramVars, history, SavePcs, Loaded
<1>2. CASE Rejoin
  BY <1>2, QuietStep DEF Rejoin, JoinNetwork, ramVars, history, SavePcs, Loaded
<1>3. CASE SyncClock
  BY <1>3, QuietStep DEF SyncClock, SyncTime, ramVars, history, SavePcs, Loaded
<1>4. CASE SendTimestamp
  BY <1>4, QuietStep DEF SendTimestamp, ramVars, history, SavePcs, Loaded
<1>5. CASE SendConfig
  BY <1>5, QuietStep DEF SendConfig, ramVars, history, SavePcs, Loaded
<1>6. CASE SetLight
  BY <1>6, QuietStep DEF SetLight, ramVars, history, SavePcs, Loaded
<1>7. CASE PartTwo
  BY <1>7, QuietStep DEF PartTwo, LightStatus, ramVars, history, SavePcs, Loaded
<1>8. CASE CountLoop
  BY <1>8, QuietStep DEF CountLoop, ramVars, history, SavePcs, Loaded
<1>9. CASE ComputeDelay
  BY <1>9, QuietStep DEF ComputeDelay, ramVars, history, SavePcs, Loaded
<1>10. CASE CheckWait
  BY <1>10, QuietStep DEF CheckWait, ramVars, history, SavePcs, Loaded
<1>11. CASE Sleep
  BY <1>11, QuietStep DEF Sleep, ramVars, history, SavePcs, Loaded
<1>12. CASE RecoverMode
  <2>1. /\ pc \notin SavePcs /\ pc' \notin SavePcs /\ Loaded
        /\ UNCHANGED <<nvm, missed, pending>>
        /\ cfg' = cfg \/ cfg' = [cfg EXCEPT !.opMode = nvm.opMode]
    BY <1>12 DEF RecoverMode, history, SavePcs, Loaded
  <2>2. ASSUME NEW f \in Settings \ missed', "SaveConfig" \notin pending'
        PROVE  InForce(f)'
    <3>1. InForce(f)
      BY <2>1, <2>2 DEF DurableInv, DurableSettings
    <3>2. CASE cfg' # cfg /\ f = "opMode"
      <4>1. cfg'["opMode"] = nvm["opMode"]
        BY <2>1, <3>2 DEF DurableInv, TypeOK, Settings
      <4> QED BY <2>1, <3>2, <4>1 DEF InForce, SaveValue
    <3>3. CASE cfg' = cfg \/ f # "opMode"
      <4>1. cfg'[f] = cfg[f]
        BY <2>1, <3>3 DEF DurableInv, TypeOK
      <4> QED BY <2>1, <3>1, <4>1, InForceStable
    <3> QED BY <3>2, <3>3
  <2> QED BY <2>1, <2>2 DEF DurableSettings, SaveUnderWay, SavePcs
<1>13. CASE ClearBypass
  BY <1>13, QuietStep DEF ClearBypass, history, SavePcs, Loaded
<1> QED
  BY <1>1, <1>2, <1>3, <1>4, <1>5, <1>6, <1>7, <1>8, <1>9, <1>10, <1>11, <1>12, <1>13
     DEF Iterate, Wait

\* A downlink that changes only the settings it says it changes, and asks for a
\* save if there are any.
LEMMA DownlinkDurable ==
  ASSUME DurableInv, NEW changes, NEW newCfg, NEW flags,
         changes # {} => "SaveConfig" \in flags,
         \A f \in Settings \ changes : newCfg[f] = cfg[f],
         Downlink(changes, newCfg, flags)
  PROVE  DurableSettings' /\ SaveUnderWay'
<1>d. /\ UNCHANGED <<nvm, saveBuffer, pc, cursor>> /\ cfg' = newCfg
      /\ pending' = pending \union flags
      /\ missed' = missed \union {f \in changes : Captured(f)}
  BY DEF Downlink
<1>1. SaveUnderWay'
  <2>1. pc' \in SavePcs => "SaveConfig" \in pending'
    BY <1>d DEF DurableInv, SaveUnderWay
  <2>2. ASSUME NEW f \in Settings \ missed', Captured(f)
        PROVE  f \notin missed /\ cfg'[f] = cfg[f]
    BY <1>d, <2>2
  <2> QED BY <1>d, <2>1, <2>2 DEF DurableInv, SaveUnderWay, Captured
<1>2. DurableSettings'
  <2>1. CASE changes = {}
    BY <1>d, <2>1, InForceStable DEF DurableInv, DurableSettings, Loaded
  <2>2. CASE changes # {}
    BY <1>d, <2>2 DEF DurableSettings
  <2> QED BY <2>1, <2>2
<1> QED BY <1>1, <1>2

\* The same for a command that chooses a mode.
LEMMA CommandModeDurable ==
  ASSUME DurableInv, NEW m, NEW others, NEW newCfg,
         DOMAIN newCfg = Settings,
         \A f \in Settings \ others : newCfg[f] = cfg[f],
         CommandMode(m, others, newCfg)
  PROVE  DurableSettings' /\ SaveUnderWay'
<1> DEFINE changes == others \union {"opMode"}
           chosenCfg == [newCfg EXCEPT !.opMode = m]
<1>1. Downlink(changes, chosenCfg, {"SaveConfig"})
  BY DEF CommandMode
<1>2. \A f \in Settings \ changes : chosenCfg[f] = cfg[f]
  OBVIOUS
<1> HIDE DEF changes, chosenCfg
<1> QED BY <1>1, <1>2, DownlinkDurable

LEMMA RestartDurable ==
  ASSUME DurableInv, Restart
  PROVE  DurableSettings' /\ SaveUnderWay'
  BY DEF Restart, DurableSettings, SaveUnderWay, Loaded, SavePcs

LEMMA ReceiveDurable ==
  ASSUME DurableInv, Receive
  PROVE  DurableSettings' /\ SaveUnderWay'
<1>d. DOMAIN cfg = Settings
  BY DEF DurableInv, TypeOK
<1>1. CASE ReceiveTime
  BY <1>1, DownlinkDurable DEF ReceiveTime
<1>2. CASE ReceiveCurve
  <2>1. PICK index \in CurveIndexes :
          CommandMode("AutoCurve", {"curve"}, [cfg EXCEPT !.curve = SelectCurve(index)])
    BY <1>2 DEF ReceiveCurve
  <2> QED BY <2>1, <1>d, CommandModeDurable
<1>3. CASE ReceiveManual
  <2>1. PICK level \in DimBytes :
          CommandMode("Manual", {"manual"}, [cfg EXCEPT !.manual = ClampLevel(level)])
    BY <1>3 DEF ReceiveManual
  <2> QED BY <2>1, <1>d, CommandModeDurable
<1>4. CASE ReceiveRequest
  BY <1>4, DownlinkDurable DEF ReceiveRequest
<1>5. CASE ReceiveCustomCurve
  <2> DEFINE newCfg(half, bytes) == [cfg EXCEPT ![half] = bytes]
  <2>1. PICK half \in {"low", "high"}, bytes \in CurveHalves :
          Downlink({half}, newCfg(half, bytes), {"SaveConfig"})
    BY <1>5 DEF ReceiveCustomCurve
  <2>2. \A f \in Settings \ {half} : newCfg(half, bytes)[f] = cfg[f]
    BY <1>d
  <2> HIDE DEF newCfg
  <2> QED BY <2>1, <2>2, DownlinkDurable
<1>6. CASE ReceiveMode
  BY <1>6, <1>d, CommandModeDurable DEF ReceiveMode
<1>7. CASE ReceiveUnknownMode
  BY <1>7, DownlinkDurable DEF ReceiveUnknownMode
<1>8. CASE ReceiveOnOff
  <2>1. PICK times \in OnOffTimes :
          CommandMode("AutoTime", {"onOff"}, [cfg EXCEPT !.onOff = times])
    BY <1>8 DEF ReceiveOnOff
  <2> QED BY <2>1, <1>d, CommandModeDurable
<1>9. CASE ReceivePeriod
  <2> DEFINE delay(p) == IF p.delay < 30 THEN 30 ELSE p.delay
             newCfg(p) == [cfg EXCEPT !.loopDelay = delay(p), !.loopsToSend = p.loops]
  <2>1. PICK p \in Periods :
          Downlink({"loopDelay", "loopsToSend"}, newCfg(p), {"SaveConfig"})
    BY <1>9 DEF ReceivePeriod
  <2>2. \A f \in Settings \ {"loopDelay", "loopsToSend"} : newCfg(p)[f] = cfg[f]
    BY <1>d
  <2> HIDE DEF newCfg
  <2> QED BY <2>1, <2>2, DownlinkDurable
<1>10. CASE ReceiveIgnored
  BY <1>10, DownlinkDurable DEF ReceiveIgnored
<1>11. CASE ReceiveReset
  BY <1>11, RestartDurable DEF ReceiveReset
<1> QED
  BY <1>1, <1>2, <1>3, <1>4, <1>5, <1>6, <1>7, <1>8, <1>9, <1>10, <1>11 DEF Receive

LEMMA DurableInvariant == Spec => []DurableInv
<1>1. Init => DurableInv
  <2>1. Init => DurableSettings /\ SaveUnderWay
    BY DEF Init, DurableSettings, SaveUnderWay, Loaded, SavePcs
  <2> QED BY <2>1, InitTypes DEF DurableInv
<1>2. DurableInv /\ [Next]_vars => DurableInv'
  <2> SUFFICES ASSUME DurableInv, [Next]_vars PROVE DurableInv'
    OBVIOUS
  <2>t. TypeOK
    BY DEF DurableInv
  <2>1. CASE Main
    BY <2>1, <2>t, MainTypes, BootDurable, SaveDurable, LoopDurable DEF Main, DurableInv
  <2>2. CASE Receive
    BY <2>2, <2>t, ReceiveTypes, ReceiveDurable DEF DurableInv
  <2>3. CASE PowerCut
    BY <2>3, <2>t, RestartTypes, RestartDurable DEF PowerCut, DurableInv
  <2>4. CASE UNCHANGED vars
    <3>1. TypeOK'
      BY <2>4, <2>t DEF vars, ramVars, bounds, history, TypeOK
    <3>2. DurableSettings' /\ SaveUnderWay'
      BY <2>4 DEF vars, ramVars, history, DurableInv, DurableSettings,
         SaveUnderWay, InForce, Loaded
    <3> QED BY <3>1, <3>2 DEF DurableInv
  <2> QED BY <2>1, <2>2, <2>3, <2>4 DEF Next
<1> QED BY <1>1, <1>2, PTL DEF Spec

\* Recovery of the configuration: outside a save, every setting that was not
\* changed behind a save's back is the one the next boot will find, after any
\* number of downlinks, torn saves, failed reads and power cuts.
THEOREM Durability == Spec => []DurableSettings
<1>1. DurableInv => DurableSettings
  BY DEF DurableInv
<1> QED BY <1>1, DurableInvariant, PTL

-----------------------------------------------------------------------------
(* Nothing reported late, no request left waiting                          *)

\* The requests that the part of the iteration that serves them has passed.
RequestPassed ==
  CASE pc = "timestamp" -> {"SyncClock"}
    [] pc \in {"recover", "config"} -> {"SyncClock", "SendTimestamp"}
    [] pc \in {"light", "part2", "count"} -> Flags \ {"SaveConfig"}
    [] OTHER -> {}

\* Part 1 is only entered by an iteration that transmits, and only 'T' makes it
\* one that does not, which sets the bypass flag. A request that is still, or
\* again, pending when its step is over came by a downlink since, and so did
\* what keeps part 2 from reporting; both left the bypass flag set. A wait that
\* is ending leaves an iteration that transmits.
ServiceParts ==
  /\ ChangeReported /\ RequestKept
  /\ pc \in PartOnePcs => bypass \/ Due
  /\ pending \intersect RequestPassed # {} => bypass \/ overtaken
  /\ pc = "count" /\ isJoined /\ lastDimming # report.dimming => bypass \/ overtaken
  /\ pc = "clear" => Due \/ overtaken
  /\ pc \in BootPcs /\ pending \ {"SaveConfig"} # {} => bypass

ServiceInv == TypeOK /\ ServiceParts

LEMMA LoopService ==
  ASSUME ServiceInv, Save \/ Iterate \/ Wait
  PROVE  ServiceParts'
<1>t. /\ loopsCount \in Int /\ cfg["loopsToSend"] \in Int
      /\ pending \subseteq Flags
  BY DEF ServiceInv, TypeOK, Holds, Settings, RamType, Byte
<1>1. CASE PartOne
  BY <1>1, <1>t DEF PartOne, ramVars, history, ServiceInv, ServiceParts, RequestPassed, Flags, BootPcs,
     ChangeReported, RequestKept, Due, LoopPcs, SavePcs, PartOnePcs, WaitPcs
<1>2. CASE Rejoin
  BY <1>2, <1>t DEF Rejoin, JoinNetwork, ramVars, history, ServiceInv, ServiceParts, RequestPassed, Flags, BootPcs,
     ChangeReported, RequestKept, Due, LoopPcs, SavePcs, PartOnePcs, WaitPcs
<1>3. CASE SyncClock
  BY <1>3, <1>t DEF SyncClock, SyncTime, ramVars, history, ServiceInv, ServiceParts, RequestPassed, Flags, BootPcs,
     ChangeReported, RequestKept, Due, LoopPcs, SavePcs, PartOnePcs, WaitPcs
<1>4. CASE SendTimestamp
  BY <1>4, <1>t DEF SendTimestamp, ramVars, history, ServiceInv, ServiceParts, RequestPassed, Flags, BootPcs,
     ChangeReported, RequestKept, Due, LoopPcs, SavePcs, PartOnePcs, WaitPcs
<1>5. CASE RecoverMode
  BY <1>5, <1>t DEF RecoverMode, ramVars, history, ServiceInv, ServiceParts, RequestPassed, Flags, BootPcs,
     ChangeReported, RequestKept, Due, LoopPcs, SavePcs, PartOnePcs, WaitPcs
<1>6. CASE SendConfig
  BY <1>6, <1>t DEF SendConfig, ramVars, history, ServiceInv, ServiceParts, RequestPassed, Flags, BootPcs,
     ChangeReported, RequestKept, Due, LoopPcs, SavePcs, PartOnePcs, WaitPcs
<1>7. CASE SetLight
  BY <1>7, <1>t DEF SetLight, ramVars, history, ServiceInv, ServiceParts, RequestPassed, Flags, BootPcs,
     ChangeReported, RequestKept, Due, LoopPcs, SavePcs, PartOnePcs, WaitPcs
<1>8. CASE PartTwo
  BY <1>8, <1>t DEF PartTwo, LightStatus, ramVars, history, ServiceInv, ServiceParts, RequestPassed, Flags, BootPcs,
     ChangeReported, RequestKept, Due, LoopPcs, SavePcs, PartOnePcs, WaitPcs
<1>9. CASE CountLoop
  BY <1>9, <1>t DEF CountLoop, ramVars, history, ServiceInv, ServiceParts, RequestPassed, Flags, BootPcs,
     ChangeReported, RequestKept, Due, LoopPcs, SavePcs, PartOnePcs, WaitPcs
<1>10. CASE ComputeDelay
  BY <1>10, <1>t DEF ComputeDelay, ramVars, history, ServiceInv, ServiceParts, RequestPassed, Flags, BootPcs,
     ChangeReported, RequestKept, Due, LoopPcs, SavePcs, PartOnePcs, WaitPcs
<1>11. CASE CheckWait
  BY <1>11, <1>t DEF CheckWait, ramVars, history, ServiceInv, ServiceParts, RequestPassed, Flags, BootPcs,
     ChangeReported, RequestKept, Due, LoopPcs, SavePcs, PartOnePcs, WaitPcs
<1>12. CASE Sleep
  BY <1>12, <1>t DEF Sleep, ramVars, history, ServiceInv, ServiceParts, RequestPassed, Flags, BootPcs,
     ChangeReported, RequestKept, Due, LoopPcs, SavePcs, PartOnePcs, WaitPcs
<1>13. CASE CheckSave
  BY <1>13, <1>t DEF CheckSave, ramVars, history, ServiceInv, ServiceParts, RequestPassed, Flags, BootPcs,
     ChangeReported, RequestKept, Due, LoopPcs, SavePcs, PartOnePcs, WaitPcs
<1>14. CASE FillBuffer
  BY <1>14, <1>t DEF FillBuffer, ramVars, history, ServiceInv, ServiceParts, RequestPassed, Flags, BootPcs,
     ChangeReported, RequestKept, Due, LoopPcs, SavePcs, PartOnePcs, WaitPcs
<1>15. CASE WriteNvm
  BY <1>15, <1>t DEF WriteNvm, ramVars, history, ServiceInv, ServiceParts, RequestPassed, Flags, BootPcs,
     ChangeReported, RequestKept, Due, LoopPcs, SavePcs, PartOnePcs, WaitPcs
<1>16. CASE ClearPending
  BY <1>16, <1>t DEF ClearPending, ramVars, history, ServiceInv, ServiceParts, RequestPassed, Flags, BootPcs,
     ChangeReported, RequestKept, Due, LoopPcs, SavePcs, PartOnePcs, WaitPcs
<1>17. CASE ClearBypass
  BY <1>17, <1>t DEF ClearBypass, history, ServiceInv, ServiceParts, RequestPassed, Flags, BootPcs,
     ChangeReported, RequestKept, Due, LoopPcs, SavePcs, PartOnePcs, WaitPcs
<1> QED
  BY <1>1, <1>2, <1>3, <1>4, <1>5, <1>6, <1>7, <1>8, <1>9, <1>10, <1>11, <1>12, <1>13, <1>14, <1>15, <1>16, <1>17
     DEF Save, Iterate, Wait

LEMMA BootService ==
  ASSUME ServiceInv, Boot
  PROVE  ServiceParts'
<1>t. cfg["loopsToSend"] \in Int
  BY DEF ServiceInv, TypeOK, Holds, Settings, RamType, Byte
<1>1. CASE PrimeLoops
  BY <1>1, <1>t DEF PrimeLoops, ServiceInv, ServiceParts, RequestPassed, ChangeReported,
     RequestKept, Due, BootPcs, LoopPcs, SavePcs, PartOnePcs, WaitPcs
<1>2. CASE ReadVersion \/ StampVersion \/ WriteDefault \/ LoadConfig \/ InitialJoin
  <2>1. /\ pc \in BootPcs /\ pc' \in BootPcs /\ pending' = pending /\ bypass' = bypass
    BY <1>2 DEF ReadVersion, StampVersion, WriteDefault, LoadConfig, InitialJoin, JoinNetwork,
       ramVars, BootPcs
  <2> QED
    BY <2>1 DEF ServiceInv, ServiceParts, RequestPassed, ChangeReported,
       RequestKept, BootPcs, LoopPcs, SavePcs, PartOnePcs, WaitPcs
<1> QED BY <1>1, <1>2 DEF Boot

\* Every downlink sets the bypass flag, a reset forgets every request.
LEMMA ReceiveService ==
  ASSUME Receive \/ PowerCut
  PROVE  ServiceParts'
<1>1. ASSUME NEW changes, NEW newCfg, NEW flags, Downlink(changes, newCfg, flags)
      PROVE  bypass' /\ (pc' = "clear" => Due' \/ overtaken')
  BY <1>1 DEF Downlink, Due
<1>2. CASE Restart
  BY <1>2 DEF Restart, ServiceParts, RequestPassed, ChangeReported, RequestKept,
     BootPcs, LoopPcs, SavePcs, PartOnePcs, WaitPcs
<1>3. CASE Receive /\ ~ReceiveReset
  <2>1. bypass' /\ (pc' = "clear" => Due' \/ overtaken')
    BY <1>1, <1>3 DEF Receive, ReceiveTime, ReceiveCurve, ReceiveManual,
       ReceiveRequest, ReceiveCustomCurve, ReceiveMode, ReceiveUnknownMode,
       ReceiveOnOff, ReceivePeriod, ReceiveIgnored, CommandMode
  <2> QED BY <2>1 DEF ServiceParts, ChangeReported, RequestKept
<1> QED BY <1>2, <1>3 DEF Receive, ReceiveReset, PowerCut

THEOREM ServiceInvariant == Spec => []ServiceInv
<1>1. Init => ServiceInv
  <2>1. Init => ServiceParts
    BY DEF Init, ServiceParts, RequestPassed, ChangeReported, RequestKept,
       BootPcs, LoopPcs, SavePcs, PartOnePcs, WaitPcs
  <2> QED BY <2>1, InitTypes DEF ServiceInv
<1>2. ServiceInv /\ [Next]_vars => ServiceInv'
  <2> SUFFICES ASSUME ServiceInv, [Next]_vars PROVE ServiceInv'
    OBVIOUS
  <2>t. TypeOK
    BY DEF ServiceInv
  <2>1. CASE Main
    BY <2>1, <2>t, MainTypes, BootService, LoopService DEF Main, ServiceInv
  <2>2. CASE Receive \/ PowerCut
    BY <2>2, <2>t, ReceiveTypes, RestartTypes, ReceiveService
       DEF PowerCut, ServiceInv
  <2>3. CASE UNCHANGED vars
    <3>1. TypeOK'
      BY <2>3, <2>t DEF vars, ramVars, bounds, history, TypeOK
    <3>2. ServiceParts'
      BY <2>3 DEF vars, ramVars, history, ServiceInv, ServiceParts, RequestPassed,
         ChangeReported, RequestKept, Due
    <3> QED BY <3>1, <3>2 DEF ServiceInv
  <2> QED BY <2>1, <2>2, <2>3 DEF Next
<1> QED BY <1>1, <1>2, PTL DEF Spec

\* A new level of the lamp is reported by the next iteration at the latest.
THEOREM ChangesReported == Spec => []ChangeReported
<1>1. ServiceInv => ChangeReported
  BY DEF ServiceInv, ServiceParts
<1> QED BY <1>1, ServiceInvariant, PTL

\* A request never waits for the periodic transmission.
THEOREM RequestsKept == Spec => []RequestKept
<1>1. ServiceInv => RequestKept
  BY DEF ServiceInv, ServiceParts
<1> QED BY <1>1, ServiceInvariant, PTL

-----------------------------------------------------------------------------
(* The safe mode                                                           *)

\* Without its clock the node enters a mode that follows it only by a downlink.
THEOREM SafeModeUntilClock == Spec => []TimeModeNeedsClock
<1>1. Init => TimeModeNeedsClock
  BY DEF Init, TimeModeNeedsClock, TimeModes, StaticSettings
<1>2. TypeOK /\ TimeModeNeedsClock /\ [Next]_vars => TimeModeNeedsClock'
  <2> SUFFICES ASSUME TypeOK, TimeModeNeedsClock, [Next]_vars
               PROVE  TimeModeNeedsClock'
    OBVIOUS
  <2>d. DOMAIN cfg = Settings
    BY DEF TypeOK
  <2>1. CASE LoadConfig
    <3>1. PICK unread \in ReadFaults :
            cfg' = [f \in Settings |-> IF f \in unread THEN cfg[f]
                                      ELSE LoadValue(f, nvm[f])]
      BY <2>1 DEF LoadConfig
    <3>2. cfg'["opMode"] = cfg["opMode"] \/ cfg'["opMode"] = LoadValue("opMode", nvm["opMode"])
      BY <3>1 DEF Settings
    <3>3. LoadValue("opMode", nvm["opMode"]) \notin TimeModes
      BY DEF LoadValue, TimeModes
    <3> QED BY <2>1, <3>2, <3>3 DEF LoadConfig, TimeModeNeedsClock
  <2>2. CASE RecoverMode
    BY <2>2 DEF RecoverMode, history, TimeModeNeedsClock
  <2>3. CASE SyncClock
    BY <2>3 DEF SyncClock, SyncTime, history, TimeModeNeedsClock
  <2>4. CASE Main /\ ~LoadConfig /\ ~RecoverMode /\ ~SyncClock
    <3>1. cfg' = cfg /\ synced' = synced /\ chosen' = chosen
      BY <2>4 DEF Main, Boot, Save, Iterate, Wait, ReadVersion, StampVersion,
         WriteDefault, InitialJoin, JoinNetwork, PrimeLoops, CheckSave, FillBuffer, WriteNvm,
         ClearPending, PartOne, Rejoin, SendTimestamp, SendConfig, SetLight,
         PartTwo, CountLoop, ComputeDelay, CheckWait, ClearBypass, Sleep, ramVars, history
    <3> QED BY <3>1 DEF TimeModeNeedsClock
  <2>5. CASE Restart
    BY <2>5 DEF Restart, TimeModeNeedsClock, TimeModes, StaticSettings
  <2>6. CASE ReceiveTime \/ ReceiveCurve \/ ReceiveManual \/ ReceiveMode \/ ReceiveOnOff
    BY <2>6 DEF ReceiveTime, ReceiveCurve, ReceiveManual, ReceiveMode,
       ReceiveOnOff, CommandMode, TimeModeNeedsClock
  <2>7. CASE ReceiveRequest \/ ReceiveUnknownMode \/ ReceiveIgnored
    BY <2>7 DEF ReceiveRequest, ReceiveUnknownMode, ReceiveIgnored, Downlink,
       TimeModeNeedsClock
  <2>8. CASE ReceiveCustomCurve \/ ReceivePeriod
    <3>1. cfg'["opMode"] = cfg["opMode"] /\ synced' = synced /\ chosen' = chosen
      BY <2>8, <2>d DEF ReceiveCustomCurve, ReceivePeriod, Downlink, Settings
    <3> QED BY <3>1 DEF TimeModeNeedsClock
  <2>9. CASE UNCHANGED vars
    BY <2>9 DEF vars, ramVars, history, TimeModeNeedsClock
  <2> QED
    BY <2>1, <2>2, <2>3, <2>4, <2>5, <2>6, <2>7, <2>8, <2>9
       DEF Next, Receive, ReceiveReset, PowerCut
<1> QED BY <1>1, <1>2, TypeCorrect, PTL DEF Spec

-----------------------------------------------------------------------------
(* The stored mode                                                         *)

\* Before the settings are loaded RAM has the static mode and no downlink can
\* arrive. Then the mode in RAM is the one asked for last, the stored one or a
\* fallback of boot; a save that a command overtook leaves the commanded one.
ModeParts ==
  /\ ~Loaded => cfg.opMode = StaticSettings.opMode /\ ~isJoined
  /\ Loaded => cfg.opMode \in {commanded, nvm.opMode} \union Fallbacks
  /\ pc \in SavePcs /\ "opMode" \in missed => cfg.opMode = commanded

ModeInv == DurableInv /\ ModeParts

\* What a boot finds in place of the stored mode.
LEMMA FallbackFacts ==
  /\ DefaultSettings["opMode"] \in Fallbacks
  /\ \A unread \in ReadFaults : "opMode" \in unread => StaticSettings["opMode"] \in Fallbacks
  /\ DefaultSettings["opMode"] = "AutoPhotoCell"
  BY DEF Fallbacks, DefaultSettings, StaticSettings

LEMMA BootMode ==
  ASSUME ModeInv, Boot
  PROVE  /\ ModeParts'
         /\ nvm'.opMode # nvm.opMode => nvm'.opMode = commanded'
<1>d. DOMAIN nvm = Settings \union {"stamped"} /\ "opMode" \in Settings
  BY DEF ModeInv, DurableInv, TypeOK, Settings
<1>1. CASE ReadVersion \/ StampVersion
  <2>1. /\ UNCHANGED <<cfg, isJoined, commanded, missed>> /\ nvm'.opMode = nvm.opMode
        /\ ~Loaded /\ ~Loaded' /\ pc' \notin SavePcs
    BY <1>1, <1>d DEF ReadVersion, StampVersion, ramVars, history, Loaded, SavePcs
  <2> QED BY <2>1 DEF ModeInv, ModeParts
<1>2. CASE WriteDefault
  <2>1. PICK f \in Settings :
          /\ nvm' = [nvm EXCEPT ![f] = DefaultSettings[f]]
          /\ commanded' = IF f = "opMode" THEN DefaultSettings[f] ELSE commanded
    BY <1>2 DEF WriteDefault
  <2>2. /\ UNCHANGED <<cfg, isJoined>> /\ ~Loaded /\ ~Loaded' /\ pc' \notin SavePcs
    BY <1>2 DEF WriteDefault, ramVars, Loaded, SavePcs
  <2>3. nvm'["opMode"] # nvm["opMode"] => nvm'["opMode"] = commanded'
    BY <2>1, <1>d
  <2> QED BY <2>2, <2>3 DEF ModeInv, ModeParts
<1>3. CASE LoadConfig
  <2>1. PICK unread \in ReadFaults :
          cfg' = [f \in Settings |-> IF f \in unread THEN cfg[f] ELSE LoadValue(f, nvm[f])]
    BY <1>3 DEF LoadConfig
  <2>2. /\ nvm' = nvm /\ Loaded' /\ pc' \notin SavePcs
        /\ cfg["opMode"] = StaticSettings["opMode"]
    BY <1>3 DEF LoadConfig, Loaded, SavePcs, ModeInv, ModeParts
  <2>3. LoadValue("opMode", nvm["opMode"]) \in {nvm["opMode"], DefaultSettings["opMode"]}
    BY FallbackFacts DEF LoadValue
  <2>4. cfg'["opMode"] \in {nvm["opMode"]} \union Fallbacks
    BY <2>1, <2>2, <2>3, <1>d, FallbackFacts
  <2> QED BY <2>2, <2>4 DEF ModeParts
<1>4. CASE InitialJoin \/ PrimeLoops
  <2>1. UNCHANGED <<cfg, nvm, commanded>> /\ Loaded /\ Loaded' /\ pc' \notin SavePcs
    BY <1>4 DEF InitialJoin, PrimeLoops, history, Loaded, SavePcs
  <2> QED BY <2>1 DEF ModeInv, ModeParts
<1> QED BY <1>1, <1>2, <1>3, <1>4 DEF Boot

LEMMA SaveMode ==
  ASSUME ModeInv, Save
  PROVE  /\ ModeParts'
         /\ nvm'.opMode # nvm.opMode =>
              nvm'.opMode \in {commanded'} \union Fallbacks \/ "opMode" \in missed'
<1>1. CASE CheckSave \/ FillBuffer \/ ClearPending
  <2>1. /\ UNCHANGED <<cfg, nvm, isJoined, commanded>> /\ Loaded /\ Loaded'
        /\ "opMode" \in missed' /\ pc' \in SavePcs => pc \in SavePcs /\ "opMode" \in missed
    BY <1>1 DEF CheckSave, FillBuffer, ClearPending, ramVars, history, Loaded, SavePcs
  <2> QED BY <2>1 DEF ModeInv, ModeParts
<1>2. CASE WriteNvm
  <2>1. PICK f \in Settings :
          /\ Slot[f] = cursor
          /\ nvm' = [nvm EXCEPT ![f] = IF cursor <= BlockSize THEN saveBuffer[f]
                                                              ELSE cfg[f]]
    BY <1>2 DEF WriteNvm
  <2>2. /\ UNCHANGED <<cfg, isJoined, commanded, missed>>
        /\ pc = "write" /\ Loaded /\ Loaded' /\ pc \in SavePcs
    BY <1>2 DEF WriteNvm, ramVars, history, Loaded, SavePcs
  <2>3. "opMode" \in Settings /\ Slot["opMode"] = 3 /\ "opMode" \in DOMAIN nvm
    BY DEF Settings, Slot, ModeInv, DurableInv, TypeOK
  <2>4. CASE f # "opMode"
    <3>1. nvm'["opMode"] = nvm["opMode"]
      BY <2>1, <2>3, <2>4
    <3> QED BY <2>2, <3>1 DEF ModeInv, ModeParts
  <2>5. CASE f = "opMode"
    <3>1. nvm'["opMode"] = saveBuffer["opMode"]
      BY <2>1, <2>3, <2>5 DEF BlockSize
    <3>2. "opMode" \notin missed => saveBuffer["opMode"] = cfg["opMode"]
      BY <2>2, <2>3 DEF ModeInv, DurableInv, SaveUnderWay, SaveValue, BlockSize
    <3> QED BY <2>2, <3>1, <3>2 DEF ModeInv, ModeParts
  <2> QED BY <2>4, <2>5
<1> QED BY <1>1, <1>2 DEF Save

LEMMA LoopMode ==
  ASSUME ModeInv, Iterate \/ Wait
  PROVE  ModeParts' /\ nvm' = nvm
<1>1. CASE RecoverMode
  <2>1. /\ UNCHANGED <<nvm, commanded>> /\ Loaded /\ Loaded' /\ pc' \notin SavePcs
        /\ cfg' = cfg \/ cfg' = [cfg EXCEPT !.opMode = nvm.opMode]
    BY <1>1 DEF RecoverMode, history, Loaded, SavePcs
  <2>2. cfg'["opMode"] \in {cfg["opMode"], nvm["opMode"]}
    BY <2>1 DEF ModeInv, DurableInv, TypeOK, Settings
  <2> QED BY <2>1, <2>2 DEF ModeInv, ModeParts
<1>2. CASE ~RecoverMode
  <2>1. /\ UNCHANGED <<cfg, nvm, commanded>> /\ Loaded /\ Loaded' /\ pc' \notin SavePcs
    BY <1>2 DEF Iterate, Wait, PartOne, Rejoin, SyncClock, SendTimestamp,
       SendConfig, SetLight, PartTwo, CountLoop, ComputeDelay, CheckWait,
       ClearBypass, Sleep, ramVars, history, Loaded, SavePcs
  <2> QED BY <2>1 DEF ModeInv, ModeParts
<1> QED BY <1>1, <1>2

\* A downlink other than a command that chooses a mode.
LEMMA DownlinkMode ==
  ASSUME ModeInv, NEW changes, NEW newCfg, NEW flags,
         "opMode" \notin changes, newCfg.opMode = cfg.opMode,
         commanded' = commanded, Downlink(changes, newCfg, flags)
  PROVE  ModeParts' /\ nvm' = nvm
<1>1. /\ UNCHANGED <<nvm, pc, isJoined>> /\ cfg'.opMode = cfg.opMode
      /\ "opMode" \in missed' => "opMode" \in missed
  BY DEF Downlink
<1> QED BY <1>1 DEF ModeInv, ModeParts, Loaded

LEMMA CommandedMode ==
  ASSUME ModeInv, NEW m, NEW others, NEW newCfg, DOMAIN newCfg = Settings,
         CommandMode(m, others, newCfg)
  PROVE  ModeParts' /\ nvm' = nvm
<1>1. cfg' = [newCfg EXCEPT !.opMode = m] /\ commanded' = m
      /\ UNCHANGED <<nvm, pc>> /\ isJoined
  BY DEF CommandMode, Downlink
<1>2. cfg'["opMode"] = commanded'
  BY <1>1 DEF Settings
<1> QED BY <1>1, <1>2 DEF ModeInv, ModeParts, Loaded

LEMMA RestartMode ==
  ASSUME Restart
  PROVE  ModeParts' /\ nvm' = nvm
  BY DEF Restart, ModeParts, Loaded, SavePcs

LEMMA ReceiveKeepsMode ==
  ASSUME ModeInv, Receive
  PROVE  ModeParts' /\ nvm' = nvm
<1>d. DOMAIN cfg = Settings
  BY DEF ModeInv, DurableInv, TypeOK
<1>1. CASE ReceiveTime \/ ReceiveRequest \/ ReceiveUnknownMode \/ ReceiveIgnored
  BY <1>1, DownlinkMode
     DEF ReceiveTime, ReceiveRequest, ReceiveUnknownMode, ReceiveIgnored
<1>2. CASE ReceiveCustomCurve
  <2>1. PICK half \in {"low", "high"}, bytes \in CurveHalves :
          Downlink({half}, [cfg EXCEPT ![half] = bytes], {"SaveConfig"})
    BY <1>2 DEF ReceiveCustomCurve
  <2>2. [cfg EXCEPT ![half] = bytes]["opMode"] = cfg["opMode"] /\ "opMode" \notin {half}
    BY <1>d DEF Settings
  <2> QED BY <1>2, <2>1, <2>2, DownlinkMode DEF ReceiveCustomCurve
<1>3. CASE ReceivePeriod
  <2> DEFINE newCfg(p) == [cfg EXCEPT !.loopDelay = IF p.delay < 30 THEN 30 ELSE p.delay,
                                      !.loopsToSend = p.loops]
  <2>1. PICK p \in Periods :
          Downlink({"loopDelay", "loopsToSend"}, newCfg(p), {"SaveConfig"})
    BY <1>3 DEF ReceivePeriod
  <2>2. newCfg(p)["opMode"] = cfg["opMode"] /\ "opMode" \notin {"loopDelay", "loopsToSend"}
    BY <1>d DEF Settings
  <2> HIDE DEF newCfg
  <2> QED BY <1>3, <2>1, <2>2, DownlinkMode DEF ReceivePeriod
<1>4. CASE ReceiveCurve
  BY <1>4, <1>d, CommandedMode DEF ReceiveCurve
<1>5. CASE ReceiveManual
  BY <1>5, <1>d, CommandedMode DEF ReceiveManual
<1>6. CASE ReceiveMode
  BY <1>6, <1>d, CommandedMode DEF ReceiveMode
<1>7. CASE ReceiveOnOff
  BY <1>7, <1>d, CommandedMode DEF ReceiveOnOff
<1>8. CASE ReceiveReset
  BY <1>8, RestartMode DEF ReceiveReset
<1> QED BY <1>1, <1>2, <1>3, <1>4, <1>5, <1>6, <1>7, <1>8 DEF Receive

\* No step stores a mode that was neither asked for last nor the fallback of a
\* boot, but for a save that the command overtook.
THEOREM ModesChosen == Spec => StoredModeChosen
<1>1. Init => ModeParts
  BY DEF Init, ModeParts, Loaded, SavePcs
<1>2. ModeInv /\ [Next]_vars =>
        /\ ModeParts'
        /\ nvm'.opMode # nvm.opMode =>
             nvm'.opMode \in {commanded'} \union Fallbacks \/ "opMode" \in missed'
  <2> SUFFICES ASSUME ModeInv, [Next]_vars
               PROVE  /\ ModeParts'
                      /\ nvm'.opMode # nvm.opMode =>
                           \/ nvm'.opMode \in {commanded'} \union Fallbacks
                           \/ "opMode" \in missed'
    OBVIOUS
  <2>1. CASE Main
    BY <2>1, BootMode, SaveMode, LoopMode DEF Main
  <2>2. CASE Receive
    BY <2>2, ReceiveKeepsMode
  <2>3. CASE PowerCut
    BY <2>3, RestartMode DEF PowerCut
  <2>4. CASE UNCHANGED vars
    BY <2>4 DEF vars, ramVars, history, ModeInv, ModeParts, Loaded
  <2> QED BY <2>1, <2>2, <2>3, <2>4 DEF Next
<1> QED BY <1>1, <1>2, DurableInvariant, PTL DEF Spec, ModeInv, StoredModeChosen

-----------------------------------------------------------------------------
(* The conversions of a save settle                                        *)

\* A boot and another save make v of v.
Settled(f, v) == SaveValue(f, LoadValue(f, v)) = v

\* What a save makes of a value in RAM is settled.
LEMMA SavedSettled ==
  ASSUME NEW f \in Settings \ {"opMode"}, NEW v \in RamType[f]
  PROVE  Settled(f, SaveValue(f, v))
<1>1. CASE f = "manual"
  <2>1. v \in 0..100
    BY <1>1 DEF RamType
  <2>2. SavedPercent(v) \in 0..100 /\ SavedPercent(v) \notin {53, 59}
    BY <2>1 DEF SavedPercent
  <2>3. PICK w \in 0..100 : w = SavedPercent(v) /\ w \notin {53, 59}
    BY <2>2
  <2>4. ClampLevel(w) = w /\ SavedPercent(w) = w
    BY <2>3 DEF ClampLevel, SavedPercent
  <2> QED BY <1>1, <2>3, <2>4 DEF Settled, SaveValue, LoadValue
<1>2. CASE f = "curve"
  <2>1. v \in 0..3
    BY <1>2 DEF RamType
  <2>2. SelectCurve(v) = v
    BY <2>1 DEF SelectCurve
  <2> QED BY <1>2, <2>2 DEF Settled, SaveValue, LoadValue
<1>3. CASE f \notin {"manual", "curve"}
  BY <1>3 DEF Settled, SaveValue, LoadValue
<1> QED BY <1>1, <1>2, <1>3

\* The part of the buffer that is filled, and of the EEPROM that is written,
\* is settled.
SettledParts ==
  \A f \in Settings \ {"opMode"} :
    /\ (pc = "fill" /\ Slot[f] < cursor) \/ (pc = "write" /\ Slot[f] <= BlockSize)
         => Settled(f, saveBuffer[f])
    /\ (pc = "write" /\ Slot[f] < cursor) \/ pc = "saved"
         => Settled(f, nvm[f])

SettledInv == TypeOK /\ SettledParts

LEMMA SaveSettled ==
  ASSUME SettledInv, Save
  PROVE  SettledParts'
<1>t. /\ cursor \in 1..LastSlot /\ (pc = "fill" => cursor \in 1..BlockSize)
      /\ DOMAIN saveBuffer = Settings /\ DOMAIN nvm = Settings \union {"stamped"}
      /\ Holds(cfg, RamType)
  BY DEF SettledInv, TypeOK, LastSlot, BlockSize
<1>v. \A f \in Settings \ {"opMode"} : Settled(f, SaveValue(f, cfg[f]))
  BY <1>t, SavedSettled DEF Holds
<1>1. CASE CheckSave
  <2>1. pc' = "part1" \/ (pc' = "fill" /\ cursor' = 1)
    BY <1>1 DEF CheckSave
  <2> QED BY <2>1, SlotFacts DEF SettledParts, LastSlot
<1>2. CASE FillBuffer
  <2>1. PICK f \in Settings :
          /\ Slot[f] = cursor
          /\ saveBuffer' = [saveBuffer EXCEPT ![f] = SaveValue(f, cfg[f])]
    BY <1>2 DEF FillBuffer
  <2>2. ASSUME NEW g \in Settings \ {"opMode"}, Slot[g] <= cursor
        PROVE  Settled(g, saveBuffer'[g])
    <3>1. CASE g = f
      BY <2>1, <1>t, <1>v, <3>1
    <3>2. CASE g # f
      <4>1. Slot[g] < cursor
        BY <2>1, <2>2, <3>2, <1>t, SlotFacts DEF LastSlot
      <4>2. Settled(g, saveBuffer[g])
        BY <1>2, <4>1 DEF FillBuffer, SettledInv, SettledParts
      <4> QED BY <2>1, <1>t, <3>2, <4>2
    <3> QED BY <3>1, <3>2
  <2>3. \/ cursor = BlockSize /\ pc' = "write" /\ cursor' = 1
        \/ pc' = "fill" /\ cursor' = cursor + 1
    BY <1>2 DEF FillBuffer
  <2> QED BY <2>2, <2>3, <1>t, SlotFacts DEF SettledParts, LastSlot
<1>3. CASE WriteNvm
  <2>1. PICK f \in Settings :
          /\ Slot[f] = cursor
          /\ nvm' = [nvm EXCEPT ![f] = IF cursor <= BlockSize THEN saveBuffer[f]
                                                              ELSE cfg[f]]
    BY <1>3 DEF WriteNvm
  <2>2. /\ saveBuffer' = saveBuffer /\ pc = "write"
        /\ \/ cursor = LastSlot /\ pc' = "saved"
           \/ pc' = "write" /\ cursor' = cursor + 1
    BY <1>3 DEF WriteNvm, ramVars
  <2>3. ASSUME NEW g \in Settings \ {"opMode"}, Slot[g] <= cursor
        PROVE  Settled(g, nvm'[g])
    <3>1. CASE g = f /\ cursor <= BlockSize
      <4>1. nvm'[g] = saveBuffer[g]
        BY <2>1, <1>t, <3>1
      <4>2. Settled(g, saveBuffer[g])
        BY <2>1, <2>2, <3>1 DEF SettledInv, SettledParts
      <4> QED BY <4>1, <4>2
    <3>2. CASE g = f /\ cursor > BlockSize
      <4>1. g # "manual"
        BY <2>1, <3>2 DEF Slot, BlockSize
      <4>2. nvm'[g] = cfg[g]
        BY <2>1, <1>t, <3>2 DEF BlockSize, LastSlot
      <4>3. SaveValue(g, cfg[g]) = cfg[g]
        BY <4>1 DEF SaveValue
      <4> QED BY <4>2, <4>3, <1>v
    <3>3. CASE g # f
      <4>1. Slot[g] < cursor
        BY <2>1, <2>3, <3>3, <1>t, SlotFacts DEF LastSlot
      <4>2. Settled(g, nvm[g])
        BY <2>2, <4>1 DEF SettledInv, SettledParts
      <4> QED BY <2>1, <1>t, <3>3, <4>2
    <3> QED BY <3>1, <3>2, <3>3, <1>t DEF BlockSize, LastSlot
  <2> QED BY <2>2, <2>3, <1>t, SlotFacts DEF SettledInv, SettledParts, LastSlot
<1>4. CASE ClearPending
  BY <1>4 DEF ClearPending, SettledParts
<1> QED BY <1>1, <1>2, <1>3, <1>4 DEF Save

\* Nothing else touches the buffer, the EEPROM or the place of a save under way.
LEMMA OthersSettled ==
  ASSUME SettledInv, Boot \/ Iterate \/ Wait \/ Receive \/ PowerCut
  PROVE  SettledParts'
<1>1. CASE Boot \/ Iterate \/ Wait
  <2>1. pc' \notin SavePcs
    BY <1>1 DEF Boot, ReadVersion, StampVersion, WriteDefault, LoadConfig,
       InitialJoin, PrimeLoops, Iterate, Wait, PartOne, Rejoin, SyncClock,
       SendTimestamp, RecoverMode, SendConfig, SetLight, PartTwo, CountLoop,
       ComputeDelay, CheckWait, ClearBypass, Sleep, SavePcs
  <2> QED BY <2>1 DEF SettledParts, SavePcs
<1>2. CASE Restart
  BY <1>2 DEF Restart, SettledParts
<1>3. CASE Receive /\ ~ReceiveReset
  <2>1. UNCHANGED <<nvm, saveBuffer, pc, cursor>>
    BY <1>3 DEF Receive, ReceiveTime, ReceiveCurve, ReceiveManual,
       ReceiveRequest, ReceiveCustomCurve, ReceiveMode, ReceiveUnknownMode,
       ReceiveOnOff, ReceivePeriod, ReceiveIgnored, CommandMode, Downlink
  <2> QED BY <2>1 DEF SettledInv, SettledParts
<1> QED BY <1>1, <1>2, <1>3 DEF Receive, ReceiveReset, PowerCut

\* A level loses a percent to single precision once, not at every power cut:
\* what a complete save leaves is what boot and another save would leave.
THEOREM SavesSettled == Spec => []SavesSettle
<1>1. Init => SettledParts
  BY DEF Init, SettledParts
<1>2. SettledInv /\ [Next]_vars => SettledParts'
  <2>1. SettledInv /\ UNCHANGED vars => SettledParts'
    BY DEF vars, ramVars, SettledInv, SettledParts
  <2> QED BY <2>1, SaveSettled, OthersSettled DEF Next, Main
<1>3. SettledParts => SavesSettle
  BY DEF SettledParts, SavesSettle, Settled
<1> QED BY <1>1, <1>2, <1>3, TypeCorrect, PTL DEF Spec, SettledInv

-----------------------------------------------------------------------------
(* The first boot                                                          *)

\* Place by place, how far the defaults of a node without saved settings are,
\* as long as neither a power cut nor a downlink comes and no read fails.
FirstBootParts ==
  restarts = 0 /\ downlinks = 0 =>
    /\ pc = "readVersion" => ~nvm.stamped
    /\ pc = "writeDefaults" =>
         \A f \in Settings : Slot[f] < cursor => nvm[f] = DefaultSettings[f]
    /\ pc \notin {"readVersion", "stampVersion", "writeDefaults"} =>
         \A f \in Settings : nvm[f] = DefaultSettings[f]
    /\ pending = {} /\ pc \notin SavePcs
    /\ Loaded => cfg = DefaultSettings

FirstBootInv == TypeOK /\ FirstBootParts

\* The defaults are loaded as they are stored.
LEMMA DefaultsLoadable ==
  /\ DOMAIN DefaultSettings = Settings
  /\ \A f \in Settings : LoadValue(f, DefaultSettings[f]) = DefaultSettings[f]
<1>1. DOMAIN DefaultSettings = Settings
  BY DEF DefaultSettings, StaticSettings, Settings
<1>2. /\ DefaultSettings["opMode"] = "AutoPhotoCell" /\ DefaultSettings["curve"] = 0
      /\ DefaultSettings["manual"] = 100
  BY DEF DefaultSettings, StaticSettings
<1>3. ASSUME NEW f \in Settings
      PROVE  LoadValue(f, DefaultSettings[f]) = DefaultSettings[f]
  BY <1>2 DEF LoadValue, SelectCurve, ClampLevel, TimeModes
<1> QED BY <1>1, <1>3

LEMMA MainFirstBoot ==
  ASSUME FirstBootInv, Main, ReadFaults = {{}}
  PROVE  FirstBootParts'
<1> SUFFICES ASSUME restarts' = 0, downlinks' = 0
             PROVE  FirstBootParts'
  BY DEF FirstBootParts
<1>b. restarts = 0 /\ downlinks = 0
  BY DEF Main, Boot, ReadVersion, StampVersion, WriteDefault, LoadConfig,
     InitialJoin, PrimeLoops, Save, CheckSave, FillBuffer, WriteNvm, ClearPending,
     Iterate, Wait, PartOne, Rejoin, SyncClock,
     SendTimestamp, RecoverMode, SendConfig, SetLight, PartTwo, CountLoop,
     ComputeDelay, CheckWait, ClearBypass, Sleep, bounds
<1>p. pending = {} /\ pc \notin SavePcs
  BY <1>b DEF FirstBootInv, FirstBootParts
<1>d. DOMAIN nvm = Settings \union {"stamped"} /\ DOMAIN cfg = Settings
      /\ cursor \in 1..LastSlot
  BY DEF FirstBootInv, TypeOK, LastSlot, BlockSize
<1>1. CASE ReadVersion
  BY <1>1, <1>b, <1>p DEF ReadVersion, ramVars, FirstBootInv, FirstBootParts, Loaded, SavePcs
<1>2. CASE StampVersion
  <2>1. pc' = "writeDefaults" /\ cursor' = 1 /\ pending' = pending
    BY <1>2 DEF StampVersion, ramVars
  <2> QED BY <1>p, <2>1, SlotFacts DEF FirstBootParts, Loaded, LastSlot, SavePcs
<1>3. CASE WriteDefault
  <2>1. PICK f \in Settings :
          /\ Slot[f] = cursor
          /\ nvm' = [nvm EXCEPT ![f] = DefaultSettings[f]]
    BY <1>3 DEF WriteDefault
  <2>2. \A g \in Settings : Slot[g] <= cursor => nvm'[g] = DefaultSettings[g]
    <3> SUFFICES ASSUME NEW g \in Settings, Slot[g] <= cursor
                 PROVE  nvm'[g] = DefaultSettings[g]
      OBVIOUS
    <3>1. CASE g = f
      BY <2>1, <1>d, <3>1
    <3>2. CASE g # f
      <4>1. Slot[g] < cursor
        BY <2>1, <3>2, <1>d, SlotFacts DEF LastSlot
      <4>2. nvm[g] = DefaultSettings[g]
        BY <1>3, <1>b, <4>1 DEF WriteDefault, FirstBootInv, FirstBootParts
      <4> QED BY <2>1, <1>d, <3>2, <4>2
    <3> QED BY <3>1, <3>2
  <2>3. /\ pending' = pending
        /\ \/ cursor = LastSlot /\ pc' = "loadConfig"
           \/ pc' = "writeDefaults" /\ cursor' = cursor + 1
    BY <1>3 DEF WriteDefault, ramVars
  <2> QED BY <1>p, <2>2, <2>3, <1>d, SlotFacts DEF FirstBootParts, Loaded, LastSlot, SavePcs
<1>4. CASE LoadConfig
  <2>1. cfg' = [f \in Settings |-> LoadValue(f, nvm[f])]
    BY <1>4 DEF LoadConfig
  <2>2. \A f \in Settings : nvm[f] = DefaultSettings[f]
    BY <1>4, <1>b DEF LoadConfig, FirstBootInv, FirstBootParts
  <2>3. cfg' = DefaultSettings
    BY <2>1, <2>2, DefaultsLoadable DEF DefaultSettings, StaticSettings
  <2> QED BY <1>4, <1>p, <2>2, <2>3 DEF LoadConfig, FirstBootParts, SavePcs
<1>5. CASE Save
  <2>1. CheckSave
    BY <1>5, <1>p DEF Save, FillBuffer, WriteNvm, ClearPending, SavePcs
  <2>2. /\ UNCHANGED <<cfg, nvm, pending>> /\ pc = "top" /\ pc' = "part1"
    BY <1>p, <2>1 DEF CheckSave, ramVars
  <2> QED
    BY <1>b, <1>p, <2>2 DEF FirstBootInv, FirstBootParts, Loaded, SavePcs
<1>6. CASE RecoverMode
  <2>1. /\ pc = "recover" /\ pc' = "config" /\ UNCHANGED <<nvm, pending>>
        /\ cfg' = cfg \/ cfg' = [cfg EXCEPT !.opMode = nvm.opMode]
    BY <1>6 DEF RecoverMode
  <2>2. nvm["opMode"] = cfg["opMode"]
    BY <1>b, <2>1 DEF FirstBootInv, FirstBootParts, Loaded, Settings
  <2>3. cfg' = cfg
    BY <1>d, <2>1, <2>2, StaticTypes, <1>b DEF FirstBootInv, FirstBootParts, Loaded,
       DefaultSettings, StaticSettings
  <2> QED
    BY <1>b, <1>p, <2>1, <2>3 DEF FirstBootInv, FirstBootParts, Loaded, SavePcs
<1>7. CASE InitialJoin \/ PrimeLoops \/ (Iterate /\ ~RecoverMode) \/ Wait
  <2>1. /\ UNCHANGED <<cfg, nvm>> /\ Loaded /\ Loaded' /\ pc' \notin SavePcs
        /\ pc \notin {"readVersion", "stampVersion", "writeDefaults"}
    BY <1>7 DEF InitialJoin, PrimeLoops, Iterate, Wait, PartOne, Rejoin, SyncClock,
       SendTimestamp, SendConfig, SetLight, PartTwo, CountLoop, ComputeDelay,
       CheckWait, ClearBypass, Sleep, ramVars, Loaded, SavePcs
  <2>2. pending' \subseteq pending
    BY <1>7 DEF InitialJoin, PrimeLoops, Iterate, Wait, PartOne, Rejoin, SyncClock,
       SendTimestamp, SendConfig, SetLight, PartTwo, CountLoop, ComputeDelay,
       CheckWait, ClearBypass, Sleep, ramVars
  <2> QED BY <1>b, <1>p, <2>1, <2>2 DEF FirstBootInv, FirstBootParts, Loaded
<1> QED BY <1>1, <1>2, <1>3, <1>4, <1>5, <1>6, <1>7 DEF Main, Boot

\* What holds beside the run defaults_torn: a node whose version does not match
\* loads the default values, if it can read the version and no power cut
\* interrupts its first boot (src/src/luminary.cpp:366-456).
THEOREM DefaultsWhole ==
  ASSUME ReadFaults = {{}}
  PROVE  Spec /\ ~nvm.stamped => [](restarts = 0 => DefaultsLoaded)
<1>1. Init /\ ~nvm.stamped => FirstBootParts
  BY DEF Init, FirstBootParts, Loaded, SavePcs
<1>2. FirstBootInv /\ [Next]_vars => FirstBootParts'
  <2> SUFFICES ASSUME FirstBootInv, [Next]_vars PROVE FirstBootParts'
    OBVIOUS
  <2>1. CASE Main
    BY <2>1, MainFirstBoot
  <2>2. CASE Restart
    BY <2>2, BoundAssumption DEF Restart, FirstBootInv, FirstBootParts, TypeOK
  <2>3. CASE Receive /\ ~ReceiveReset
    <3>1. downlinks' = downlinks + 1
      BY <2>3 DEF Receive, ReceiveTime, ReceiveCurve, ReceiveManual,
         ReceiveRequest, ReceiveCustomCurve, ReceiveMode, ReceiveUnknownMode,
         ReceiveOnOff, ReceivePeriod, ReceiveIgnored, CommandMode, Downlink
    <3>2. downlinks' # 0
      BY <3>1, BoundAssumption DEF FirstBootInv, TypeOK
    <3> QED BY <3>2 DEF FirstBootParts
  <2>4. CASE UNCHANGED vars
    BY <2>4 DEF vars, ramVars, bounds, FirstBootInv, FirstBootParts, Loaded
  <2> QED
    BY <2>1, <2>2, <2>3, <2>4 DEF Next, Receive, ReceiveReset, PowerCut
<1>3. FirstBootParts => (restarts = 0 => DefaultsLoaded)
  BY DEF FirstBootParts, DefaultsLoaded, Loaded, LoopPcs, SavePcs, PartOnePcs, WaitPcs
<1> QED BY <1>1, <1>2, <1>3, TypeCorrect, PTL DEF Spec, FirstBootInv
=============================================================================
