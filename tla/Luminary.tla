------------------------------ MODULE Luminary ------------------------------
(***************************************************************************)
(* The control program of the luminaire node, src/src/luminary.cpp: boot    *)
(* and loading of the saved configuration, the main loop (save, part 1,     *)
(* light, part 2, wait), and payloadParser, which the radio library calls   *)
(* with every downlink while the main loop is at any of its steps.          *)
(*                                                                         *)
(* The main thread is a program counter pc; a step of it is the code        *)
(* between two places where a downlink or a power cut changes the outcome.  *)
(* Radio, clock, light sensor and EEPROM are external: what they answer is  *)
(* a choice among the answers the code distinguishes.                       *)
(***************************************************************************)
EXTENDS Integers, FiniteSets

CONSTANTS
  InitialNvm,      \* contents the EEPROM may have when the node is powered
  ReadFaults,      \* sets of settings that nvmRead may fail to read
  CurveLevels,     \* dimming levels (percent) a curve may ask for
  DemoLevels,      \* dimming levels of the demonstration
  OnOffTimes,      \* values of the four bytes of the on/off window
  CurveHalves,     \* values of six bytes of the custom curve
  CurveIndexes,    \* curve bytes of a 'C' downlink
  DimBytes,        \* level bytes of a 'D' downlink
  Periods,         \* loop delay and loops to send of a 'T' downlink
  DefaultOnOff,    \* 18:00 - 06:00
  ZeroHalf,        \* six zero bytes
  MaxWait,         \* bound: seconds of a wait between two iterations
  MaxDownlinks,    \* bound: downlinks delivered
  MaxRestarts      \* bound: resets and power cuts

-----------------------------------------------------------------------------
(* The settings, and their place in the EEPROM                             *)

\* Each setting has a slot, in address order. The first six are written in
\* one block by a save; the custom curve (two halves) is written after it.
Slot == [loopDelay |-> 1, loopsToSend |-> 2, opMode |-> 3, curve |-> 4,
         manual |-> 5, onOff |-> 6, low |-> 7, high |-> 8]
Settings == {"loopDelay", "loopsToSend", "opMode", "curve", "manual",
             "onOff", "low", "high"}
BlockSize == 6
LastSlot == 8

OpMode == {"Manual", "AutoPhotoCell", "AutoCurve", "Demo", "AutoTime",
           "Invalid"}
\* The modes that follow the clock.
TimeModes == {"AutoCurve", "AutoTime"}

\* uint16_t and uint8_t.
Word == 0..(256 * 256 - 1)
Byte == 0..255

RamType == [loopDelay |-> Word, loopsToSend |-> Byte, opMode |-> OpMode,
            curve |-> 0..3, manual |-> 0..100, onOff |-> OnOffTimes,
            low |-> CurveHalves, high |-> CurveHalves]
NvmType == [loopDelay |-> Word, loopsToSend |-> Byte, opMode |-> OpMode,
            curve |-> Byte, manual |-> Byte, onOff |-> OnOffTimes,
            low |-> CurveHalves, high |-> CurveHalves]

\* x holds a value of its type for every setting (and maybe other fields).
Holds(x, type) == \A f \in Settings : f \in DOMAIN x /\ x[f] \in type[f]

\* What the static initialisers leave in RAM, and what a node without saved
\* settings writes as its defaults (they differ in the mode only).
StaticSettings ==
  [loopDelay |-> 30, loopsToSend |-> 20, opMode |-> "Manual", curve |-> 0,
   manual |-> 100, onOff |-> DefaultOnOff, low |-> ZeroHalf, high |-> ZeroHalf]
DefaultSettings == [StaticSettings EXCEPT !.opMode = "AutoPhotoCell"]

ASSUME NvmAssumption ==
  \A n \in InitialNvm : /\ DOMAIN n = Settings \union {"stamped"}
                        /\ Holds(n, NvmType)
                        /\ n.stamped \in BOOLEAN
ASSUME ReadAssumption == \A s \in ReadFaults : s \subseteq Settings
ASSUME LevelAssumption == CurveLevels \union DemoLevels \subseteq 0..150
ASSUME FrameAssumption ==
  /\ DefaultOnOff \in OnOffTimes /\ ZeroHalf \in CurveHalves
  /\ CurveIndexes \subseteq Byte /\ DimBytes \subseteq Byte
ASSUME PeriodAssumption ==
  Periods \subseteq [delay : Word, loops : Byte]
ASSUME BoundAssumption ==
  MaxWait \in Nat \ {0} /\ MaxDownlinks \in Nat /\ MaxRestarts \in Nat

\* Mutant: the index is not checked.
SelectCurve_Unchecked(index) == index

\* selectCurve: an index past the custom curve selects curve 0.
SelectCurve(index) == IF index > 3 THEN 0 ELSE index

\* setManualDimming clamps the level to 1.
ClampLevel(percent) == IF percent > 100 THEN 100 ELSE percent

\* Mutant: a product that falls short at every level.
SavedPercent_Short(v) == IF v > 0 THEN v - 1 ELSE 0

\* static_cast<uint8_t>(level * 100) of the float level v / 100: single
\* precision loses one percent for these two levels and for no other.
SavedPercent(v) == IF v \in {53, 59} THEN v - 1 ELSE v

\* Mutant: the mode that is fixed takes the place of the clock modes.
LoadValue_Manual(f, v) ==
  CASE f = "opMode" -> IF v \in TimeModes THEN "Manual" ELSE v
    [] f = "curve"  -> SelectCurve(v)
    [] f = "manual" -> ClampLevel(v)
    [] OTHER        -> v

\* Mutant: boot replaces one of the two clock modes only.
LoadValue_CurveOnly(f, v) ==
  CASE f = "opMode" -> IF v = "AutoCurve" THEN "AutoPhotoCell" ELSE v
    [] f = "curve"  -> SelectCurve(v)
    [] f = "manual" -> ClampLevel(v)
    [] OTHER        -> v

\* The value boot puts in RAM for a stored value: the modes that need the
\* clock are replaced by the safe mode.
LoadValue(f, v) ==
  CASE f = "opMode" -> IF v \in TimeModes THEN "AutoPhotoCell" ELSE v
    [] f = "curve"  -> SelectCurve(v)
    [] f = "manual" -> ClampLevel(v)
    [] OTHER        -> v

\* The value a save stores for a value in RAM.
SaveValue(f, v) == IF f = "manual" THEN SavedPercent(v) ELSE v

\* uint16_t thisDelay = loopDelay + rand() % 21 - 10
ThisDelays(delay) == {(delay + r - 10) % (256 * 256) : r \in 0..20}

\* getNetworkJoinStatus after join_network: up to four attempts, with a wait for
\* a free channel after each that fails; then the program goes on, joined or
\* not.
JoinNetwork == BOOLEAN

\* timeIsSynced() after syncTime(5): at the first answer of the radio with a
\* GPS time later than 2018 the clock is set; without one it is left alone.
SyncTime(before) == {before, TRUE}

\* What send_lightStatus reports of the lamp.
LightStatus(level, opMode) == [dimming |-> level, mode |-> opMode]

\* The levels lightController.getDimming may answer.
Levels(c) ==
  CASE c.opMode = "AutoCurve" -> CurveLevels
    [] c.opMode = "Demo"      -> DemoLevels
    [] c.opMode \in {"AutoPhotoCell", "AutoTime"} -> {0, 100}
    [] OTHER -> {c.manual}

-----------------------------------------------------------------------------
VARIABLES
  cfg,          \* the settings in RAM
  nvm,          \* the EEPROM: the settings, and whether the version matches
  saveBuffer,   \* the local buffer of saveSmartcellConfig
  pc,           \* where the main thread is
  cursor,       \* slot the main thread captures or writes next
  pending,      \* the pending* flags that are set
  bypass,       \* bypassLoopDelay
  loopsCount,
  synced,       \* timeIsSynced()
  isJoined,
  lastDimming,
  report,       \* the last light status the loop sent (whether it arrives is not seen)
  left,         \* seconds of the wait that are left
  downlinks, restarts,   \* how many there were
  missed,       \* history: settings changed after the save under way took
                \* them, or that boot could not read
  commanded,    \* history: the mode asked for last (stored, or by downlink)
  chosen,       \* history: since boot a downlink chose a mode or the time
  overtaken,    \* history: a 'T' fell between the two assignments that end a
                \* wait, and the iteration after it does not transmit
  modeUnread    \* history: the last recovery of the mode could not read it

ramVars == <<cfg, saveBuffer, pending, bypass, loopsCount, isJoined,
             lastDimming, report, left>>
history == <<missed, commanded, chosen, overtaken, modeUnread>>
bounds == <<downlinks, restarts>>
vars == <<ramVars, nvm, pc, cursor, synced, bounds, history>>

Flags == {"SaveConfig", "SyncClock", "SendTimestamp", "SendConfig"}
NoReport == [dimming |-> -1, mode |-> "None"]

BootPcs == {"readVersion", "stampVersion", "writeDefaults", "loadConfig",
            "initialJoin", "primeLoops"}
SavePcs == {"fill", "write", "saved"}
PartOnePcs == {"rejoin", "sync", "timestamp", "recover", "config"}
WaitPcs == {"delay", "wait", "clear", "sleep"}
LoopPcs == SavePcs \union PartOnePcs \union WaitPcs
             \union {"top", "part1", "light", "part2", "count"}

Init ==
  /\ cfg = StaticSettings
  /\ nvm \in InitialNvm
  /\ saveBuffer = StaticSettings
  /\ pc = "readVersion" /\ cursor = 1
  /\ pending = {} /\ bypass = FALSE /\ loopsCount = 0
  /\ synced \in BOOLEAN
  /\ isJoined = FALSE
  /\ lastDimming = 0 /\ report = NoReport /\ left = 0
  /\ downlinks = 0 /\ restarts = 0
  /\ missed = {} /\ commanded = nvm.opMode /\ chosen = FALSE
  /\ overtaken = FALSE /\ modeUnread = FALSE

-----------------------------------------------------------------------------
(* Boot                                                                    *)

\* The stored version is compared with the firmware's. When it cannot be read
\* the settings are loaded as they are.
ReadVersion ==
  /\ pc = "readVersion"
  /\ \/ pc' = IF nvm.stamped THEN "loadConfig" ELSE "stampVersion"
     \/ ReadFaults # {{}} /\ pc' = "loadConfig"
  /\ UNCHANGED <<ramVars, nvm, cursor, synced, bounds, history>>

\* The version is written before the defaults it stands for.
StampVersion ==
  /\ pc = "stampVersion"
  /\ nvm' = [nvm EXCEPT !.stamped = TRUE]
  /\ pc' = "writeDefaults" /\ cursor' = 1
  /\ UNCHANGED <<ramVars, synced, bounds, history>>

WriteDefault ==
  /\ pc = "writeDefaults"
  /\ \E f \in Settings :
       /\ Slot[f] = cursor
       /\ nvm' = [nvm EXCEPT ![f] = DefaultSettings[f]]
       /\ commanded' = IF f = "opMode" THEN DefaultSettings[f] ELSE commanded
  /\ IF cursor = LastSlot THEN pc' = "loadConfig" /\ cursor' = 1
                          ELSE pc' = pc /\ cursor' = cursor + 1
  /\ UNCHANGED <<ramVars, synced, bounds, missed, chosen, overtaken, modeUnread>>

\* Mutant: the custom curve is not loaded.
LoadConfig_NoCustomCurve ==
  /\ pc = "loadConfig"
  /\ cfg' = [f \in Settings |-> IF f \in {"low", "high"} THEN cfg[f]
                                ELSE LoadValue(f, nvm[f])]
  /\ pc' = "initialJoin"
  /\ UNCHANGED <<nvm, saveBuffer, cursor, pending, bypass, loopsCount, synced,
                 isJoined, lastDimming, report, left, bounds, history>>

\* A setting that cannot be read keeps its static value.
LoadConfig ==
  /\ pc = "loadConfig"
  /\ \E unread \in ReadFaults :
       /\ cfg' = [f \in Settings |-> IF f \in unread THEN cfg[f]
                                     ELSE LoadValue(f, nvm[f])]
       /\ missed' = unread
  /\ pc' = "initialJoin"
  /\ UNCHANGED <<nvm, saveBuffer, cursor, pending, bypass, loopsCount, synced,
                 isJoined, lastDimming, report, left, bounds, commanded, chosen,
                 overtaken, modeUnread>>

InitialJoin ==
  /\ pc = "initialJoin"
  /\ isJoined' \in JoinNetwork
  /\ pc' = "primeLoops"
  /\ UNCHANGED <<cfg, nvm, saveBuffer, cursor, pending, bypass, loopsCount,
                 synced, lastDimming, report, left, bounds, history>>

\* The first iteration transmits.
PrimeLoops ==
  /\ pc = "primeLoops"
  /\ loopsCount' = cfg.loopsToSend
  /\ pc' = "top"
  /\ UNCHANGED <<cfg, nvm, saveBuffer, cursor, pending, bypass, synced,
                 isJoined, lastDimming, report, left, bounds, history>>

-----------------------------------------------------------------------------
(* saveSmartcellConfig                                                     *)

CheckSave ==
  /\ pc = "top"
  /\ IF "SaveConfig" \in pending
     THEN pc' = "fill" /\ cursor' = 1 /\ missed' = {}
     ELSE pc' = "part1" /\ UNCHANGED <<cursor, missed>>
  /\ UNCHANGED <<ramVars, nvm, synced, bounds, commanded, chosen, overtaken,
                 modeUnread>>

\* One setting at a time goes into the buffer.
FillBuffer ==
  /\ pc = "fill"
  /\ \E f \in Settings :
       /\ Slot[f] = cursor
       /\ saveBuffer' = [saveBuffer EXCEPT ![f] = SaveValue(f, cfg[f])]
  /\ IF cursor = BlockSize THEN pc' = "write" /\ cursor' = 1
                           ELSE pc' = pc /\ cursor' = cursor + 1
  /\ UNCHANGED <<cfg, nvm, pending, bypass, loopsCount, synced, isJoined,
                 lastDimming, report, left, bounds, history>>

\* nvmWrite stores in address order: the block from the buffer, the custom
\* curve from the live array. A power cut may fall between two of them.
WriteNvm ==
  /\ pc = "write"
  /\ \E f \in Settings :
       /\ Slot[f] = cursor
       /\ nvm' = [nvm EXCEPT ![f] = IF cursor <= BlockSize THEN saveBuffer[f]
                                                           ELSE cfg[f]]
  /\ IF cursor = LastSlot THEN pc' = "saved" /\ cursor' = 1
                          ELSE pc' = pc /\ cursor' = cursor + 1
  /\ UNCHANGED <<ramVars, synced, bounds, history>>

\* The flag is cleared after the writes, whatever arrived meanwhile.
ClearPending ==
  /\ pc = "saved"
  /\ pending' = pending \ {"SaveConfig"}
  /\ saveBuffer' = StaticSettings     \* out of scope
  /\ pc' = "part1"
  /\ UNCHANGED <<cfg, nvm, cursor, bypass, loopsCount, synced, isJoined,
                 lastDimming, report, left, bounds, history>>

-----------------------------------------------------------------------------
(* The rest of an iteration                                                *)

Due == loopsCount >= cfg.loopsToSend

\* Mutant: an iteration too late, that is never.
PartOne_Late ==
  /\ pc = "part1"
  /\ pc' = IF loopsCount > cfg.loopsToSend THEN "rejoin" ELSE "light"
  /\ overtaken' = (overtaken /\ ~Due)
  /\ UNCHANGED <<ramVars, nvm, cursor, synced, bounds, missed, commanded, chosen,
                 modeUnread>>

PartOne ==
  /\ pc = "part1"
  /\ pc' = IF Due THEN "rejoin" ELSE "light"
  /\ overtaken' = (overtaken /\ ~Due)
  /\ UNCHANGED <<ramVars, nvm, cursor, synced, bounds, missed, commanded, chosen,
                 modeUnread>>

Rejoin ==
  /\ pc = "rejoin"
  /\ isJoined' \in IF isJoined THEN {TRUE} ELSE JoinNetwork
  /\ pc' = "sync"
  /\ UNCHANGED <<cfg, nvm, saveBuffer, cursor, pending, bypass, loopsCount,
                 synced, lastDimming, report, left, bounds, history>>

\* Tried when asked for, when the clock is not set, or when 12 hours passed;
\* not trying and failing leave the same state. The request is dropped first.
SyncClock ==
  /\ pc = "sync"
  /\ pending' = pending \ {"SyncClock"}
  /\ synced' \in SyncTime(synced)
  /\ pc' = "timestamp"
  /\ UNCHANGED <<cfg, nvm, saveBuffer, cursor, bypass, loopsCount, isJoined,
                 lastDimming, report, left, bounds, history>>

SendTimestamp ==
  /\ pc = "timestamp"
  /\ pending' = pending \ {"SendTimestamp"}
  /\ pc' = "recover"
  /\ UNCHANGED <<cfg, nvm, saveBuffer, cursor, bypass, loopsCount, synced,
                 isJoined, lastDimming, report, left, bounds, history>>

\* Mutants: the clock is not looked at; only one clock mode is recovered.
RecoverMode_Always ==
  /\ pc = "recover" /\ pc' = "config"
  /\ \E unread \in ReadFaults :
       /\ cfg' = IF "opMode" \notin unread
                 THEN [cfg EXCEPT !.opMode = nvm.opMode] ELSE cfg
       /\ modeUnread' = (synced /\ "opMode" \in unread)
  /\ UNCHANGED <<nvm, saveBuffer, cursor, pending, bypass, loopsCount, synced,
                 isJoined, lastDimming, report, left, bounds, missed, commanded,
                 chosen, overtaken>>
RecoverMode_CurveOnly ==
  /\ pc = "recover" /\ pc' = "config"
  /\ \E unread \in ReadFaults :
       /\ cfg' = IF synced /\ "opMode" \notin unread /\ nvm.opMode = "AutoCurve"
                 THEN [cfg EXCEPT !.opMode = nvm.opMode] ELSE cfg
       /\ modeUnread' = (synced /\ "opMode" \in unread)
  /\ UNCHANGED <<nvm, saveBuffer, cursor, pending, bypass, loopsCount, synced,
                 isJoined, lastDimming, report, left, bounds, missed, commanded,
                 chosen, overtaken>>

\* With the clock set, the stored mode becomes the mode of operation. When it
\* cannot be read the mode stays as it is.
RecoverMode ==
  /\ pc = "recover" /\ pc' = "config"
  /\ \E unread \in ReadFaults :
       /\ cfg' = IF synced /\ "opMode" \notin unread
                 THEN [cfg EXCEPT !.opMode = nvm.opMode] ELSE cfg
       /\ modeUnread' = (synced /\ "opMode" \in unread)
  /\ UNCHANGED <<nvm, saveBuffer, cursor, pending, bypass, loopsCount, synced,
                 isJoined, lastDimming, report, left, bounds, missed, commanded,
                 chosen, overtaken>>

SendConfig ==
  /\ pc = "config"
  /\ pending' = pending \ {"SendConfig"}
  /\ pc' = "light"
  /\ UNCHANGED <<cfg, nvm, saveBuffer, cursor, bypass, loopsCount, synced,
                 isJoined, lastDimming, report, left, bounds, history>>

\* Mutant: a new level does not cut the wait short.
SetLight_NoBypass ==
  /\ pc = "light"
  /\ lastDimming' \in Levels(cfg)
  /\ pc' = "part2"
  /\ UNCHANGED <<cfg, nvm, saveBuffer, cursor, pending, bypass, loopsCount,
                 synced, isJoined, report, left, bounds, history>>

\* A level that differs from the previous one is reported in the next
\* iteration, unless this one reports anyway.
SetLight ==
  /\ pc = "light"
  /\ \E dimming \in Levels(cfg) :
       /\ bypass' = (bypass \/ (lastDimming # dimming /\ ~Due))
       /\ lastDimming' = dimming
  /\ pc' = "part2"
  /\ UNCHANGED <<cfg, nvm, saveBuffer, cursor, pending, loopsCount, synced,
                 isJoined, report, left, bounds, history>>

\* Mutant: an iteration too late, that is never.
PartTwo_Late ==
  /\ pc = "part2"
  /\ report' = IF loopsCount > cfg.loopsToSend /\ isJoined
               THEN LightStatus(lastDimming, cfg.opMode)
               ELSE report
  /\ pc' = "count"
  /\ UNCHANGED <<cfg, nvm, saveBuffer, cursor, pending, bypass, loopsCount,
                 synced, isJoined, lastDimming, left, bounds, history>>

\* The frame is handed to the radio; whether it arrives changes nothing here.
PartTwo ==
  /\ pc = "part2"
  /\ report' = IF Due /\ isJoined
               THEN LightStatus(lastDimming, cfg.opMode)
               ELSE report
  /\ pc' = "count"
  /\ UNCHANGED <<cfg, nvm, saveBuffer, cursor, pending, bypass, loopsCount,
                 synced, isJoined, lastDimming, left, bounds, history>>

CountLoop ==
  /\ pc = "count"
  /\ loopsCount' = IF Due THEN 1 ELSE loopsCount + 1
  /\ pc' = "delay"
  /\ UNCHANGED <<cfg, nvm, saveBuffer, cursor, pending, bypass, synced,
                 isJoined, lastDimming, report, left, bounds, history>>

\* The length of the wait; with a delay of 0 the loop does not even look at
\* the bypass flag.
ComputeDelay ==
  /\ pc = "delay"
  /\ \/ pc' = "wait" /\ left' \in 1..MaxWait
     \/ 0 \in ThisDelays(cfg.loopDelay) /\ pc' = "top" /\ left' = 0
  /\ UNCHANGED <<cfg, nvm, saveBuffer, cursor, pending, bypass, loopsCount,
                 synced, isJoined, lastDimming, report, bounds, history>>

\* Each second: the bypass flag ends the wait, and so does the demonstration
\* when its period has passed. The flag is cleared after the count is set: a
\* downlink in between leaves no flag.
CheckWait ==
  /\ pc = "wait"
  /\ \/ /\ bypass
        /\ loopsCount' = cfg.loopsToSend
        /\ pc' = "clear" /\ left' = 0
        /\ UNCHANGED bypass
     \/ /\ ~bypass /\ cfg.opMode = "Demo"
        /\ loopsCount' = cfg.loopsToSend
        /\ \/ pc' = "sleep" /\ left' = left
           \/ left < MaxWait /\ pc' = "top" /\ left' = 0
        /\ UNCHANGED bypass
     \/ /\ ~bypass /\ cfg.opMode # "Demo"
        /\ pc' = "sleep"
        /\ UNCHANGED <<bypass, loopsCount, left>>
  /\ UNCHANGED <<cfg, nvm, saveBuffer, cursor, pending, synced, isJoined,
                 lastDimming, report, bounds, history>>

ClearBypass ==
  /\ pc = "clear"
  /\ bypass' = FALSE /\ pc' = "top"
  /\ UNCHANGED <<cfg, nvm, saveBuffer, cursor, pending, loopsCount, synced, isJoined,
                 lastDimming, report, left, bounds, history>>

Sleep ==
  /\ pc = "sleep"
  /\ left' = left - 1
  /\ pc' = IF left = 1 THEN "top" ELSE "wait"
  /\ UNCHANGED <<cfg, nvm, saveBuffer, cursor, pending, bypass, loopsCount,
                 synced, isJoined, lastDimming, report, bounds, history>>

Boot == ReadVersion \/ StampVersion \/ WriteDefault \/ LoadConfig
          \/ InitialJoin \/ PrimeLoops
Save == CheckSave \/ FillBuffer \/ WriteNvm \/ ClearPending
Iterate == PartOne \/ Rejoin \/ SyncClock \/ SendTimestamp \/ RecoverMode
             \/ SendConfig \/ SetLight \/ PartTwo \/ CountLoop
Wait == ComputeDelay \/ CheckWait \/ ClearBypass \/ Sleep
Main == Boot \/ Save \/ Iterate \/ Wait

-----------------------------------------------------------------------------
(* payloadParser: one action per command                                   *)

\* The save under way has taken f already, and will clear the flag.
Captured(f) ==
  \/ pc = "fill"  /\ Slot[f] < cursor
  \/ pc = "write" /\ (Slot[f] <= BlockSize \/ Slot[f] < cursor)
  \/ pc = "saved"

\* Every downlink ends the wait. It changes the settings of `changes` and
\* raises `flags`.
Downlink(changes, newCfg, flags) ==
  /\ isJoined /\ downlinks < MaxDownlinks
  /\ downlinks' = downlinks + 1
  /\ cfg' = newCfg
  /\ pending' = pending \union flags
  /\ bypass' = TRUE
  /\ missed' = missed \union {f \in changes : Captured(f)}
  /\ overtaken' = (overtaken \/ (pc = "clear" /\ ~(loopsCount >= newCfg.loopsToSend)))
  /\ UNCHANGED <<nvm, saveBuffer, pc, cursor, loopsCount, isJoined,
                 lastDimming, report, left, restarts, modeUnread>>

\* The mode m is asked for, with other settings changed besides.
CommandMode(m, others, newCfg) ==
  /\ Downlink(others \union {"opMode"}, [newCfg EXCEPT !.opMode = m],
              {"SaveConfig"})
  /\ commanded' = m /\ chosen' = TRUE
  /\ UNCHANGED synced

ReceiveTime ==                                        \* 'A'
  /\ Downlink({}, cfg, {})
  /\ synced' \in BOOLEAN /\ chosen' = TRUE
  /\ UNCHANGED commanded

ReceiveCurve ==                                       \* 'C'
  \E index \in CurveIndexes :
    CommandMode("AutoCurve", {"curve"},
                [cfg EXCEPT !.curve = SelectCurve(index)])

ReceiveManual ==                                      \* 'D'
  \E level \in DimBytes :
    CommandMode("Manual", {"manual"},
                [cfg EXCEPT !.manual = ClampLevel(level)])

ReceiveRequest ==                                     \* 'E', 'H', 'S'
  /\ \E flag \in {"SendConfig", "SendTimestamp", "SyncClock"} :
       Downlink({}, cfg, {flag})
  /\ UNCHANGED <<synced, commanded, chosen>>

ReceiveCustomCurve ==                                 \* 'J', 'K'
  /\ \E half \in {"low", "high"}, bytes \in CurveHalves :
       Downlink({half}, [cfg EXCEPT ![half] = bytes], {"SaveConfig"})
  /\ UNCHANGED <<synced, commanded, chosen>>

ReceiveMode ==                                        \* 'M' 0 to 3
  \E m \in {"Manual", "AutoPhotoCell", "AutoCurve", "Demo"} :
    CommandMode(m, {}, cfg)

\* 'M' with a byte that is no mode still asks for a save.
ReceiveUnknownMode ==
  /\ Downlink({}, cfg, {"SaveConfig"})
  /\ UNCHANGED <<synced, commanded, chosen>>

ReceiveOnOff ==                                       \* 'O'
  \E times \in OnOffTimes :
    CommandMode("AutoTime", {"onOff"}, [cfg EXCEPT !.onOff = times])

\* Mutant: the save is not asked for.
ReceivePeriod_Unsaved ==
  /\ \E p \in Periods :
       Downlink({"loopDelay", "loopsToSend"},
                [cfg EXCEPT !.loopDelay = p.delay, !.loopsToSend = p.loops],
                {})
  /\ UNCHANGED <<synced, commanded, chosen>>

ReceivePeriod ==                                      \* 'T'
  /\ \E p \in Periods :
       Downlink({"loopDelay", "loopsToSend"},
                [cfg EXCEPT !.loopDelay = IF p.delay < 30 THEN 30 ELSE p.delay,
                            !.loopsToSend = p.loops],
                {"SaveConfig"})
  /\ UNCHANGED <<synced, commanded, chosen>>

\* A command that is too short, or unknown.
ReceiveIgnored ==
  /\ Downlink({}, cfg, {})
  /\ UNCHANGED <<synced, commanded, chosen>>

\* Everything in RAM starts again; the clock may have kept its time.
Restart ==
  /\ restarts < MaxRestarts
  /\ restarts' = restarts + 1
  /\ cfg' = StaticSettings /\ saveBuffer' = StaticSettings
  /\ pc' = "readVersion" /\ cursor' = 1
  /\ pending' = {} /\ bypass' = FALSE /\ loopsCount' = 0
  /\ synced' \in {synced, FALSE}
  /\ isJoined' = FALSE
  /\ lastDimming' = 0 /\ report' = NoReport /\ left' = 0
  /\ missed' = {} /\ chosen' = FALSE /\ overtaken' = FALSE
  /\ modeUnread' = FALSE
  /\ UNCHANGED <<nvm, downlinks, commanded>>

ReceiveReset ==                                       \* 'R'
  isJoined /\ downlinks < MaxDownlinks /\ Restart

Receive == ReceiveTime \/ ReceiveCurve \/ ReceiveManual \/ ReceiveRequest
             \/ ReceiveCustomCurve \/ ReceiveMode \/ ReceiveUnknownMode
             \/ ReceiveOnOff \/ ReceivePeriod \/ ReceiveIgnored \/ ReceiveReset

PowerCut == Restart

Next == Main \/ Receive \/ PowerCut

Spec == Init /\ [][Next]_vars

\* The main thread is one endless loop whose calls all return: it never
\* stops. Downlinks and power cuts need not happen.
FairSpec == Spec /\ WF_vars(Main)

-----------------------------------------------------------------------------
(* Properties                                                              *)

TypeOK ==
  /\ DOMAIN cfg = Settings /\ Holds(cfg, RamType)
  /\ DOMAIN saveBuffer = Settings /\ Holds(saveBuffer, NvmType)
  /\ DOMAIN nvm = Settings \union {"stamped"} /\ Holds(nvm, NvmType)
  /\ nvm.stamped \in BOOLEAN
  /\ pc \in BootPcs \union LoopPcs
  /\ cursor \in 1..(IF pc = "fill" THEN BlockSize ELSE LastSlot)
  /\ pending \subseteq Flags
  /\ bypass \in BOOLEAN /\ synced \in BOOLEAN /\ isJoined \in BOOLEAN
  /\ loopsCount \in Byte
  /\ lastDimming \in 0..150
  /\ \/ report = NoReport
     \/ report \in [dimming : 0..150, mode : OpMode]
  /\ left \in (IF pc \in {"wait", "sleep"} THEN 1 ELSE 0)..MaxWait
  /\ downlinks \in 0..MaxDownlinks /\ restarts \in 0..MaxRestarts
  /\ missed \subseteq Settings
  /\ commanded \in OpMode
  /\ chosen \in BOOLEAN /\ overtaken \in BOOLEAN /\ modeUnread \in BOOLEAN

\* The stored value of a setting and the value in RAM agree: the one is what
\* a save makes of the other, or the other what a boot makes of the one.
InForce(f) ==
  \/ nvm[f] = SaveValue(f, cfg[f])
  \/ cfg[f] = LoadValue(f, nvm[f])

Loaded == pc \notin {"readVersion", "stampVersion", "writeDefaults", "loadConfig"}

\* Recovery after a power cut: once the main thread has no save to do, every
\* setting that no downlink changed behind the save's back (missed) would be
\* found again by the next boot - whatever downlinks, torn saves and power
\* cuts came before (saveSmartcellConfig and the loading at boot).
DurableSettings ==
  Loaded /\ "SaveConfig" \notin pending =>
    \A f \in Settings \ missed : InForce(f)

\* A level the lamp was given and that was never reported is reported by the
\* next iteration: the wait will be cut short, or the iteration transmits
\* (the bypass flag, loopsCount and loopsToSend, which 'T' may change between
\* any two of the tests that read it). A 'T' between the two assignments that
\* end a wait undoes that, and nothing else does.
ChangeReported ==
  pc \in LoopPcs /\ isJoined /\ lastDimming # report.dimming =>
    bypass \/ Due \/ overtaken

\* A request of a downlink ('E', 'H', 'S') is never left to wait for the
\* periodic transmission: as long as it is pending the wait will be cut short
\* or the iteration under way or next transmits, but for that same 'T'.
RequestKept == pending \ {"SaveConfig"} # {} => bypass \/ Due \/ overtaken

\* The node never takes up a mode that follows the clock by itself while its
\* clock is not set: only a downlink can put it there (the fallback of boot,
\* and the recovery of the saved mode after a synchronisation).
TimeModeNeedsClock == cfg.opMode \in TimeModes /\ ~synced => chosen

\* The stored mode only ever becomes the one asked for last or the one a boot
\* falls back to, unless that command overtook the save: no tearing of the
\* block, no recovery and no order of restarts stores a mode that nobody chose
\* (what is true beside SavedModeKept).
Fallbacks ==
  {DefaultSettings.opMode}
    \union {StaticSettings.opMode : unread \in {s \in ReadFaults : "opMode" \in s}}
StoredModeChosen ==
  [][nvm'.opMode # nvm.opMode =>
       nvm'.opMode \in {commanded'} \union Fallbacks \/ "opMode" \in missed']_vars

\* The conversions between RAM and EEPROM settle: what a save has stored a boot
\* and another save store again, so that the percent a level may lose to single
\* precision is lost once and not at every power cut (the clock modes apart).
SavesSettle ==
  pc = "saved" =>
    \A f \in Settings \ {"opMode"} : SaveValue(f, LoadValue(f, nvm[f])) = nvm[f]

\* Every request and every save asked for is attended to: its flag is cleared by
\* the step that tries the work (whether that succeeds is not seen).
RequestsServed == \A flag \in Flags : flag \in pending ~> flag \notin pending

\* When downlinks cease, a joined node has reported the mode it is in and a
\* level of that mode, and goes on doing so.
EventuallyReported ==
  <>[](isJoined => report.mode = cfg.opMode /\ report.dimming \in Levels(cfg))

\* When downlinks cease, a node that has its clock is in the mode it stored, and
\* stays in it: the safe mode it booted into does not last, however many reads
\* of the EEPROM failed before, unless from some time on each of them fails.
ModeResumed ==
  []<>(~modeUnread) => <>[](synced => cfg.opMode = nvm.opMode)

-----------------------------------------------------------------------------
(* What the comments and the Readme say, and the code does not do           *)

\* The Readme lists the recovery of the configuration after a power cut: the
\* stored mode only becomes another when a downlink asked for that one.
SavedModeKept ==
  [][nvm'.opMode # nvm.opMode => nvm'.opMode = commanded']_vars

\* Before the clock is set boot replaces a stored curve mode, and the recovery
\* step is there to put it back: once running, the mode changes only to the
\* one asked for last.
CommandedModeKept ==
  [][Loaded /\ Loaded' /\ cfg'.opMode # cfg.opMode => cfg'.opMode = commanded']_vars

\* The main loop saves when a save is pending: no setting is left unsaved.
SaveNotLost ==
  Loaded /\ "SaveConfig" \notin pending => \A f \in Settings : InForce(f)

\* A node whose stored version differs loads the default values.
DefaultsLoaded == pc \in LoopPcs /\ downlinks = 0 => cfg = DefaultSettings

=============================================================================
