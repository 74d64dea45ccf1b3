------------------------------ MODULE Telemetry ------------------------------
(***************************************************************************)
(* The main loop of the luminaire in time: the wait between two iterations, *)
(* what cuts it short, and the energy that is measured in every iteration   *)
(* and handed over in those that transmit (src/src/luminary.cpp). Luminary  *)
(* has the same loop without time and with all of its settings.             *)
(*                                                                         *)
(* Time passes where the program waits: in the calls of the radio (joining, *)
(* synchronising, sending) and second by second between the iterations. The *)
(* rest of an iteration takes no time of its own.                          *)
(***************************************************************************)
EXTENDS Integers, FiniteSetsExt

CONSTANTS
  Delays,       \* loop delays a 'T' downlink asks for
  LoopNumbers,  \* its loops to send
  MinDelay,     \* 30 s
  Jitter,       \* 10 s
  DelayWord,    \* 2^16
  DemoPeriod,   \* 60 s
  MaxBusy,      \* bound: time the radio calls of a part of the iteration take
  Loads,        \* power the lamp may draw; each level of the lamp has its own
  DeadZone,     \* below this power the current sensor shows nothing
  Hour,         \* energy of a watt hour
  FrameWord,    \* 2^16
  MaxFailures,  \* bound: reports in a row that are not sent
  MaxChanges    \* bound: 'T' downlinks since the last report

ASSUME DelayAssumption ==
  /\ DelayWord \in Nat /\ Delays \subseteq 0..(DelayWord - 1)
  /\ MinDelay \in 0..(DelayWord - 1)
  /\ Jitter \in Nat /\ Jitter < MinDelay
  /\ DemoPeriod \in Nat /\ DemoPeriod >= MinDelay - Jitter
ASSUME LoopAssumption == LoopNumbers \subseteq 0..255 /\ LoopNumbers # {}
ASSUME EnergyAssumption ==
  /\ Loads \subseteq Nat /\ DeadZone \in Nat
  /\ Hour \in Nat \ {0} /\ FrameWord \in Nat \ {0}
ASSUME BoundAssumption == MaxBusy \in Nat /\ MaxFailures \in Nat /\ MaxChanges \in Nat

VARIABLES
  loopDelay, loopsToSend,
  demo,          \* the mode of operation is Demo
  bypass,        \* bypassLoopDelay
  loopsCount,
  pc,            \* where the main thread is
  thisDelay, i,  \* length of the wait, and seconds of it that passed
  load,          \* power the lamp draws
  energy,        \* the energy counter
  elapsed,       \* lastMesureTimer
  frame,         \* watt hours of the last report
  failures,      \* reports since the last one that was sent
  sinceReport,   \* history: time since the iteration that last reported
  changes,       \* history: 'T' downlinks since then
  asked,         \* history: a downlink or a new level since the last cut
  excused        \* history: the next report may come early

settings == <<loopDelay, loopsToSend, demo>>
wait == <<thisDelay, i>>
meter == <<load, energy, elapsed, frame, failures>>
history == <<sinceReport, changes, asked, excused>>
vars == <<settings, bypass, loopsCount, pc, wait, meter, history>>

Due == loopsCount >= loopsToSend

\* What the current sensor shows of a load.
Reading(power) == IF power < DeadZone THEN 0 ELSE power

\* Mutant: the delay is taken as it comes.
Period_Any(delay) == delay

\* The loop delay a 'T' downlink sets.
Period(delay) == IF delay < MinDelay THEN MinDelay ELSE delay
LoopDelays == {Period(delay) : delay \in Delays \union {0}}

\* uint16_t thisDelay = loopDelay + rand() % 21 - 10
Wrap(delay) == delay % DelayWord
Jittered(delay) == {delay + r - Jitter : r \in 0..(2 * Jitter)}

\* At the first iteration, with settings that were saved before: boot takes up
\* a stored demonstration as it is.
Init ==
  /\ loopDelay \in LoopDelays
  /\ loopsToSend \in LoopNumbers
  /\ demo \in BOOLEAN /\ bypass = FALSE
  /\ loopsCount = loopsToSend /\ pc = "part1"
  /\ thisDelay = 0 /\ i = 0
  /\ load \in Loads /\ energy = 0 /\ elapsed = 0 /\ frame = 0 /\ failures = 0
  /\ sinceReport = 0 /\ changes = 0 /\ asked = FALSE /\ excused = TRUE

Elapse(d) == elapsed' = elapsed + d /\ sinceReport' = sinceReport + d

-----------------------------------------------------------------------------
(* An iteration                                                            *)

\* Joining, synchronising and answering requests take their time. The stored
\* mode is put back without a bypass; it is not kept here, so that it may turn
\* the demonstration on, turn it off or leave it.
PartOne ==
  /\ pc = "part1" /\ pc' = "measure"
  /\ \E d \in (IF Due THEN 0..MaxBusy ELSE {0}) : Elapse(d)
  /\ demo' \in IF Due THEN BOOLEAN ELSE {demo}
  /\ UNCHANGED <<loopDelay, loopsToSend, bypass, loopsCount, wait, load, energy,
                 frame, failures, changes, asked, excused>>

\* Mutant: the new level is set before the energy of the old one is counted.
Measure_LampFirst ==
  /\ pc = "measure" /\ pc' = "light"
  /\ \E power \in Loads :
       load' = power /\ energy' = energy + Reading(power) * elapsed
  /\ elapsed' = 0
  /\ UNCHANGED <<settings, bypass, loopsCount, wait, frame, failures, history>>

\* The load now, for the time since the last measurement.
Measure ==
  /\ pc = "measure" /\ pc' = "light"
  /\ energy' = energy + Reading(load) * elapsed
  /\ elapsed' = 0
  /\ UNCHANGED <<settings, bypass, loopsCount, wait, load, frame, failures, history>>

SetLight ==
  /\ pc = "light" /\ pc' = "part2"
  /\ \E power \in Loads :
       /\ load' = power
       /\ IF power # load /\ ~Due THEN bypass' = TRUE /\ asked' = TRUE /\ excused' = TRUE
                                  ELSE UNCHANGED <<bypass, asked, excused>>
  /\ UNCHANGED <<settings, loopsCount, wait, energy, elapsed, frame, failures,
                 sinceReport, changes>>

\* Mutant: the energy of a report that was not sent is dropped as well.
Report_DropAlways(d) ==
  /\ \/ /\ failures' = 0
        /\ frame' \in (IF energy \div Hour < FrameWord THEN {energy \div Hour}
                                                       ELSE 0..(FrameWord - 1))
     \/ /\ failures < MaxFailures /\ failures' = failures + 1
        /\ UNCHANGED frame
  /\ energy' = energy % Hour
  /\ elapsed' = elapsed + d

\* Sent: the whole part of the energy is dropped, whatever the 16 bits of the
\* frame made of it. Not sent, or not joined: it is kept for the next report.
Report(d) ==
  /\ \/ /\ energy' = energy % Hour                  \* energy -= trunc(energy)
        /\ frame' \in (IF energy \div Hour < FrameWord THEN {energy \div Hour}
                                                       ELSE 0..(FrameWord - 1))
        /\ failures' = 0
     \/ /\ failures < MaxFailures /\ failures' = failures + 1
        /\ UNCHANGED <<energy, frame>>
  /\ elapsed' = elapsed + d

PartTwo ==
  /\ pc = "part2" /\ pc' = "count"
  /\ IF Due
     THEN /\ \E d \in 0..MaxBusy : Report(d)
          /\ sinceReport' = 0 /\ changes' = 0 /\ excused' = asked
     ELSE UNCHANGED <<energy, frame, failures, elapsed, sinceReport, changes, excused>>
  /\ UNCHANGED <<settings, bypass, loopsCount, wait, load, asked>>

\* Mutant: the iteration that reports is not counted.
CountLoop_FromZero ==
  /\ pc = "count" /\ pc' = "delay"
  /\ loopsCount' = IF Due THEN 0 ELSE loopsCount + 1
  /\ UNCHANGED <<settings, bypass, wait, meter, history>>

CountLoop ==
  /\ pc = "count" /\ pc' = "delay"
  /\ loopsCount' = IF Due THEN 1 ELSE loopsCount + 1
  /\ UNCHANGED <<settings, bypass, wait, meter, history>>

\* The 16 bits of the delay may wrap around.
ComputeDelay ==
  /\ pc = "delay" /\ pc' = "wait"
  /\ \E delay \in Jittered(loopDelay) :
       /\ thisDelay' = Wrap(delay)
       /\ excused' = (excused \/ delay # Wrap(delay))
  /\ i' = 0
  /\ UNCHANGED <<settings, bypass, loopsCount, meter, sinceReport, changes, asked>>

EndWait ==
  /\ pc = "wait" /\ i >= thisDelay
  /\ pc' = "part1"
  /\ UNCHANGED <<settings, bypass, loopsCount, wait, meter, history>>

CutWait ==
  /\ pc = "wait" /\ i < thisDelay /\ bypass
  /\ loopsCount' = loopsToSend /\ pc' = "clear" /\ asked' = FALSE
  /\ UNCHANGED <<settings, bypass, wait, meter, sinceReport, changes, excused>>

\* Mutant: the flag stays set.
ClearBypass_Missing ==
  /\ pc = "clear" /\ pc' = "part1"
  /\ UNCHANGED <<settings, bypass, loopsCount, wait, meter, history>>

ClearBypass ==
  /\ pc = "clear" /\ pc' = "part1"
  /\ bypass' = FALSE
  /\ UNCHANGED <<settings, loopsCount, wait, meter, history>>

\* Mutant: the demonstration waits like the other modes.
WaitSecond_NoDemo ==
  /\ pc = "wait" /\ i < thisDelay /\ ~bypass
  /\ loopsCount' = IF demo THEN loopsToSend ELSE loopsCount
  /\ i' = i + 1 /\ Elapse(1) /\ UNCHANGED pc
  /\ UNCHANGED <<settings, bypass, thisDelay, load, energy, frame, failures,
                 changes, asked, excused>>

\* A second passes; in the demonstration every iteration reports, and the
\* wait ends with its period.
WaitSecond ==
  /\ pc = "wait" /\ i < thisDelay /\ ~bypass
  /\ loopsCount' = IF demo THEN loopsToSend ELSE loopsCount
  /\ IF demo /\ i >= DemoPeriod
     THEN pc' = "part1" /\ UNCHANGED <<i, elapsed, sinceReport>>
     ELSE i' = i + 1 /\ Elapse(1) /\ UNCHANGED pc
  /\ UNCHANGED <<settings, bypass, thisDelay, load, energy, frame, failures,
                 changes, asked, excused>>

Main == \/ PartOne \/ Measure \/ SetLight \/ PartTwo \/ CountLoop \/ ComputeDelay
        \/ EndWait \/ CutWait \/ ClearBypass \/ WaitSecond

-----------------------------------------------------------------------------
(* payloadParser                                                           *)

\* What every downlink does besides.
Downlink ==
  /\ bypass' = TRUE /\ asked' = TRUE /\ excused' = TRUE
  /\ UNCHANGED <<loopsCount, pc, wait, meter, sinceReport>>

ReceivePeriod ==                                       \* 'T'
  /\ changes < MaxChanges /\ changes' = changes + 1
  /\ \E delay \in Delays : loopDelay' = Period(delay)
  /\ loopsToSend' \in LoopNumbers
  /\ Downlink /\ UNCHANGED demo

\* A command that chooses Demo, one that chooses another mode, one that
\* chooses none.
ReceiveOther ==
  /\ demo' \in BOOLEAN
  /\ Downlink /\ UNCHANGED <<loopDelay, loopsToSend, changes>>

Next == Main \/ ReceivePeriod \/ ReceiveOther

Spec == Init /\ [][Next]_vars

-----------------------------------------------------------------------------
(* Properties                                                              *)

TypeOK ==
  /\ loopDelay \in MinDelay..(DelayWord - 1) /\ loopsToSend \in LoopNumbers
  /\ demo \in BOOLEAN /\ bypass \in BOOLEAN
  /\ loopsCount \in 0..255
  /\ pc \in {"part1", "measure", "light", "part2", "count", "delay", "wait", "clear"}
  /\ thisDelay \in 0..(DelayWord - 1) /\ i \in 0..thisDelay
  /\ load \in Loads /\ energy \in Nat /\ elapsed \in Nat
  /\ frame \in 0..(FrameWord - 1) /\ failures \in 0..MaxFailures
  /\ sinceReport \in Nat /\ changes \in 0..MaxChanges
  /\ asked \in BOOLEAN /\ excused \in BOOLEAN

\* Every watt hour is told once: what the counter holds, and what the load
\* draws since the last measurement, is the energy drawn less the energy
\* reported - through changes of the lamp, reports that fail and joins that
\* take their time - unless a report had more to tell than 16 bits hold.
Account == INSTANCE Ledger
  WITH Readings <- {Reading(power) : power \in Loads},
       MaxBusy <- MaxBusy + 1,
       reading <- Reading(load),
       owed <- energy + Reading(load) * elapsed
AccountKept == Account!Spec

\* "loopsToSend" iterations pass between two reports at most, each as long as
\* its wait and its radio calls may be, and again for every 'T' that came
\* since: no order of bypasses, demonstrations and changes of the period puts
\* a report off for longer.
LongestWait == Max(UNION {{Wrap(d) : d \in Jittered(delay)} : delay \in LoopDelays})
MostLoops == Max(LoopNumbers \union {1})
ReportInterval ==
  sinceReport <= (1 + changes) * MostLoops * (LongestWait + 2 * MaxBusy)

\* Two reports are a shortened wait apart at least (20 s), unless a downlink or a
\* new level of the lamp asked for the later one, once each: the bypass flag
\* does not outlive the wait it cuts (or the 16 bits of the delay wrapped).
NoFlood ==
  [][pc = "part2" /\ pc' = "count" /\ Due /\ ~excused
       => sinceReport >= MinDelay - Jitter]_vars

\* In the demonstration the lamp is set again after the demonstration's period,
\* however long the delay between two iterations is, and whether boot, the
\* recovery of the stored mode or a downlink turned it on.
DemoPace == pc = "wait" /\ demo /\ ~bypass => elapsed <= DemoPeriod + MaxBusy

=============================================================================
