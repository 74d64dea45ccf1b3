# A verification project for the SmartCell luminaire node

The repository holds the firmware of a street-light controller, "SmartCell", for
the MultiTech xDot: a LoRaWAN class C node that dims a lamp, reports its state
and obeys downlink commands. The program of the node is `src/src/luminary.cpp`
with the libraries of `src/lib`; a second program, `src/src/pulse_meter.cpp`,
counts the pulses of a meter. The rest of the tree is the vendor's example
programs, the xDot library and mbed OS. This directory holds TLA+ models of the
two programs, the TLC runs that check them, and TLAPS proofs about them.

## 1. Inventory

| Part | Source | State it keeps | Operations | Interacts with |
|---|---|---|---|---|
| Control program | `src/src/luminary.cpp` | settings in globals, `pending*` flags, `bypassLoopDelay`, `loopsCount`, `isJoined`, `lastDimming` | boot, save, part 1, light, part 2, wait | everything below |
| Downlink commands | `payloadParser`, luminary.cpp:118-269 | none of its own | `A C D E H J K M O R S T` | runs in the radio library's thread; writes the globals |
| Saved configuration | luminary.cpp:87-116, 366-456, `version_config.h` | EEPROM: version, ten bytes in one block, twelve bytes of custom curve | stamp, write defaults, load, save | main thread |
| Light policy | `LightController`, `PhotoCell`, `DimmingCurves`, `OnOffByTime`, `DimmingDemo`, `LightOutput` | mode, curve, window, manual level, hysteresis, demonstration | `getDimming`, setters, `setOutput` | main thread reads, downlinks write |
| Delivery of downlinks | `EventSlot.cpp`, `RadioEvent.h`, `mDotEvent.h` | `_flags`, `_info` | the callbacks of the MAC | MAC thread, calls `payloadParser` |
| Clock | `SmartCell_util.cpp:5-52` | real-time clock | `syncTime`, `setManualTime`, `getHour`, `getMinute` | radio (GPS time) |
| Uplinks | `SmartCell_util.cpp:60-138` | none | light status, configuration, time | radio |
| Radio helpers | `dot_util.cpp` | settings inside the radio library | configuration, `join_network`, `send_data`, sleep | radio |
| Status LEDs | `LedHandler` | pin, mode, sequence, index, timeout | `setCicle`, `setManual`, `toggle`, timeout callback | main thread against timer interrupt |
| Energy | `CurrentSensor`, luminary.cpp:553-557, 600-618 | `energy`, `lastMesureTimer` | sample, integrate, subtract what was sent | main thread |
| Pulse meter | `pulse_meter.cpp`, `PulseCounter` | `_count`, `_filtering`, `_timeout` | edge interrupt, debounce, read, reset, report | a separate program: main thread against interrupts |
| Examples, ISL29011, xDot, mbed OS | | | | vendored, not part of the node's programs |

Hard behaviours: the MAC thread runs `payloadParser` while the main thread is
anywhere, without a lock (interleaving, stale reads, lost updates); a power cut
may fall between any two bytes written to the EEPROM; the clock may or may not
be set, and the modes that follow it must wait for it; requests, levels and
reports meet in two counters (`loopsCount`, `loopsToSend`) that are compared
anew in each part; timer interrupts change what the main thread is changing;
small integers and single-precision floats are truncated.

What makes each part correct:

* *saved configuration*: after any history of commands, saves and power cuts the
  next boot finds what was set (`DurableSettings`), no mode is stored that nobody
  chose (`StoredModeChosen`), and the conversions between RAM and EEPROM do not
  wear a value down (`SavesSettle`);
* *main loop*: a change of level, a request, a save is always attended to
  (`ChangeReported`, `RequestKept`, `RequestsServed`, `EventuallyReported`);
  reports are neither put off nor sent in a flood (`ReportInterval`, `NoFlood`),
  and the demonstration keeps its pace (`DemoPace`);
* *modes*: a clock mode needs a clock, and the stored mode comes back when the
  clock does (`TimeModeNeedsClock`, `ModeResumed`);
* *light policy*: the lamp shows what the mode promises (`LampFollowsPolicy`);
* *delivery*: every downlink arrives, in order, and is not repeated into a
  later exchange (`InOrder`, `NoLateReplay`, `AsPromised`);
* *energy*: every watt hour is told once (`AccountKept`);
* *LEDs*: an interrupt anywhere in a call never stops a sequence nor leaves it
  out of step (`NeverFreezes`, `InStep`, `ManualIsStill`, `Blinks`);
* *pulse meter*: no pulse is told twice, none is lost but for a named reason, the
  filter always opens again (`NeverTwice`, `PulsesAccounted`, `NeverDeaf`,
  `EventuallyTold`).

## 2. Plan

Done, in this order: `Luminary` (boot, save, main loop, downlinks, restarts),
`LightController` (the policy and downlinks inside one evaluation), `EventSlot`
(delivery, implementing `Mailbox`), `LedHandler`, `Telemetry` (the loop in
seconds and the energy account, implementing `Ledger`), `PulseMeter`, each with
its proofs.

Left, and what each would take:

1. A durable register per setting as an abstract specification of RAM, save
   buffer and EEPROM. `save_lost` and `mode_overwritten` show that the code does
   not implement it; `DurableSettings` with its history `missed` is what holds.
2. A composition of `EventSlot` with `Luminary`. All commands but 'A' set
   settings to values of the packet, so that a repeated one changes nothing that
   `InOrder` does not cover; 'A' sets the clock back, and would need a model of
   the clock's value.

## 3. Modules

### Luminary

`pc` is the place of the main thread; a step is the code between two places
where a downlink or a power cut can make a difference.

| Model | Code |
|---|---|
| `cfg` | `loopDelay`, `loopsToSend`, mode, curve, manual level, on/off times, halves of `customCurve` |
| `nvm` | the EEPROM, `stamped` standing for "the stored version is the firmware's" |
| `saveBuffer`, `cursor` | the buffer of `saveSmartcellConfig`; the setting that is captured or written next |
| `pending`, `bypass`, `loopsCount`, `isJoined`, `lastDimming` | the globals of those names |
| `synced` | `timeIsSynced()` |
| `report` | the last light status handed to `send_lightStatus`; the frame is unconfirmed, and one sent after the network was lost goes nowhere (luminary.cpp:500 never looks again) |
| `left` | what is left of the wait |
| `missed`, `commanded`, `chosen`, `overtaken`, `modeUnread` | history for the properties |
| `Boot`, `Save`, `Iterate`, `Wait` | main, lines 366-482, 490-492 with 87-116, 494-629, 636-659 |
| `Receive*` | one per command of `payloadParser` |
| `Restart` | command `R` and a power cut |

Granularity: `saveSmartcellConfig` copies one setting at a time into its buffer
and `nvmWrite` stores one at a time; the two bytes of `loopDelay` are one unit
both times. A downlink handler is one step: it runs in the MAC thread, which is
above the main thread in priority, so the main thread does not see it half
done. A part that only sends or logs is a step of its own when a downlink
before or after it makes a difference. The end of a wait by the bypass flag is
two steps, the count (luminary.cpp:644) and the flag (:645): a downlink may come
between them.

Abstractions: the manual level is a percent; `SavedPercent` says what the
truncation of the single-precision product does (53 and 59 lose one, no other
level does); the levels that curve, demonstration, window and photo cell may
ask for are sets (the other module says which level). Synchronisation and join
succeed or fail. `nvmRead` may fail for the sets in `ReadFaults`, at boot and at
each recovery of the mode (luminary.cpp:534), which then leaves the mode as it is.
`nvmWrite` is taken to succeed: it returns whether it did, but the code ignores
that (luminary.cpp:110, 113, 382), and what a failed write leaves behind is the
library's; a power cut between two writes is modelled.
What is read from an EEPROM with settings the firmware never wrote is any value
of the byte. An opMode byte outside the enumeration is the mode `"Invalid"`,
which `getDimming` treats like manual.

### LightController

One evaluation of the level per iteration: read hour, read minute, select by the
mode (with the two reads of the on/off window, and those of `currentCurve`,
apart), set the output, wait. Downlinks come between any two of them. A 'C' between the
reads of `currentCurve` may leave `twoValues` unwritten or taken from behind the
table: `CurveLevels` then allows any nibble. Levels are percents; the photo cell's
reading is below, between or above its thresholds; the demonstration's single
precision value is an integer in units of 2^-26 / 10, rounded to the spacing of
its binade as the float assignment does. Window bytes are taken to be times of
the day. The settings begin as the globals do; the values loaded at boot are
reachable by commands. So is what the recovery of the stored mode does in part 1,
before the evaluation of the same iteration.

The polarity of the photo cell is that of the code: on below the lower threshold.
That this is the dark follows from PhotoCell.cpp:27 and Readme.md:36 and not from
PhotoCell.cpp:55, see section 5.

### EventSlot and Mailbox

The records `_flags` and `_info` of `mDotEvent` and the call-back of
`EventSlot::MacEvent`. Which callback the library signals next is its own
choice (external). The buffer `_info` points to is taken to hold the packet as long
as `_info` names it. A packet repeated by the network keeps its number.
`Mailbox` is the promise to `payloadParser`: deliver the next packet, repeat the
newest while its exchange is open, shut the exchange. The refinement maps
`newest` to the last packet received and `open` to "no uplink was completed and
no reception failed since".

### LedHandler

Every statement of `setCicle`, `setManual` and `toggle` is a step, and
`cicleCallback` may fall between any two: it runs in the ticker's interrupt, with
interrupts off, after `Timeout::handler` has detached it. A sequence is its
length; its times decide nothing but when the callback comes, which is any time.
While the vector is being assigned (`Torn`) a callback may find any size, and a
time read from it is `Junk`. `luminary.cpp` uses `setCicle` only; the other calls
are the library's interface.

### Telemetry and Ledger

The main loop again, with time: time passes in the radio's calls and in each
second of the wait, and what is measured, kept and handed over is an integer of
energy. The 16 bits of `thisDelay` wrap, the reports that fail keep the energy
for the next, and one that is handed over drops the whole watt hours whatever
the 16 bits of the frame made of them. A conversion of a float that does not fit
is any value of the 16 bits. The 0.5 s before the second measurement
(luminary.cpp:571) is part of the time of part 2. Rounding of the float `energy`
is not modelled. Of the mode only `demo` is kept, and of the EEPROM nothing: boot
may find the demonstration stored (luminary.cpp:429-437), and the recovery of the
stored mode in an iteration that transmits (:531-538) may turn it on, turn it off or
leave it, without the bypass flag. That allows more than the code can do (it
recovers what was stored last), so the safety properties hold of the code as
well. `Ledger` is the account: energy is
drawn, the load changes, a frame takes whole watt hours of what is owed. The
refinement maps `owed` to the counter plus what the load has drawn since the last
measurement.

### PulseMeter

A contact that closes once per pulse; the edge interrupt, which counts or starts the
debounce filter; the filter's timeout; the loop of `pulse_meter.cpp` from the
join to the wait. Interrupts fall between any two statements. Both constructions
of `PulseCounter` are covered; the program's own has no filter and the divisor 1.
The environment: a contact chatters only where there is a filter, settles before
the timeout does, and holds for longer than the debounce time. A frame may be
lost after it is handed over, and the network at any time.

## 4. Runs

| Run | Bounds | Shows |
|---|---|---|
| `luminary` | 3 downlinks, 1 restart, wait of 1 | the safety properties of the loop, boot and save |
| `service` | 1 downlink, 1 restart, wait up to 2, reads that fail (at boot and at every recovery of the mode), blank, half-defaulted or stored EEPROM, fairness | boot finds what was stored; liveness of the loop |
| `lamp` | an evaluation at 11:59 or 18:01 and a minute later, one window, one custom half, one manual level, any number of downlinks | the lamp follows its mode under interleaving |
| `events` | 3 packets, 6 calls | delivery, and the refinement to `Mailbox` |
| `leds` | sequences of 2, 4 and 6 times, an index of 8 values, fairness | the LEDs under interrupts, with no bound on the calls or the interrupts |
| `telemetry` | a unit of about 10 s, delays of 3 to 7 units in a word of 8, 1 or 2 loops, 2 loads, a frame of 2 values, 1 failure in a row, 1 change of the period per report | the account, the pace of reports and of the demonstration |
| `meter` | 10 pulses, a count of 8 values, a byte of 4, both filters, divisors 1 and 2, fairness | the accounting of pulses |

`MCLuminary` gives the constants: a stored curve or window mode, a blank and an
outdated EEPROM; loop counts that make 'T' shrink and stretch the period; levels
0, 60 and 100, and those a curve or the demonstration asks for. Three downlinks
are the number the hardest interleavings need: one to raise the save, one that changes
a setting behind its back, one that changes the period or asks for a transmission.
One wait of a few seconds shows all its exits.
Words are narrowed where they must wrap within the bounds: the delay of
`telemetry` (7 + 1 wraps to 0, so the wait is skipped), its frame (2 watt hours do not
fit), the index of `leds`, the count and the byte of `meter` (10 pulses wrap
both). In `telemetry` time has no bound: the counters of
energy and time are bounded by the loop itself. Deadlock is checked in every run.

Fairness:

* `Luminary`: weak fairness of the main thread only. The code
  is one endless loop whose calls all return (joins and synchronisations are tried
  a bounded number of times), so its next step is always enabled and always
  taken. Nothing is assumed of downlinks, power cuts, the clock or the join.
  `ModeResumed` speaks of the behaviours in which the recovery of the mode does not
  fail to read it for ever: from its first success on the node stays in the stored
  mode, whatever reads fail later.
* `LedHandler`: a call that began ends, and a timeout that runs ends. Nothing is
  assumed of when the program calls.
* `PulseMeter`: the loop goes on, an armed timeout fires, chatter ends.
  `EventuallyTold` speaks of the behaviours in which nothing of what the code accepts
  to lose is lost; pulses are a bounded number, so the contact falls silent.

That the three stored curves agree with the table of the Readme at all 24 hours
is the assumption `CurvesAsDocumented` of `MCLightController`, evaluated by its
runs.

Every property has a mutant, a plausible slip in one definition (kept next to
it in the module, named after it), that makes its run fail.

## 5. Where code and documentation part

Each of these has a run that TLC finds violated.

| Run | The code | The documentation |
|---|---|---|
| `mode_overwritten` | luminary.cpp:97 stores the fallback mode | Readme.md:27, settings survive a power cut |
| `mode_recovered` | luminary.cpp:536 puts back any stored mode | luminary.cpp:531, recover the curve mode |
| `save_lost` | luminary.cpp:115 clears the request of a later command | luminary.cpp:489, save when a save is pending |
| `defaults_torn` | luminary.cpp:382 stamps before the defaults | luminary.cpp:376, load defaults on a different version |
| `night_window` | OnOffByTime.cpp:41 shifts both minutes | OnOffByTime.cpp:40, a range in one piece |

Smaller departures, in the models or seen beside them, without a run of their own:

* a 'C' or 'O' downlink takes up a clock mode though the clock is not set
  (luminary.cpp:147), and a synchronisation that fails leaves it there; Readme.md:43
  says the node goes to the safe mode. `TimeModeNeedsClock` is what holds: only a
  downlink does that;
* a 'T' that raises `loopsToSend` between luminary.cpp:644 and :645 finds the
  count already set by the old value and its own flag cleared: the wait it should
  have cut is cut, but the iteration does not transmit. `ChangeReported` and
  `RequestKept` excuse it by the history `overtaken`;
* the note at PhotoCell.cpp:55 ("dar vuelta. prende cuando hay luz": to be flipped,
  turns on when there is light) contradicts PhotoCell.cpp:27 ("1 es mucha luz") and
  Readme.md:36 ("Enciende cuando detecta poca luz en el ambiente"). The code turns the
  lamp on below `onThreshold`, which is the dark if the reading grows with the light as
  line 27 says. `LampFollowsPolicy` takes line 27 and the Readme at their word; if the
  sensor of a board is wired the other way the note is right and the lamp burns by
  day, which no reading of this code can tell;
* levels 53 and 59 are saved as 52 and 58 (luminary.cpp:103). That happens once:
  `SavesSettle` says that what a save stores a boot and another save store again;
* a nibble above ten in a custom curve asks for a level above 1, clamped by
  `LightOutput` but reported as it is (DimmingCurves.cpp:62);
* hour and minute are read separately, so that the pair can be an hour off at the
  end of an hour (luminary.cpp:560);
* the offset of the time zone is added in single precision, which makes 315953982
  into 315953984: the clock is two seconds ahead (SmartCell_util.cpp:24);
* the demonstration changes the level "cada 1 minuto" (Readme.md:73), but with the
  default delay of 30 s the wait ends by itself after 20 to 40 s, and rounding
  repeats the step at 20% (DimmingDemo.cpp:36). `DemoPace` is the upper bound
  only;
* a period of 65526 s or more may wrap to a wait of a few seconds or none
  (luminary.cpp:636); `NoFlood` excuses it.

What remains true beside each of them:

* `save_lost`, `mode_overwritten`: `DurableSettings`. Every setting is durable
  except those changed behind the save's back or unread at boot (`missed`), and the
  fallback of a clock mode counts as the loaded form of what is stored.
* `mode_overwritten`: `StoredModeChosen`. The stored mode becomes the one asked
  for last or a fallback of boot, never another, unless a command overtook the
  save (`save_lost` again).
* `defaults_torn`: the theorem `DefaultsWhole`. If the version can be read and no
  power cut interrupts the first boot, the defaults are loaded.
* `night_window`: the theorem `EveningCut`. For every window and every minute,
  the level is wrong exactly from the on time to midnight of a window that ends on
  the next day; its morning part, and every window within a day, are right.

## 6. Proofs

For every value of the constants that satisfies the named assumptions of the
modules, which TLC evaluates in each run. `PolicyFollowed` has one more,
`DayWindows`: every window ends on the day it begins. Without it the theorem is
false, as `night_window` shows. `DefaultsWhole` assumes that reads do not fail and
begins with a version that does not match.

* `LuminaryProofs`: `TypeCorrect`, `Durability`, `ChangesReported`,
  `RequestsKept`, `SafeModeUntilClock`, `ModesChosen`, `SavesSettled`,
  `DefaultsWhole`.
  Type correctness is inductive by itself; its only arithmetic is that
  `loopsCount` fits its byte because it is reset at `loopsToSend`.
  `DurableSettings` is not inductive: while a save runs the buffer, not the
  EEPROM, agrees with RAM. `DurableInv` adds `SaveUnderWay`, which says slot by
  slot what the buffer and the EEPROM hold at each place of the save.
  The two loop invariants are proved together in `ServiceInv`, which adds
  what is known at each place of an iteration: part 1 is only entered by an
  iteration that transmits, and a request that is pending after its own step
  (`RequestPassed`) came since, so the bypass flag is set.
  `ModesChosen` is an action property; its invariant `ModeParts`, with `DurableInv`,
  says that the mode in RAM is the commanded one, the stored one or a fallback, and
  the commanded one if a command overtook the save under way. `SavesSettled` needs
  that buffer and EEPROM are settled slot by slot as the save reaches them
  (`SettledParts`), and the lemma `SavedSettled` about the conversions themselves.
* `LightControllerProofs`: `EveningCut`, `TypesHold`, `DemoBounded`,
  `PolicyFollowed`. `TypesHold` and
  `DemoBounded` are inductive together (`Typed`): the types need the range of the
  demonstration, and the range needs that rounding moves a value by less than a
  step. `LampFollowsPolicy` is strengthened by `Untorn` - at each place of an
  evaluation that no downlink disturbed, what was read is what the settings still
  are - and by `Hysteresis`. The table of the Readme is compared with the code's
  inside the proof, hour by hour. `EveningCut` is about the operators only; it
  rests on `DayArc` and `NightArc`, which say what an arc of the day is in terms of its ends.
* `EventSlotProofs`: `TypesHold`, `DownlinksInOrder`, `ReplaysEnd`,
  `KeepsPromise` (the refinement to `Mailbox`). The strengthening
  `Current` says that `_info` names the last packet or none, and none once an
  uplink is out.
* `LedHandlerProofs`: `TypesHold`, `SequenceGoesOn`, `SequenceIsShown`,
  `FixedStaysFixed`, for every set of sequence lengths. `Vector` says when the vector
  is torn or new, `Progress` how far each call got whatever interrupted it.
* `TelemetryProofs`: `TypesHold`, `DemoPaced`, `ReportsPaced`, `ReportsDue`,
  `EnergyAccounted` (the refinement to `Ledger`). `PaceParts` and `FloodParts` bound
  the time since the last measurement and since the last report place by place. The
  refinement shows of each action which step of the account it is: the
  measurement is none, since what it adds to the counter was owed already.
  `ReportsDue` bounds the time since the last report for all delays and loop numbers.
  Its invariant `IntervalParts` counts the iterations of the interval that have
  begun (`Begun`; every 'T' may start the count again) and gives each of them the
  longest wait and the time of its radio calls (`Allowance`), the present one what it
  has taken so far (`Passed`). That the maxima in the bound exist is proved from the
  well-foundedness of the order on numbers (`LeastExists`, `GreatestExists`). The
  products of variables are kept in named laws (`AllowanceGrows`, `DrawLaw`,
  `ReportLaw`), which the steps use without seeing the arithmetic.
* `PulseMeterProofs`: `TypesHold`, `ToldOnce`, `LossesNamed`, `FilterReopens`, for
  every width of the words, every divisor and every number of pulses. `Debounce`
  ties the filter's flag, its timeout and the contact together (a closed contact
  that chatters is already in the filter); `Fresh` says that a frame is built
  anew in each pass.

Every safety property the runs check is proved. Only model-checked are the liveness
properties (`RequestsServed`, `EventuallyReported`, `ModeResumed`, `Blinks`,
`EventuallyTold`), since fairness and ENABLED are out of the prover's reach, and the
counterexamples of section 5.

## 7. Not modelled

* The layout of frames and the value of the clock: byte by byte encodings without
  state.
* The configuration helpers of `dot_util.cpp`, which write settings of the binary radio
  library, and its sleep functions, which class C does not use. Both programs call
  the former once, before anything the models begin with.
* The samples of `CurrentSensor`, which are analog data, and which sequence each
  outcome gives to which LED (luminary.cpp:588-618): straight assignments.
* The ISL29011 driver and the example programs, which neither program uses.
* mbed OS and the xDot library: vendored, partly binary, and by far the most of
  the tree's lines. What the firmware sees of them - the order of the callbacks,
  the threads' priorities, the ticker's critical section, failing reads and sends -
  is the environment of the models. The share of all lines of the tree that the
  models stand for is small for that reason; of `luminary.cpp`, of the loop of
  `pulse_meter.cpp` and of the libraries of `src/lib` the two use they stand for
  most.
