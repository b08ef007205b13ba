# THT thermal printer: a TLA+ model of its firmware

This directory is a verification project for the firmware under
`src/D12 3'' Wifi Thermal Printer/`, a label printer on a dual-core JieLi AC79 with USB,
classic Bluetooth (SPP), BLE and WiFi. The tree has 7684 files; almost all of them are the
vendor's SDK. The printer's own logic is in `apps/wifi_story_machine/` (about 6000 lines) and
that is what the project is about. Source paths below are relative to that directory.

## 1. Inventory

### Parts, their state and their operations

| Part | State | Operations |
|---|---|---|
| Receive channels (`PrintDemo/AppDriverMain.c` 28-248) | four linked lists of packets, `USBdp.Status`, `EdrBusy`, `BleBusy` | USB interrupt; SPP, BLE and TCP receive callbacks; `...Task` polls inside the Timer1 interrupt |
| DataManagementTask (`AppDriverMain.c` 250-577) | `method` (the channel that owns the decoder), `printTimeout` | `CopyMemoryTask` per channel, claim, timeout |
| Command decoder (`AppDriverCommand.c` 1-529, `AppNVS.c`) | `command`: buffer with carried-over bytes, decode status, line, block, page number | `PrintDataManagement`, one handler per command, `ZipDecode` |
| Print engine (`AppDriverCommand.c` 554-676, `AppDriverBase.c` 415-713, 930-1030) | `PrintBLink`, `SMP`, `Page` | `Print`, `StepMotorStart`, the Timer4 interrupt with `PageDataCalculation` |
| Sensors (`AppDriverBase.c` 352-377, 596-881) | `Gap`, ADC sample buffers | `GapCalculate`, `PageCompensationByGap`, `HandleLastAuthenticPageGap`, `SensorStatusISR` |
| Head strobe (`AppDriverBase.c` 296-350, 904-926) | `STBState`, `PWMCount` | Timer1 interrupt, `StartPWM` |
| Cover, keys, power (`AppDriverBase.c` 1105-1301) | event group, press counters | `CoverOperation`, `KeyOperation`, `OffHandle` |
| TCP server (`wifi_app_task_Print.c`) | client list, `client_infoCCC`, `OEMQuitFlag`, `SocketTaskRunning` | accept thread, receive thread, `tcp_client_quit`, `disableTCPTask` |
| WiFi manager (`wifi_app_task.c`) | `Wifi_Set_Status`, `startWifiAGN`, `UserCPasswordR`, stored credentials | `wifi_demo_task`, event callback, `WifiStopManual`, `WiFiStartManual` |
| Bluetooth glue (`bt_ble/spp_trans_data.c`, `apps/common/ble/le_net_cfg.c`) | `spp_channel`, connection handle | callbacks, flow control |
| Update, ADC sampling, font | - | vendor demo, a single writer, a table |
| `lib_structure.a` (binary) | the nodes of the lists | `_malloc` append, `_free` drop head, `_copy_memery` copy head, `_malloc_size`, `_realloc` |

### How they interact

    USB host --IRQ--> USBdp.DP --+
    SPP, BLE peers -> lists -----+-> DataManagementTask -> decoder -> PrintBLink -> Timer4 ISR -> head
    TCP thread -----> list ------+        (method)                      ^   Print() in PrintTask
                ^                                                       |
                +---- Timer1 ISR releases / refills; Print() renews printTimeout

All of it is shared memory. There are no locks but `tcp_mutex`, which half of the accesses to the TCP clients take: the
critical sections that once surrounded the lists are commented out (`AppDriverMain.c` 60, 75, 91-92, 99-100), the tasks run on two cores,
and the list library has no lock either.

### What is hard

* Concurrency: four producers, an interrupt poll and one consumer share lists and flags.
* Flow control: each channel is throttled in its own way and by a limit that depends on `method`,
  which changes at any time; forgetting one peer means silence for ever.
* Ownership: one decoder, four channels, a timeout and two tasks that write it.
* Framing: commands, lines and compressed blocks may be cut anywhere.
* Feedback: the decoder stops at 400 lines, the print engine starts above 30.
* Physics: the label's length is measured while the label is being printed, by a sensor several
  labels before the head.
* Flags: WiFi manager and TCP server are tasks that tell each other with plain booleans what to do.

### What makes each part correct

* Channels: no packet lost, doubled or reordered; nobody held or suspended without being released;
  bounded lists; everything decoded in the end.
* Ownership: only the owner feeds the decoder; jobs are not mixed.
* Decoder: the effects of a job do not depend on how it was cut; a bounded remainder; no write past
  the line; no byte sequence of the format blocks it.
* Print engine: the list is one queue, emptied only in a run; no heat at rest; the remaining steps
  never reach 0; a backlog is worked off; every run of the motor ends; only redundant lines are dropped.
* Sensors: the label's length is measured, a page turns at its label and once per label, the end of
  the labels is noticed.
* TCP server: memory is given back once and nothing leads to it afterwards; everybody is accepted, served, released.
* WiFi manager: a request is not forgotten, the newest credentials are tried in the end.
* Power: off only after a release and a long press.

## 2. Modules

| Module | What it is |
|---|---|
| `PrinterPort` | abstract specification of the receive side: channels send, claim a free decoder, deliver in order, release |
| `Channels` | receive channels, Timer1 poll and DataManagementTask |
| `MCChannels` | traffic and limits for TLC |
| `ChannelsProofs` | theorems about `Channels`, checked by TLAPS |
| `CommandFormat` | what a command is: heads, parameters, effects, what a block is worth |
| `CommandStream` | abstract specification of the decoder: a job is one stream of bytes |
| `Decoder`, `MCDecoder` | the command decoder; a scaled command format and the jobs for TLC |
| `JobReading` | what a host means by a job, told from its side: commands, lines as rows of dots, effects |
| `CommandStreamProofs` | what `CommandStream` makes of a job is what its host meant |
| `DecoderProofs` | theorems: types, the line, the remainder, the refinement of `CommandStream`, order, blocks |
| `PrintSpool` | abstract specification of the print list: lines are taken only in a run that began with enough of them |
| `PrintEngine`, `MCPrintEngine`, `PrintEngineProofs` | `Print()`, the motor interrupt and the cover; scaled lengths; theorems |
| `GapSensor`, `MCGapSensor` | labels, gap sensor and the count of steps, with the code's numbers; papers for TLC |
| `GapSensorProofs`, `GapTurnsProofs` | theorems: types, threshold, end of labels, measured length; where the pages turn |
| `TcpServer`, `TcpServerProofs` | the TCP print server; theorems |
| `WifiManager`, `WifiManagerProofs` | the WiFi manager; theorems |

How they fit: `Channels` abstracts the decoder and the engine to "adds up to `MaxLines` lines" and "prints
a line of a backlog"; that the engine does work off a backlog is `BacklogDrains` of `PrintEngine`.
`Decoder` is cut off from both sides by its packets and its line limit. `PrintEngine` has labels at least
as long as the way from the sensor to the head, whose correction is two lines (`GapPasses`); `GapSensor` has
them all, and leaves the data out. `WifiManager` takes the motor as `MotorStarts` and `MotorStops`; that every
run ends is `MotorStops` of `PrintEngine`.

### Channels

Packets of a channel are numbered in the order its host sends them; contents do not matter here.

| Code | Model |
|---|---|
| the list of a channel | `list[c]`, a sequence of numbers |
| USB OUT endpoint, pending interrupt | `ep`, `irq` |
| `USBPrinterReveiveDataIsr` | one action: an interrupt handler, atomic for its core; it does not run inside the Timer1 handler, which has the same priority and core (`usb_device.c` 57, `AppDriverBase.c` 1414) |
| `EdrPrinterReceiveDataISR`, `BLEPrinterReceiveDataISR`, `WiFiPrinterReceiveDataTask` | `RxReceive` (the chunk arrives), `RxAppend` once per 64 bytes, `RxCheck`, `RxHold`, `RxMark` (or `RxWait`): these run in tasks, so each access to shared state is a step |
| Timer1 poll | `TimerStart`, `TimerPollUsb`, `TimerSave`, `TimerResume`, `TimerPollFlow`, `TimerOpen`, `TimerClear` |
| `CopyMemoryTask`, `DataManagementTask` | `TaskSwitch`, `TaskPeek`, `TaskRefused`, `TaskFeed`, `TaskEmpty` |
| `printTimeout` | `elapsed`, the ticks since it was written |
| decoder and print engine | `TaskFeed` adds up to `MaxLines` lines, `PrintLine` takes one, `PrintStamp` renews the timeout |

The operations on these lists are atomic steps. They come from `lib_structure.a`, a binary that takes no lock;
two cores in the middle of the same operation are outside the model. (The TCP server's list of clients is another
kind, see below.)

### Decoder

A job is a byte string together with the effects its commands should have; the specification
cuts it into packets in every way. `buf` is the undecoded part of `command.Buffer`; each step is one
round of `PrintDataProcesser`: `IdleFound`, `IdleSkip`, `Set`, `LineByte`, `LineRepeat` and so on,
and `ReturnModle` when a round lacks bytes. `ZipDecode` runs a second `PrintDataProcesser` inside
the first, on inflated output; here `unzip` and `zipOut` stand for the outer one. The lists of heads
and parameter lengths are constants, and so is `Inflate`, the zlib function.

`CommandStream` is the same decoder without packets: its `stream` is all that is not decoded yet, in `Decoder` the
remainder, what `ZipDecode` has inflated and not handed over, and the unsent rest of the job (`Undecoded`). `Deliver`,
`ReturnModle`, `ZipDecode`, `ZipDone` and `PrintLine` are stutters, `CommandZipFetchData` puts the content of a block
in its place (`Expand`), and a failed inflate gives an open command up (`GiveUp`). It promises less in one
place: a head as long as `MaxHead` may be skipped (finding 3).

A setting's effect is its decoded value; what is then done with it is not modelled. A host starts a
new packet after a compressed block (`job.blocks`): the code decodes bytes behind a block
before the block (see the hazards), and no document says what hosts may do.

### PrintEngine

A line is the number of the page it belongs to; dots do not matter here.

| Code | Model |
|---|---|
| `PrintBLink`, `command.PageNum`, `PageEndFlag` | `list`, `decPage`, `ended`; the decoder is `CommandSetPageStart`, `WriteLine`, `CommandSetPageEnd` |
| `Page`, `Gap` | `page`, `remain`, `eliminate`, `sensorErr`, `continue`; `lockPage`, `labelLen`, `paperPos` |
| `SMP` | `status`, `headPrint`, `suspend`, `finished`; `slow` counts the deceleration |
| `Timer4CallBackMotor` | `TickPage` (which page?), `TickDrop` and `TickDropLast` (a round of a removal loop each), `TickSize`, `TickLine`, `TickMove`: each access to the list is a step, because the decoder appends on the other core |
| `Print()` | `pc` and one action per wait, branch or access to shared state; `CoverOperation` is `CoverIsOpen`, `CoverCloses`, `CoverIsClosed` |
| `ContinueMode`, `FixedStepsMode` (binary) | `Rotate`: a suspended print run ends within `Acc` steps, a move of the paper is one step |

Gaps reach the sensor, labels run out, paper and cover fail at any step. What the head's latch holds is `latch`:
`StopStepMotor` blanks it after a print run and only then, and Timer1 goes on strobing.

### GapSensor

One action is one step of a print run, with the code's numbers (105 steps from the sensor to the head,
tolerance 40, 16 samples). The paper is the environment: equal labels with a gap between them, perhaps a
dark spot, then bare backing. `Learn` is the learned threshold (`insertSorted`: the number of dark and light
samples stands for the sorted buffers), `Counted` is `AuthenticPageMangement`, `PageCompensationByGap` the
correction, `BeginGap`, `EndGap`, `StayInGap`, `StayOnLabel` the four ways through `GapCalculate`. A run may stop
for want of data and go on (`StopAndContinue`), and steps that only remove redundant lines are not counted
(`StepBehind`). Three variables are history or counters for the bounds only.

### TcpServer

Connections are numbered as they arrive, and the number stands for the address of the client's entry. The accept
thread, the receive thread and the key task each have a program counter, and each call of `tcp_client_quit` has one of
its own (`quitPc`), because two threads call it.

| Code | Model |
|---|---|
| `client_head`, the `entry` of each client | `nxt`, `prv` over `Node`: the inline code of `include_lib/system/generic/list.h`, one step per access that another thread can come between |
| `tcp_mutex` | held by the search in `walk` and by `list_add_tail` in `chain` and `last` (`RxGet`, `AccLink` wait for it); `list_del` does not take it |
| `get_tcp_client_info` | `RxGet`, `RxWalk` (an entry each), `RxFound` |
| `list_add_tail` | `AccLink` reads `head->prev`, `AccChain` writes it and the new entry, `AccLast` chains the new entry |
| `tcp_client_quit` | `QuitTest`, `QuitSet`, `QuitRead`, `QuitBack`, `QuitForth`, `QuitSelf`, `QuitFree` |
| `client_infoCCC`, `OEMQuitFlag`, `SocketTaskRunning` | `cur`, `quitFlag`, `running` |
| `calloc`, `free` | an entry starts with `NULL` links; `freed[c]` counts how often it was given back |

Three things are taken as given: the compiler keeps the order of the accesses in `list.h`; memory that was given back
keeps its contents and is not handed out again; a client closes its connection some day (`RxFails`).

`met` is a history variable. `"list"` says that `list_del` ran while `list_add_tail` did, `"quit"` that the key task was in
`tcp_client_quit` while the receive thread was searching or in it as well. The code protects against neither, and the
properties say what it does in all other runs.

### WifiManager

Credentials are numbered as they are stored. `wifi_demo_task`, `wifi_event_callback` and `CommandNVSWiFi` have a
program counter each, and each write of `Wifi_Set_Status` (`off`) or `startWifiAGN` (`start`) is a step.
The stack connects, fails, times out or does not find the access point, and a connection may be lost. For the last
two the callback only notifies the application (`link = "lost"`, lines 385-412 and 439-443). The application may answer by entering the
station mode again with the stored credentials (`ReturnStaMode`; `app_music.c` 4299 does so when it handles the event of
a lost connection, and so does the server that assigns an address, 476). Nothing relies on it.

## 3. Runs

| Run | Question | Result |
|---|---|---|
| `ChannelsServe` | safety and liveness of `Channels`, and that it implements `PrinterPort` | holds, 525 568 states |
| `ChannelsJobs` | can two jobs print at the same time? (`version_readme.txt:30`) | violated |
| `ChannelsBle` | is a BLE peer that is marked busy really held? (`ble_api.h:1269`) | violated |
| `DecoderCuts` | does every job decode the same however it is cut? | holds, 61 522 states |
| `DecoderNvs` | ... also when a packet ends behind `NVS-WiFi`? (`AppDriverCommand.c:286,303`) | violated |
| `PrintSafe` | safety and liveness of `PrintEngine`, and that it implements `PrintSpool` | holds, 737 196 states |
| `PrintLost` | are only redundant lines removed? (`AppDriverBase.c:432`) | violated |
| `GapLabels` | does every label get its page, at its place, once? | holds, 4 528 156 states |
| `GapTurns` | ... also a label of 98 steps? (`AppDriverBase.c:595,1080`) | violated |
| `TcpServe` | safety and liveness of the TCP server | holds, 273 571 states |
| `TcpDisabled` | is nobody served after `disableTCPTask`? (`AppDriverBase.c:1205`) | violated |
| `WifiRetry` | are requests and association timeouts followed by an attempt? | holds, 128 930 states |

### Properties of `Channels`

* `ExactlyOnceInOrder`: what was decoded, is in the list and is on its way adds up to what was sent,
  and the list holds the next numbers. It spans the host, the interrupt, the timer and the task.
* `UsbNotStranded`, `SppHeldIsMarked`: a throttled peer always has something that will release it.
* `SppSectionsDisjoint`: `EdrBusy` is tested and set without a lock by a task and an interrupt, and
  still excludes them, because each side enters only on the value the other one leaves.
* `ListsBounded`: the USB and TCP lists stay within a packet, or a receive, of the owner's limit,
  although the limit drops under them. The SPP list has no such bound (a reconnection finds
  `EdrBusy` set and is not held again), nor has BLE (run `ChannelsBle`).
* `OwnerFeeds`, `ImplementsPort`: the decoder is only ever fed by its owner, in order.
* `EverythingDelivered`, `PeersReleased`: liveness, over all throttling, refusals, timeouts and
  reconnections. The second is a property of its own: a peer that is held for ever sends nothing more, and
  nothing it sent is missing.

### Properties of `Decoder`

* `DecodedInOrder`, `JobCompleted`: what was decoded is a prefix of what the job says, however it was cut, and
  in the end all of it, although inflate may fail in a block and the line limit refuses inside one.
* `RemainderSmall`, `DotsInLine`: the carried-over bytes stay below a head or a parameter, and no dot is set
  behind the line. Behind a block that inflate failed on, what is left may be as long as the parameters of the
  command that it cut off.
* `ImplementsStream`: the cuts do not show. It says of every step what `DecodedInOrder` says of the result, and for
  streams of commands that no list of expected effects describes.
* `BlocksStandAlone`: no block is decoded inside another, or with bytes of its packet behind it. The decoder needs it
  for its order; that it holds rests on where hosts end their packets and on how little is carried over.

### Properties of `PrintEngine`

* `HeatsOnlyInPrintRun`: whenever no print run is under way the latch is blank. Nothing else keeps resting paper
  from being heated, for `HeadPrint` stays set and Timer1 goes on.
* `TaskActsAtRest`, `ImplementsSpool`: `Print()` and the interrupt take turns at the list although neither
  locks it; together they are a queue that is only emptied in a run that began with enough lines.
* `BacklogDrains`, `MotorStops`: no suspended run, retry loop, sensor error or redundant page keeps the
  decoder waiting, unless the cover stays open.
* `OnlyRedundantRemoved` is violated (finding 4).

The model shows more that no document speaks of. The label counter can be two ahead of the decoder after runs
that met only redundant data. A sensor error returns before `ContinuePrint` is reset
(`AppDriverCommand.c` 597, 605). The second look at the page end (616) leaves the number of lines of before the
run in `NodeCount`. Up to 30 lines stay in the list for the next job.

### Properties of `GapSensor`

* `LabelMeasured`, `ThresholdApart`: what is learned from the paper is right, with spots and a stop. With three
  stops TLC finds a label of 70 steps with a gap of 16 measured one step too short: each stop delays the next
  measurement, and the head may be over a gap twice (638) before it.
* `LengthMeasured` says what holds with any number of stops: the length changes only to a whole label or, when a stop
  noted a gap's end instead of its begin, to a label without its gap, or by less than 20 steps over a gap (638). A
  spot, or the difference of a count before and one behind a stop's reset, never shows up as a length.
* `TurnsAtLabel`, `OneTurnPerLabel`, `EveryLabelTurns`: from `Settling` gaps on, a page turns within a
  millimetre of where a label begins, once per label, and the head never goes further than a label and a millimetre
  without a turn. Labels of 98 to 104 steps (`Doubtful`) are exempt from the second (finding 5), and the papers of the run
  have none of the lengths that the next paragraph names.
* `EndOfLabelsSeen`: once 273 steps of backing have passed the sensor the run is suspended, unless it stopped over the
  backing before (`past`). After such a stop it is not: `ContinuePrint` clears `GapIn`, `CountGap` stays 0xFF, so no gap
  begins again and the run goes on without labels.

The papers are chosen where these hold. The arithmetic has limits that no document names: labels shorter than
about 42 steps are as long as the tolerance of 40; up to about 56 steps a stop with a gap under the sensor leaves
the count off by a gap for good (613); from 105 to 111 steps uncounted steps add up; gaps shorter than 16 steps fill the
dark samples with light ones.

### Properties of `TcpServer`

* `TypeOK` says that no thread follows a link that was never set, whatever meets what.
* `FreedOnce`: memory is given back once and no link of a live entry leads to it, unless the key task quit a client while
  the receive thread searched or quit one; the links back also need that `list_del` did not meet `list_add_tail`. Until the
  key is pressed the receive thread uses no entry that was given back, from the copy to `tcp_client_quit`. One use is left
  out, and it is there: on every disconnect line 166 reads the entry that line 163 freed (`RxReport`). It only chooses
  a log line.
* `BusyMeansServed`, `ConnectionIsAccepted`, `AcceptedIsServed`: the flag that stops the accept thread is set
  only while somebody is served, and everybody gets his turn, also when several are in the list, of
  which `get_tcp_client_info` takes the last. The second holds whatever `list_del` met; the third does not.

What the exceptions keep out is in the code; without them TLC finds it. `list_del` (280) reads the neighbours of the only
entry, `list_add_tail` (213) has read the same entry as the last one: the list is empty afterwards and the new client,
chained to the deleted one, is neither served nor given back, as are those who come later. The accept thread writes a link of an
entry that was freed meanwhile. With the key, both callers pass the test of `OEMQuitFlag` (275) and free the client twice; or the
key task deletes the entry on which the search stands, which then points to itself, and the search goes round for ever
with the mutex, so nobody is accepted any more. No document speaks of it, so these are hazards and not findings.

### Properties of `WifiManager`

* `RequestPending`: credentials that were not tried yet have a request on its way, whatever restart, failure or
  timeout is going on beside it. One case is exempt (`StoppedByFailure`): a failed association that is being
  reported when the request comes stops it as well, because `WifiStopManual` clears `startWifiAGN`. No
  document says it should not.
* `LatestTried`, `TriedAgain`: the newest credentials are tried in the end, and an association timeout (453) is followed by
  a next attempt. Nothing is said of the other ends: an association failure stops WiFi, and an access point that is not
  found (439) or was lost (385) is only notified.

### Bounds

*Channels.* The owner's limits of 500, 600 and 400 become 2, the others' limit and `RestartRxCount`
(50 and 50) become 1, the print limit 1 with a run starting above 0, the timeout 1 tick and
`RestLimit` 1. Only comparisons of a length with a limit matter, and every one of them is crossed in both
directions: three or four packets pass the limit of a channel that owns the decoder and of one that
does not. Seven traffic mixes (at most four packets, on up to three channels) contain each throttled channel
past its limit and the channels in competition. Chunks are up to two packets, so a list overshoots its
limit by more than one. One SPP reconnection and one renewal of the timeout per printed line are allowed;
both reset all they touch, so a second one meets the same states. The theorems of section 5 hold for all values.

*Decoder.* A byte has a flag and two lower bits instead of seven, a line nine dots instead of 576;
heads have 2, 3 and 4 bytes instead of 2, 4 or 6, and 8, keep their shared first bytes, and the longest
one has `MaxHead` bytes, as in the code. Jobs are all sequences of two commands out of 13 and of three out of
the six that draw (lines with repetitions that overrun, page ends, two blocks and a corrupt one), each
cut into packets of 1 to 5 bytes in every way. The print list refuses at 2 lines, so refusals
happen between packets and inside blocks.

*PrintEngine.* Start at more than 3 lines, limit 5, deceleration of 2 steps, label end below 3 steps, one line
removed before the interrupt gives up, height 6 or 5, distance 4: the order is that of the code's
8 < 16 < 30 < 105 < 400, except that 16 and 30 fall together; the code's 25 removed lines and 2400 steps
become 1 and 6. Every comparison still goes both ways. Seven lines on up to three pages fill the list to its limit, leave lines
over and are redundant for their label; one gap and one fault may come at any step, both write all
they write at once.

*GapSensor.* The code's numbers. Six papers: two labels, one label and a bit, nearly one label and more than one
label between sensor and head, gaps of 2 and 2.5 mm, with and without a spot, seven labels and the backing.
`MaxBacking` is a little above the 270 steps after which the end is noticed. Each paper may stop once, at any
step, and leave out one step per label; a second stop before the count has settled is covered by `Settling`.

*TcpServer.* Three clients, two of which the stack holds while the first is served: the smallest instance in which
the list has two entries, one of them is taken first, and a third is added or waits; the neighbours `list_del` reads may
be the head, an entry or one of each. The theorems hold for any number.

*WifiManager.* Three requests and two runs of the motor. A request beside each of the task's steps, and another
beside the restart it caused, need two; the safety theorems hold for any number.

`CHECK_DEADLOCK FALSE` stands where the system may rest: the host has sent its job (`DecoderCuts`,
`DecoderNvs`), the paper is used up (`GapLabels`, `GapTurns`), WiFi is connected or stopped and nobody asks for
anything (`WifiRetry`).

### Fairness

* `Task`, `Timer`, `RxStep`: weak. They are FreeRTOS tasks on their own or a periodic interrupt,
  and none waits for a lock.
* `USBPrinterReveiveDataIsr`: strong. It is pending until taken, but masked while the Timer1 handler,
  which keeps coming, is running; it is taken when the handler returns.
* `lines > StartLines /\ PrintLine`: the print engine is only assumed to work on a backlog it starts
  a run for (`NodeCount > PrintLinkedListSP`). Fewer lines may stay for ever.
* `Timer4CallBackMotor`, `PrintTask` (`PrintEngine`): weak. The timer fires while the motor runs, and the task
  is scheduled. The decoder, the paper and the user owe nothing; a cover that stays open excuses
  `BacklogDrains`.
* `Accept`, `Receive`, `Key` (`TcpServer`): weak. The threads are scheduled, and a client closes its
  connection some day (`RxFails`); the accept thread may end on an error (`MayFail`), which it does for good. `AccLink`:
  strong. The search takes the mutex again and again but sleeps in between (`os_time_dly(5)`, 143), and the thread that
  waits for it gets it then.
* `Manager`, `Callback`, `Request` (`WifiManager`): weak, tasks; `Stack`: an attempt ends
  (`wifi_set_sta_connect_timeout`); `Disconnected` and `ReturnStaMode`: none; `MotorStops`: what `PrintEngine` shows.
* Hosts: none in `Channels`. In `Decoder` the host sends the whole of its job.

## 4. Findings

1. Two jobs are mixed (`ChannelsJobs`). A claim of the decoder does not write `printTimeout`
   (`AppDriverMain.c` 365-397); the owner can be dropped as soon as its list is empty, in
   the middle of its job, and the next channel's bytes continue it. `version_readme.txt` 30 promises simultaneous
   printing without issues, and 40-45 reports what looks like the symptom. The run assumes hosts that never
   pause inside a job.
2. BLE is never throttled (`ChannelsBle`): `HCI_le_Printer` is never assigned.
3. A head that ends exactly at a packet boundary is skipped if it is the longest one
   (`DecoderNvs`): a byte is skipped when 8 bytes are there, a head of 8 is compared when 9 are.
4. A line is lost behind redundant ones (`PrintLost`). Both removal loops look at a line by removing it
   (`CopyPageNumISR`); when its page is the next one the loop ends, and the line is gone.
5. A label of 98 steps gets two pages (`GapTurns`): it is as long as the way from the sensor to the head less the
   sensor's delay, so the gap is seen just after the page turned, and the correction (`AppDriverBase.c`
   657-671) sets the remaining steps to 1.
6. `disableTCPTask` disables nothing (`TcpDisabled`): it ends the current client, and clears the flag that kept the next
   one waiting.

## 5. Proofs

`ChannelsProofs` proves for every traffic, limit, chunk size, timeout and number of
reconnections, that is, from `ChannelsAssumption` alone:

| Theorem | Property |
|---|---|
| `TypeCorrect` | `TypeOK` |
| `OwnerFeedsAlways` | `OwnerFeeds` |
| `SppExclusion` | `SppSectionsDisjoint` |
| `SppNotForgotten` | `SppHeldIsMarked` |
| `ExactlyOnce` | `ExactlyOnceInOrder` |
| `UsbNeverStranded` | `UsbNotStranded` |
| `ListsStayBounded` | `ListsBounded` |
| `PortImplemented` | `ImplementsPort` |

The argument has three layers, each with its own inductive invariant.

1. `BaseInv` is `TypeOK`, `RxInv` (a receive task in `append` has something to append) and `TaskInv`
   (in `feed` the task serves the owner of the decoder and holds the head of its list; an idle pass
   continues only while nobody owns it). The properties alone are not inductive: that `TaskFeed`
   frees the packet it decoded needs that nobody else removes from a list.
2. `SppInv` relates the program counters of receiver and timer to `EdrBusy`: in `hold` and `mark` it is
   clear, in `open` and `clear` it is set, and a held peer is marked. Exclusion follows: the
   two sides need opposite values.
3. `OrderInv` says that each list holds consecutive numbers (`Numbered`) between what was taken and
   what is on its way. For USB it says in addition where the next packet is: in the endpoint, in the
   timer's hands, or not sent (`UsbInv`), and that a suspended endpoint is not interrupted. It needs
   that the interrupt does not nest inside the timer's poll, where it would append packet n+1 between the
   timer's read of packet n and its append; the critical section there is commented out (`AppDriverMain.c` 91-100), and the
   equal priorities take its place. Refinement follows by mapping each step
   to a step of `PrinterPort` or a stutter.

`PrintEngineProofs` proves `TypeCorrect`, `HeatsInPrintRunsOnly`, `TaskActsBesideRestingMotor` and
`EngineImplementsSpool` (`ImplementsSpool`) for all limits, heights, lengths and numbers of lines, pages, gaps and
faults, from `PrintEngineAssumption` (the order of the constants, `1 < Acc < StartLines < Limit`). `StageInv` says
where `Print()` is while the motor runs and where the interrupt is; `CountInv` that a list that was counted still
holds its lines (nobody else pops), which is what lets a run begin in `PrintSpool` long after the count.

`TcpServerProofs` proves `TypeCorrect`, `FreedOnceAlways` and `BusyMeansServedAlways` for any number of clients and any
backlog. The invariant comes in parts that lose their hold one after the other:

* whatever meets what: where the callers of `tcp_client_quit` are (`CallInv`), that entries are added in the order of
  arrival (`QueueInv`), that a link or a thread leads to entries whose links are set (`LinkInv`), and that nobody comes
  to an entry before `list_add_tail` is done with it (`FreshInv`). `TypeOK` and `BusyMeansServed` need no more;
* until the key task deletes an entry under the receive thread: one caller at a time is past the test of the flag
  (`QuitInv`), the entries come in the order of their numbers (`OrderInv`), and the links forward lead to entries of
  the list (`ForthInv`). Because of the order no entry is its own neighbour in `list_del`;
* until `list_del` also meets `list_add_tail`: the links back (`BackInv`).

A meeting is never forgotten (`MetGrows`), so each part is preserved on its own.

`DecoderProofs` proves, for all jobs, cuts, line lengths and command formats, and under `InflateTyped` (`inflate()`
returns bytes):

| Theorem | Property | Under |
|---|---|---|
| `TypeCorrect` | `TypeOK` | |
| `DotsInLineAlways` | `DotsInLine` | |
| `RemainderSmallAlways` | `RemainderSmall` | `BlocksStandAlone` |
| `CutsDoNotShow` | `ImplementsStream` | `BlocksStandAlone` |
| `BlocksStandAloneAlways` | `BlocksStandAlone` | `Legible(job)`, `HeadsApart`, `BlocksOutgrowRemainders` |
| `DecodedInOrderAlways` | `DecodedInOrder` | the same |
| `LegibleStream` | `ImplementsStream`, `RemainderSmall` | the same |

`LineInv` bounds the dots only while a line is being decoded; that every way out of a line leaves the bound true, an
inflate error in its middle among them, makes the types inductive. `BlocksStandAlone` is a hypothesis of two theorems
because it is up to the host: without it bytes behind a block are decoded before its content (325), so the order does
show. The last three theorems say which jobs guarantee it.

The refinement compares the undecoded bytes before and after each step. Its invariant, `BlockInv`, says that inflated
bytes are only there while a block is being decoded; that the last byte of a block leaves none of its packet in the
buffer is `StandsAlone`. A step that consumes n bytes of `buf` consumes the first n of the stream
(`SubSeqOfConcat1`); a delivery or a piece of a block only moves the border inside the stream (`DeliverHidden`,
`DecodeHidden`). Where the decoder compares heads with what is in the buffer, the stream compares with all that
follows: `IdleSkip` maps to `Skip` because a head that does not begin the buffer, with `MaxHead` bytes there, does not
begin the stream, unless it is `MaxHead` long.

`DecodedInOrder` compares with the effects of a whole job, and what a job means is an induction over its bytes, which
the provers do not do. `JobReading` states the meaning without one. A `Reading` is a set of places (the bytes to come, the
page, how many effects came before), and from each place one comes to another of them: by a command with the effect
that is due, by a byte that begins none, or by a block in whose place its content then stands. A line is a row of dots
with two witnesses, the column and whether a count is due behind each of its bytes. A job is `Legible` if it is one of
the places of a reading; each block then ends a packet (`Ends`) and holds no other block. `MCDecoder` builds the reading
of each of its jobs, and TLC evaluates (`LegibleJobs`) that it is one, for all jobs without a corrupt block.

The invariant, `OrderInv`, has two halves, about one reading.

1. `Reads` (`CommandStreamProofs`) says where in the meaning the stream is: at a place, behind a head whose `After` leads
   to one, `i` bytes into a line whose dots so far are the black ones (`InLine`), or inside a block whose content leads on
   (`InBlock`). Each step of the stream keeps it (`ReadsNext`); the steps of a failed inflate have no place in it.
2. `Alone` is what `Reads` needs of the packets. While no block is being inflated, no packet that came in reaches past a
   block that is still to come (`Ahead`), and the packet in which a block has begun ends with it at the latest
   (`Coming`). While one is, what is left of it has no block in it (`Inside`). A delivery keeps `Ahead` because a
   decoder that waits for more has less in its buffer than the shortest block with its head and size
   (`ShortRemainder`), so a block in the buffer is never overtaken by a packet unseen.

The hypotheses are true of `CMDHead`. `HeadsApart`: no head begins another one. `BlocksOutgrowRemainders`: the shortest
block has 6 + 3 bytes ("ANGENL", two of size, one of content), `MAxHeadLength` is 8, and parameters wait for one byte more
than they take. TLC evaluates both for the format of the runs. Heads of `MaxHead` bytes (`NVS-WiFi`) are not in a
legible job: run `DecoderNvs` shows one being missed (finding 3).

`GapSensorProofs` proves `TypeCorrect` for every paper, distance and signal. The count of remaining steps is
decremented before it is compared with 0, so it must be positive behind every branch of `PageCompensationByGap`; each of
the branches has a lemma. The lemma of the drag (`DraggedTyped`) shows that the label that is begun is the first one
whose end lies behind the sensor's sight.

It proves four more for every number of labels, stops and late steps and every `Readable` paper: the sensor starts on
a label with at least 18 steps of it to come (a gap that is in the sensor from the start cannot teach it), gaps
have 16 steps or more, which are the 2 mm of the smallest gap, and label and gap differ by 5 of the
1023 the ADC has. The papers of the run are readable; with a gap of 12 steps `ThresholdApart` is false.

* `ThresholdApartAlways` (`ThresholdApart`): `LearnInv` knows the ring, sample by sample, as what the paper shows
  (`Ring`), and how many samples each side has had. The light side is full before the first label ends; in the gap each
  sample is dark, and when the sixteenth arrives the ring holds at most two light ones. `MiddleApart` turns 14 of 16 on
  both sides into a quarter of the range. A spot counts as two dark samples (`SpotsBefore`), which is why 14.
* `LengthMeasuredAlways` (`LengthMeasured`), for papers that are also `Plain`: a label is longer than its gap by 8 steps,
  and its spot is as far from the gap before it and 4 from the one behind it, so that the shift register runs empty
  between them. `FillInv` says how full the register is at each place of the paper, whatever the run did: a stop
  moves the counts but neither the paper nor the register. From it `MeasureInv` follows: since an edge was noted, the
  step count has advanced as far as the sensor along the label, from the third dark sample of a gap or the fifth
  light one behind it. `CompensationLen` bounds what the correction takes away. The papers of the run are plain.
* `EndOfLabelsSeenAlways` (`EndOfLabelsSeen`), on plain papers: `OnBacking` reads off `FillInv` and `MeasureInv` that the third
  step of the backing begins a gap and that none ends behind it. From there on, unless the run stops, `EndInv` ties
  `CountLastAuthenticPageGap` to the steps since: the test for 80 steps then never keeps the one for 270 from firing.
* `LabelMeasuredUnspoiled` (`LabelMeasured`), on plain papers, for the states before the first stop, and on labels at
  least two steps longer than the way to the head and a gap for all states. `EdgeInv`: until a stop each noted edge is
  the third sample of a gap, so the first length is the label's. `LongInv`: while a gap is in the sensor the head is
  not, so a long label's length is never shortened. On a short one the correction takes up to 19 steps,
  which the gap must cover: 17 steps and the two of the property.

`GapTurnsProofs` proves `TurnsAtLabel`, `OneTurnPerLabel` and `EveryLabelTurns` on `Readable`, `Plain` papers for as long
as the run is `Undisturbed`: it has not stopped, the sensor is before the backing, and the labels are `Roomy`. That is:
the head has passed a gap's end, with 8 steps to spare, before the next gap's end is seen, the steps that
are not counted are over by then, and two labels fit into `MaxHeight`. The papers of 150 steps of the runs are such
papers, with spot and late step; label counts, lengths, the late steps and the signal are arbitrary. The argument goes along one
label. `EndSeen`: the end of every gap is seen, and nothing else is taken for one, exactly seven steps behind it. There
`LongLabel` sets the count to `Distance`. `HeadInv` is the strengthening: from there to the turn the count is the way
that is left, to the step; behind the turn it is at least the way to the next correction, so it cannot reach 0 before. The first
label is a case of its own (`First`): nothing has turned, and `MaxHeight` lasts to the first gap. `LockInv`, that a
locked page is a suspended run, keeps the turns from being skipped. `TurnsHere` reads the place of the head off `HeadInv`.
Under these hypotheses the turns are exactly a label apart; the eight steps of the properties are needed for short
labels and stops.

`WifiManagerProofs` proves `TypeCorrect` and `NeverForgotten` (`RequestPending`) for any number of requests and runs.
`RequestPending` alone is not inductive. `RadioInv` knows who turned the radio off under a task that is about to use it,
and `FlagInv` that a task that is behind the stored credentials will leave its loop (`off`) and, once all writers are
done, start again.

Only model-checked: liveness (`EverythingDelivered`, `PeersReleased`, `JobCompleted`, `BacklogDrains`, `MotorStops`,
`AcceptedIsServed`, `ConnectionIsAccepted`, `LatestTried`, `TriedAgain`: TLAPS has no fairness); `DecodedInOrder`
and `BlocksStandAlone` for jobs with a block that inflate fails on, whose effects depend on where inflate gives up;
that the jobs a host would send are legible, an induction over data; and what `LabelMeasured`, `TurnsAtLabel`,
`OneTurnPerLabel` and `EveryLabelTurns` of `GapSensor` say of runs with stops, of short labels and of the steps behind
the last one. Those hold only on papers within the limits named in section 3 and with few stops: they are arithmetic
about given lengths.

## 6. Not modelled

* The strobe's polarity and duty (`Timer1CallBackMotor` 312-350, `StartPWM`) and the speed table: register writes, and
  a table that only the binary library reads.
* `OffHandle` and the LEDs: a counter of one task that nothing else writes.
* What a setting does once it has its value (`syscfg_write`, restarting advertising); the WiFi credentials are in
  `WifiManager`.
* Find-edge mode of the gap sensor: no live statement starts it.
* WiFi scanning, SmartConfig, DHCP and the voice prompts of `app_music`: vendor code that does not touch the two flags.
* Firmware update, ADC sampling, self-test page and font: a vendor demo, a single writer, straight-line drawing.
  (That the self-test writes into the print list from the key task is listed as a hazard.)
* Vendor SDK, zlib, lwIP, the Bluetooth stack: third-party code; where the printer calls them, their effect is an
  external action. They are most of the tree, which is why the mapped lines are a small share of all its lines.
* Torn operations on the lists of packets and lines on two cores: their code is in `lib_structure.a`, a binary. (The list of
  TCP clients is inline code, and modelled access by access.)

## 7. Plan

Done: `Channels`, `PrinterPort`, `Decoder`, `PrintEngine`, `PrintSpool`, `GapSensor`, `TcpServer`, `WifiManager`, with the
proofs above. Left:

1. `GapSensor`: `TurnsAtLabel` on labels shorter than the way to the head, where the count is made of several labels
   (`Ahead`), from a `HeadInv` with the number of gaps in between.
2. Composition of `Channels` and `Decoder`: an owner dropped in the middle of a command.
3. The self-test as a second writer of the print list.
