------------------------------ MODULE Channels ------------------------------
(***************************************************************************)
(* The receive side of the printer (PrintDemo/AppDriverMain.c): four       *)
(* communication channels fill one linked list each, DataManagementTask    *)
(* drains the list of the channel that owns the decoder, and the USB,      *)
(* classic Bluetooth (SPP), BLE and TCP receivers are throttled when their *)
(* list grows too long.                                                    *)
(*                                                                         *)
(* Four kinds of actors interleave, on two cores and without a lock:       *)
(*   - the hosts and the USB interrupt                USBPrinterReveive... *)
(*   - the receive tasks of SPP, BLE and TCP          Rx...                *)
(*   - the poll inside the Timer1 interrupt           Timer...             *)
(*   - DataManagementTask                             Task...              *)
(* The packets of a channel are numbered 1, 2, ... in the order its host   *)
(* sends them.  The list operations of lib_structure.a are atomic steps.   *)
(***************************************************************************)
EXTENDS Naturals, Sequences

CONSTANTS
  Traffic,     \* bound: set of [Chan -> Nat], the packets the hosts send in all
  JobLen,      \* packets of one print job
  OwnerLimit,  \* [Chan -> Nat]: longest list while the channel owns the decoder, or nobody does
  OtherLimit,  \* ... while another channel owns it
  Restart,     \* RestartRxCount: a list shorter than this is refilled
  PrintLimit,  \* PrintLinkedListCount: the decoder refuses input above it
  StartLines,  \* PrintLinkedListSP: a print run starts above it
  MaxLines,    \* bound: print lines one packet decodes to
  MaxChunks,   \* bound: 64-byte packets in one Bluetooth or TCP receive
  RestLimit,   \* packets one call of CopyMemoryTask decodes before it rests
  Timeout,     \* ticks of silence after which the owner is dropped
  MaxStamps,   \* bound: times Print() renews the timeout after a print run
  MaxDrops     \* bound: SPP disconnections

Chan == {"USB", "SPP", "BLE", "WIFI"}
Flow == {"SPP", "BLE"}              \* throttled by a flow control command
Stream == Flow \cup {"WIFI"}        \* filled by a receive task
IDLE == "IDLE"                      \* printMethod

ASSUME ChannelsAssumption ==
  /\ Traffic \subseteq [Chan -> Nat]
  /\ JobLen \in Nat \ {0}
  /\ OwnerLimit \in [Chan -> Nat \ {0}]
  /\ OtherLimit \in Nat /\ Restart \in Nat
  /\ PrintLimit \in Nat /\ StartLines \in Nat /\ MaxLines \in Nat
  /\ RestLimit \in Nat /\ Timeout \in Nat /\ MaxStamps \in Nat /\ MaxDrops \in Nat
  /\ MaxChunks \in Nat \ {0}
  /\ \A c \in Chan : OtherLimit <= OwnerLimit[c]
  /\ Restart <= OtherLimit          \* 50 and 50

VARIABLES
  sent,       \* sent[c]: packets the host of c has sent
  ep,         \* packet in the USB endpoint, 0 when it is empty
  irq,        \* the USB interrupt is pending
  usbStatus,  \* USBdp.Status
  rxPc,       \* rxPc[c]: where the receive task of c is
  rxLeft,     \* rxLeft[c]: packets it has yet to append
  busy,       \* EdrBusy, BleBusy
  held,       \* held[c]: the peer of c is throttled
  sppChannel, \* spp_channel is set
  drops,      \* SPP disconnections so far
  list,       \* USBdp.DP, PEdrDP, PBLEDP, PWiFiPrinterDP
  timerPc,    \* where the Timer1 handler is
  timerCh,    \* the channel it serves
  tbuf,       \* packet the Timer1 handler has read and not appended yet
  method,     \* the channel that owns the decoder
  elapsed,    \* ticks since printTimeout, up to Timeout
  pc,         \* where DataManagementTask is
  cur,        \* the channel CopyMemoryTask was called for
  pass,       \* it was called by an idle pass over the channels
  count,      \* packets this call has decoded
  dp,         \* the packet it has copied, 0 when none
  lines,      \* nodes of PrintBLink
  stamps,     \* renewals of printTimeout Print() may still do
  taken       \* taken[c]: the last packet of c given to the decoder

hostVars  == <<sent, sppChannel, drops>>
usbVars   == <<ep, irq, usbStatus>>
rxVars    == <<rxPc, rxLeft>>
flowVars  == <<rxVars, busy, held>>
timerVars == <<timerPc, timerCh, tbuf>>
callVars  == <<pc, cur, pass, count, dp>>
taskVars  == <<callVars, method, taken>>
printVars == <<elapsed, lines, stamps>>
vars == <<hostVars, usbVars, flowVars, timerVars, taskVars, printVars, list>>

----------------------------------------------------------------------------
(* State                                                                   *)

RxPcs == {"idle", "append", "check", "hold", "mark"}
TimerPcs == {"off", "poll", "save", "resume", "open", "clear"}
TaskPcs == {"switch", "copy", "feed"}

\* One type invariant: every variable has the type its C declaration gives it.
TypeOK ==
  /\ sent \in [Chan -> Nat]
  /\ ep \in Nat /\ irq \in BOOLEAN
  /\ usbStatus \in {"CommIdle", "CommSuspended"}
  /\ rxPc \in [Stream -> RxPcs] /\ rxLeft \in [Stream -> Nat]
  /\ busy \in [Flow -> BOOLEAN] /\ held \in [Flow -> BOOLEAN]
  /\ sppChannel \in BOOLEAN /\ drops \in Nat
  /\ list \in [Chan -> Seq(Nat)]
  /\ timerPc \in TimerPcs /\ timerCh \in Chan /\ tbuf \in Nat
  /\ method \in Chan \cup {IDLE}
  /\ elapsed \in 0..Timeout
  /\ pc \in TaskPcs /\ cur \in Chan /\ pass \in BOOLEAN /\ count \in Nat /\ dp \in Nat
  /\ lines \in Nat /\ stamps \in 0..MaxStamps
  /\ taken \in [Chan -> Nat]

Init ==
  /\ sent = [c \in Chan |-> 0]
  /\ ep = 0 /\ irq = FALSE /\ usbStatus = "CommIdle"
  /\ rxPc = [c \in Stream |-> "idle"] /\ rxLeft = [c \in Stream |-> 0]
  /\ busy = [c \in Flow |-> FALSE] /\ held = [c \in Flow |-> FALSE]
  /\ sppChannel = FALSE /\ drops = 0
  /\ list = [c \in Chan |-> <<>>]
  /\ timerPc = "off" /\ timerCh = "USB" /\ tbuf = 0
  /\ method = IDLE /\ elapsed = 0
  /\ pc = "switch" /\ cur = "USB" /\ pass = FALSE /\ count = 0 /\ dp = 0
  /\ lines = 0 /\ stamps = 0
  /\ taken = [c \in Chan |-> 0]

\* The length above which (from which, for TCP) the receiver of c is throttled.
Limit(c) == IF method \in {IDLE, c} THEN OwnerLimit[c] ELSE OtherLimit

----------------------------------------------------------------------------
(* USB: the host fills the endpoint, the interrupt handler empties it      *)

\* The host of c sends k more packets.
Sends(c, k) ==
  /\ sent' = [sent EXCEPT ![c] = @ + k]
  /\ \E bound \in Traffic : \A d \in Chan : sent'[d] <= bound[d]

UsbHostSend ==
  /\ ep = 0
  /\ Sends("USB", 1)
  /\ ep' = sent["USB"] + 1
  /\ irq' = TRUE
  /\ UNCHANGED <<sppChannel, drops, usbStatus, flowVars, timerVars, taskVars, printVars, list>>

\* Mutant: the early return forgets to suspend the communication.
IsrForgetsSuspend ==
  /\ irq
  /\ timerPc = "off"
  /\ irq' = FALSE
  /\ IF Len(list["USB"]) > Limit("USB")
     THEN UNCHANGED <<ep, list>>
     ELSE /\ list' = [list EXCEPT !["USB"] = Append(@, ep)]
          /\ ep' = 0
  /\ UNCHANGED <<usbStatus, hostVars, flowVars, timerVars, taskVars, printVars>>

\* Both interrupts have priority 3 on core 0 (usb_device.c 57, AppDriverBase.c 1414), so
\* this one waits while the Timer1 handler runs.
USBPrinterReveiveDataIsr ==
  /\ irq
  /\ timerPc = "off"
  /\ irq' = FALSE
  /\ IF Len(list["USB"]) > Limit("USB")
     THEN usbStatus' = "CommSuspended" /\ UNCHANGED <<ep, list>>
     ELSE /\ list' = [list EXCEPT !["USB"] = Append(@, ep)]
          /\ ep' = 0
          /\ UNCHANGED usbStatus
  /\ UNCHANGED <<hostVars, flowVars, timerVars, taskVars, printVars>>

----------------------------------------------------------------------------
(* SPP, BLE and TCP: a receive task splits what it is given into packets,  *)
(* appends them one by one and then looks at the length of the list        *)

\* le_net_cfg.c declares the handle and never assigns it.
HCI_le_Printer == 0

\* Whether a flow control command for c reaches the peer of the live connection.
FlowReaches(c) == IF c = "SPP" THEN sppChannel ELSE HCI_le_Printer > 0

RxReceive(c) ==
  /\ rxPc[c] = "idle"
  /\ c \in Flow => ~held[c]
  /\ \E k \in 1..MaxChunks :
       /\ Sends(c, k)
       /\ rxLeft' = [rxLeft EXCEPT ![c] = k]
  /\ rxPc' = [rxPc EXCEPT ![c] = "append"]
  /\ sppChannel' = (sppChannel \/ c = "SPP")
  /\ UNCHANGED <<drops, busy, held, usbVars, timerVars, taskVars, printVars, list>>

RxAppend(c) ==
  /\ rxPc[c] = "append"
  /\ list' = [list EXCEPT ![c] = Append(@, sent[c] - rxLeft[c] + 1)]
  /\ rxLeft' = [rxLeft EXCEPT ![c] = @ - 1]
  /\ rxPc' = [rxPc EXCEPT ![c] = IF rxLeft[c] = 1 THEN "check" ELSE "append"]
  /\ UNCHANGED <<busy, held, hostVars, usbVars, timerVars, taskVars, printVars>>

\* Mutant: the EDR receiver tests its list only, as the BLE receiver does.
MustHoldAlways(c) == Len(list[c]) > Limit(c)

\* The EDR receiver holds only when EdrBusy is not set, the BLE receiver always.
MustHold(c) == Len(list[c]) > Limit(c) /\ (c = "SPP" => ~busy[c])

RxCheck(c) ==
  /\ c \in Flow
  /\ rxPc[c] = "check"
  /\ rxPc' = [rxPc EXCEPT ![c] = IF MustHold(c) THEN "hold" ELSE "idle"]
  /\ UNCHANGED <<rxLeft, busy, held, hostVars, usbVars, timerVars, taskVars, printVars, list>>

RxHold(c) ==
  /\ c \in Flow
  /\ rxPc[c] = "hold"
  /\ held' = [held EXCEPT ![c] = @ \/ FlowReaches(c)]
  /\ rxPc' = [rxPc EXCEPT ![c] = "mark"]
  /\ UNCHANGED <<rxLeft, busy, hostVars, usbVars, timerVars, taskVars, printVars, list>>

RxMark(c) ==
  /\ c \in Flow
  /\ rxPc[c] = "mark"
  /\ busy' = [busy EXCEPT ![c] = TRUE]
  /\ rxPc' = [rxPc EXCEPT ![c] = "idle"]
  /\ UNCHANGED <<rxLeft, held, hostVars, usbVars, timerVars, taskVars, printVars, list>>

\* Mutant: a list at its limit is taken for one with room.
RxWaitOffByOne ==
  /\ rxPc["WIFI"] = "check"
  /\ Len(list["WIFI"]) <= Limit("WIFI")
  /\ rxPc' = [rxPc EXCEPT !["WIFI"] = "idle"]
  /\ UNCHANGED <<rxLeft, busy, held, hostVars, usbVars, timerVars, taskVars, printVars, list>>

\* The TCP receiver does not read the socket again while the list is full.
RxWait ==
  /\ rxPc["WIFI"] = "check"
  /\ Len(list["WIFI"]) < Limit("WIFI")
  /\ rxPc' = [rxPc EXCEPT !["WIFI"] = "idle"]
  /\ UNCHANGED <<rxLeft, busy, held, hostVars, usbVars, timerVars, taskVars, printVars, list>>

\* The SPP link breaks and comes back: the new connection is not throttled,
\* EdrBusy is left as it was.
SppReconnect ==
  /\ drops < MaxDrops
  /\ drops' = drops + 1
  /\ sppChannel' = FALSE
  /\ held' = [held EXCEPT !["SPP"] = FALSE]
  /\ UNCHANGED <<sent, rxVars, busy, usbVars, timerVars, taskVars, printVars, list>>

RxStep(c) == RxAppend(c) \/ RxCheck(c) \/ RxHold(c) \/ RxMark(c) \/ (c = "WIFI" /\ RxWait)

----------------------------------------------------------------------------
(* Timer1: every 80th interrupt polls USB, then EDR, then BLE              *)

TimerAt(at, c) == timerPc = at /\ timerCh = c
TimerGoes(at, c) == timerPc' = at /\ timerCh' = c

\* What the handler does once it has dealt with c.
AfterPoll(c) ==
  IF c = "USB" THEN TimerGoes("poll", "SPP")
  ELSE IF c = "SPP" THEN TimerGoes("poll", "BLE")
  ELSE TimerGoes("off", "USB")

TimerStart ==
  /\ timerPc = "off"
  /\ TimerGoes("poll", "USB")
  /\ UNCHANGED <<tbuf, hostVars, usbVars, flowVars, taskVars, printVars, list>>

\* USBPrinterReveiveDataTask: the packet left in the endpoint is read ...
TimerPollUsb ==
  /\ TimerAt("poll", "USB")
  /\ IF usbStatus = "CommSuspended" /\ Len(list["USB"]) < Restart
     THEN tbuf' = ep /\ ep' = 0 /\ TimerGoes("save", "USB")
     ELSE AfterPoll("USB") /\ UNCHANGED <<tbuf, ep>>
  /\ UNCHANGED <<irq, usbStatus, hostVars, flowVars, taskVars, printVars, list>>

\* ... appended ...
TimerSave ==
  /\ timerPc = "save"
  /\ list' = [list EXCEPT !["USB"] = Append(@, tbuf)]
  /\ tbuf' = 0
  /\ TimerGoes("resume", "USB")
  /\ UNCHANGED <<hostVars, usbVars, flowVars, taskVars, printVars>>

\* ... and the communication resumed.
TimerResume ==
  /\ timerPc = "resume"
  /\ usbStatus' = "CommIdle"
  /\ AfterPoll("USB")
  /\ UNCHANGED <<tbuf, ep, irq, hostVars, flowVars, taskVars, printVars, list>>

\* Mutant: the poll does not ask whether the peer is held.
TimerPollIgnoresBusy(c) ==
  /\ TimerAt("poll", c)
  /\ IF Len(list[c]) < Restart THEN TimerGoes("open", c) ELSE AfterPoll(c)
  /\ UNCHANGED <<tbuf, hostVars, usbVars, flowVars, taskVars, printVars, list>>

\* EdrPrinterReceiveDataTask, BLEPrinterReceiveDataTask: look,
TimerPollFlow(c) ==
  /\ TimerAt("poll", c)
  /\ IF Len(list[c]) < Restart /\ busy[c] THEN TimerGoes("open", c) ELSE AfterPoll(c)
  /\ UNCHANGED <<tbuf, hostVars, usbVars, flowVars, taskVars, printVars, list>>

\* Mutant: the peer is marked as released and never told.
TimerOpenForgotten(c) ==
  /\ TimerAt("open", c)
  /\ TimerGoes("clear", c)
  /\ UNCHANGED <<tbuf, flowVars, hostVars, usbVars, taskVars, printVars, list>>

\* let the peer go on,
TimerOpen(c) ==
  /\ TimerAt("open", c)
  /\ held' = [held EXCEPT ![c] = @ /\ ~FlowReaches(c)]
  /\ TimerGoes("clear", c)
  /\ UNCHANGED <<tbuf, rxVars, busy, hostVars, usbVars, taskVars, printVars, list>>

\* and forget that it was held.
TimerClear(c) ==
  /\ TimerAt("clear", c)
  /\ busy' = [busy EXCEPT ![c] = FALSE]
  /\ AfterPoll(c)
  /\ UNCHANGED <<tbuf, rxVars, held, hostVars, usbVars, taskVars, printVars, list>>

Timer ==
  \/ TimerStart \/ TimerPollUsb \/ TimerSave \/ TimerResume
  \/ \E c \in Flow : TimerPollFlow(c) \/ TimerOpen(c) \/ TimerClear(c)

----------------------------------------------------------------------------
(* DataManagementTask and CopyMemoryTask                                   *)

\* The order in which an idle pass tries the channels.
NextTried(c) == IF c = "USB" THEN "SPP" ELSE IF c = "SPP" THEN "BLE" ELSE "WIFI"

Call(c, idle) == pc' = "copy" /\ cur' = c /\ pass' = idle /\ count' = 0 /\ dp' = 0

\* Mutant: an idle pass does not look again whether the decoder is still free.
ReturnUnguarded(m) ==
  IF pass /\ cur # "WIFI"
  THEN Call(NextTried(cur), TRUE)
  ELSE pc' = "switch" /\ dp' = 0 /\ UNCHANGED <<cur, pass, count>>

\* CopyMemoryTask returns with the owner m: an idle pass goes on to the next
\* channel while nobody owns the decoder.
Return(m) ==
  IF pass /\ m = IDLE /\ cur # "WIFI"
  THEN Call(NextTried(cur), TRUE)
  ELSE pc' = "switch" /\ dp' = 0 /\ UNCHANGED <<cur, pass, count>>

TaskSwitch ==
  /\ pc = "switch"
  /\ IF method = IDLE THEN Call("USB", TRUE) ELSE Call(method, FALSE)
  /\ UNCHANGED <<method, taken, hostVars, usbVars, flowVars, timerVars, printVars, list>>

\* Mutant: the newest packet is copied.
TaskPeekLast ==
  /\ pc = "copy"
  /\ list[cur] # <<>>
  /\ pc' = "feed" /\ dp' = list[cur][Len(list[cur])]
  /\ IF method = IDLE
     THEN method' = cur /\ UNCHANGED elapsed
     ELSE elapsed' = 0 /\ UNCHANGED method
  /\ UNCHANGED <<cur, pass, count, taken, lines, stamps, hostVars, usbVars, flowVars, timerVars, list>>

\* The head of the list is copied. Whoever finds the decoder free takes it;
\* printTimeout is written only when it is owned already.
TaskPeek ==
  /\ pc = "copy"
  /\ list[cur] # <<>>
  /\ pc' = "feed" /\ dp' = Head(list[cur])
  /\ IF method = IDLE
     THEN method' = cur /\ UNCHANGED elapsed
     ELSE elapsed' = 0 /\ UNCHANGED method
  /\ UNCHANGED <<cur, pass, count, taken, lines, stamps, hostVars, usbVars, flowVars, timerVars, list>>

\* Mutant: the packet is freed before the decoder is asked.
TaskRefusedLoses ==
  /\ pc = "feed"
  /\ lines >= PrintLimit
  /\ Return(method)
  /\ list' = [list EXCEPT ![cur] = Tail(@)]
  /\ UNCHANGED <<method, taken, hostVars, usbVars, flowVars, timerVars, printVars>>

\* PrintDataManagement refuses: the packet stays in the list.
TaskRefused ==
  /\ pc = "feed"
  /\ lines >= PrintLimit
  /\ Return(method)
  /\ UNCHANGED <<method, taken, hostVars, usbVars, flowVars, timerVars, printVars, list>>

TaskFeed ==
  /\ pc = "feed"
  /\ lines < PrintLimit
  /\ \E k \in 0..MaxLines : lines' = lines + k
  /\ taken' = [taken EXCEPT ![cur] = dp]
  /\ list' = [list EXCEPT ![cur] = Tail(@)]
  /\ IF count > RestLimit
     THEN Return(method)
     ELSE pc' = "copy" /\ count' = count + 1 /\ dp' = 0 /\ UNCHANGED <<cur, pass>>
  /\ UNCHANGED <<method, elapsed, stamps, hostVars, usbVars, flowVars, timerVars>>

\* Nothing to copy: an owner silent for too long is dropped.
TaskEmpty ==
  /\ pc = "copy"
  /\ list[cur] = <<>>
  /\ method' = IF elapsed >= Timeout THEN IDLE ELSE method
  /\ Return(method')
  /\ UNCHANGED <<taken, hostVars, usbVars, flowVars, timerVars, printVars, list>>

Task == TaskSwitch \/ TaskPeek \/ TaskRefused \/ TaskFeed \/ TaskEmpty

----------------------------------------------------------------------------
(* Time, and the print engine as far as the receive side sees it           *)

\* Mutant: the tick counter runs past the timeout.
TickUnbounded ==
  /\ elapsed <= Timeout
  /\ elapsed' = elapsed + 1
  /\ UNCHANGED <<lines, stamps, hostVars, usbVars, flowVars, timerVars, taskVars, list>>

Tick ==
  /\ elapsed < Timeout
  /\ elapsed' = elapsed + 1
  /\ UNCHANGED <<lines, stamps, hostVars, usbVars, flowVars, timerVars, taskVars, list>>

PrintLine ==
  /\ lines > 0
  /\ lines' = lines - 1
  /\ stamps' = MaxStamps
  /\ UNCHANGED <<elapsed, hostVars, usbVars, flowVars, timerVars, taskVars, list>>

\* Mutant: the wait for the rest of a page does not count its rounds.
PrintStampForever ==
  /\ stamps > 0
  /\ elapsed' = 0
  /\ UNCHANGED <<lines, stamps, hostVars, usbVars, flowVars, timerVars, taskVars, list>>

\* Print() waits for the rest of an unfinished page and renews the timeout.
PrintStamp ==
  /\ stamps > 0
  /\ stamps' = stamps - 1
  /\ elapsed' = 0
  /\ UNCHANGED <<lines, hostVars, usbVars, flowVars, timerVars, taskVars, list>>

----------------------------------------------------------------------------
Next ==
  \/ UsbHostSend \/ USBPrinterReveiveDataIsr
  \/ \E c \in Stream : RxReceive(c) \/ RxStep(c)
  \/ SppReconnect
  \/ Timer \/ Task
  \/ Tick \/ PrintLine \/ PrintStamp

Spec == Init /\ [][Next]_vars

(* The hosts may stop at any time. A pending interrupt is taken once the   *)
(* handler that masks it has returned (strong fairness); every task and    *)
(* the timer interrupt keep running; the print engine drains the backlog   *)
(* it starts a run for.                                                    *)
Fairness ==
  /\ SF_vars(USBPrinterReveiveDataIsr)
  /\ \A c \in Stream : WF_vars(RxStep(c))
  /\ WF_vars(Timer) /\ WF_vars(Task) /\ WF_vars(Tick)
  /\ WF_vars(lines > StartLines /\ PrintLine)

FairSpec == Spec /\ Fairness

----------------------------------------------------------------------------
(* Properties                                                              *)

\* Packets of c the host has sent and that are not in the list yet.
InFlight(c) ==
  IF c = "USB" THEN (IF ep # 0 THEN 1 ELSE 0) + (IF tbuf # 0 THEN 1 ELSE 0)
               ELSE rxLeft[c]

\* No packet is lost, doubled or overtaken between a host and the decoder, whatever
\* throttling, suspension, reconnection and change of owner happen on the way.
ExactlyOnceInOrder ==
  \A c \in Chan :
    /\ taken[c] + Len(list[c]) + InFlight(c) = sent[c]
    /\ \A i \in 1..Len(list[c]) : list[c][i] = taken[c] + i

\* A packet the interrupt handler left in the endpoint is never forgotten: either the
\* interrupt is pending or the channel is suspended, so that the timer will fetch it.
UsbNotStranded == ep # 0 /\ ~irq => usbStatus = "CommSuspended" /\ timerPc # "resume"

\* A throttled SPP peer is remembered in EdrBusy, except while the receiver is between
\* sending the command and setting the flag: nobody is held without being released.
SppHeldIsMarked == held["SPP"] => busy["SPP"] \/ rxPc["SPP"] = "mark"

\* The receiver's hold and the timer's release of the SPP link never overlap: EdrBusy
\* works as a lock although it is tested and set without one.
SppSectionsDisjoint ==
  ~(rxPc["SPP"] \in {"hold", "mark"} /\ timerCh = "SPP" /\ timerPc \in {"open", "clear"})

\* The USB and the TCP list stay within their limit, even when the limit drops because
\* another channel takes the decoder.
ListsBounded ==
  /\ Len(list["USB"]) <= OwnerLimit["USB"] + 1
  /\ Len(list["WIFI"]) + rxLeft["WIFI"] < OwnerLimit["WIFI"] + MaxChunks

\* The decoder is fed by the channel that owns it, through every release and claim.
OwnerFeeds == pc = "feed" => cur = method /\ list[cur] # <<>>

\* The receive side implements the abstract printer port.
Port == INSTANCE PrinterPort WITH NoOwner <- IDLE, owner <- method
ImplementsPort == Port!Spec

\* Every packet a host has sent is given to the decoder in the end: no suspended
\* endpoint, full list or foreign owner keeps it out for ever.
EverythingDelivered == \A c \in Chan : []<>(taken[c] = sent[c])

\* A peer that was told to wait is told to go on: no hold outlasts the backlog it was for,
\* whoever owns the decoder and however hold, release and reconnection interleave.
PeersReleased == \A c \in Flow : []<>~held[c]

\* version_readme.txt:30 "Simultaneous Printing: All chanel can now print simultaneously
\* without issues": while one job (JobLen packets of a channel) is under way in the decoder,
\* no packet of another job gets there.
MidJob(c) == taken[c] % JobLen # 0
JobsNotInterleaved == \A c, d \in Chan : MidJob(c) /\ MidJob(d) => c = d

\* ble_api.h:1269 gives the connection handle of att_server_flow_hold the range > 0:
\* whenever BleBusy is set and the receiver is idle, the BLE peer is really held.
BleBusyIsHeld ==
  busy["BLE"] /\ rxPc["BLE"] = "idle" /\ timerCh # "BLE" => held["BLE"]
=============================================================================
