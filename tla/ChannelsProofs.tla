--------------------------- MODULE ChannelsProofs ---------------------------
(***************************************************************************)
(* Theorems about Channels for every traffic, limit and chunk size.        *)
(*   1. BaseInv: types, and what the receive tasks and DataManagementTask  *)
(*      know at each program counter.                                      *)
(*   2. SppInv: the unlocked hold / release protocol of the SPP link.      *)
(*   3. OrderInv: order and bounds of the lists; the USB interrupt does    *)
(*      not nest in the Timer1 handler, which has the same priority.       *)
(*   4. Channels implements PrinterPort.                                   *)
(***************************************************************************)
EXTENDS Channels, SequenceTheorems, TLAPS

\* A receive task has packets left exactly while it appends.
RxInv ==
  \A c \in Stream :
    /\ rxPc[c] = "append" <=> rxLeft[c] > 0
    /\ rxLeft[c] <= sent[c]

\* The task copies for a free decoder or its owner, and feeds the head of the owner's list.
TaskInv ==
  /\ pc = "copy" => method \in {IDLE, cur}
  /\ pc = "feed" =>
       /\ method = cur
       /\ list[cur] # <<>>
       /\ dp = Head(list[cur])

BaseInv == TypeOK /\ RxInv /\ TaskInv

----------------------------------------------------------------------------
(* Facts about constants, lists and the operators the actions share        *)

LEMMA Constants ==
  /\ Timeout \in Nat /\ MaxStamps \in Nat /\ MaxLines \in Nat /\ MaxChunks \in Nat \ {0}
  BY ChannelsAssumption DEF ChannelsAssumption

LEMMA Sets ==
  /\ Flow \subseteq Stream /\ Stream \subseteq Chan
  /\ "USB" \in Chan /\ "WIFI" \in Stream /\ "WIFI" \in Chan
  BY DEF Chan, Flow, Stream

\* Appending leaves the head of a list that is not empty alone.
LEMMA HeadOfAppend ==
  ASSUME NEW s \in Seq(Nat), NEW x \in Nat, s # <<>>
  PROVE  Append(s, x) # <<>> /\ Head(Append(s, x)) = Head(s)
  BY AppendProperties, HeadTailProperties, EmptySeq

\* A packet appended to a list disturbs neither the types nor what the task has copied.
LEMMA AppendPacket ==
  ASSUME TypeOK, TaskInv, NEW c \in Chan, NEW x \in Nat,
         list' = [list EXCEPT ![c] = Append(@, x)],
         UNCHANGED <<pc, cur, dp, method>>
  PROVE  list' \in [Chan -> Seq(Nat)] /\ TaskInv'
  <1>1. list' \in [Chan -> Seq(Nat)]
    BY DEF TypeOK
  <1>2. ASSUME pc = "feed" PROVE list'[cur] # <<>> /\ dp = Head(list'[cur])
    <2>1. cur \in Chan /\ list[cur] \in Seq(Nat) /\ list[cur] # <<>> /\ dp = Head(list[cur])
      BY <1>2 DEF TypeOK, TaskInv
    <2>2. Append(list[cur], x) # <<>> /\ Head(Append(list[cur], x)) = Head(list[cur])
      BY <2>1, HeadOfAppend
    <2>3. list'[cur] = IF cur = c THEN Append(list[cur], x) ELSE list[cur]
      BY <2>1 DEF TypeOK
    <2> QED
      BY <2>1, <2>2, <2>3
  <1> QED
    BY <1>1, <1>2 DEF TaskInv

LEMMA SendsTyped ==
  ASSUME TypeOK, NEW c \in Chan, NEW k \in Nat, Sends(c, k)
  PROVE  sent' \in [Chan -> Nat] /\ \A d \in Chan : sent'[d] >= sent[d]
  <1>1. sent' = [sent EXCEPT ![c] = @ + k] /\ sent \in [Chan -> Nat]
    BY DEF Sends, TypeOK
  <1> QED
    BY <1>1

\* Wherever CopyMemoryTask goes when it returns, the task is in a typed state that suits the
\* owner m, and has copied nothing.
LEMMA ReturnTyped ==
  ASSUME TypeOK, NEW m, Return(m)
  PROVE  /\ pc' \in {"switch", "copy"} /\ cur' \in Chan /\ count' \in Nat /\ dp' \in Nat
         /\ pass' \in BOOLEAN
         /\ pc' = "copy" => m = IDLE
  <1>1. /\ pc' \in {"switch", "copy"} /\ cur' \in Chan /\ count' \in Nat /\ dp' \in Nat
        /\ pc' = "copy" => m = IDLE
    BY SMTT(20) DEF Return, Call, NextTried, TypeOK, Chan
  <1>2. pass' \in BOOLEAN
    BY DEF Return, Call, TypeOK
  <1> QED
    BY <1>1, <1>2

----------------------------------------------------------------------------
(* The base invariant                                                      *)

LEMMA BaseInit == Init => BaseInv
  <1> SUFFICES ASSUME Init PROVE BaseInv
    OBVIOUS
  <1>1. /\ sent \in [Chan -> Nat] /\ list \in [Chan -> Seq(Nat)] /\ taken \in [Chan -> Nat]
    BY DEF Init
  <1>2. /\ rxPc \in [Stream -> RxPcs] /\ rxLeft \in [Stream -> Nat]
    BY DEF Init, RxPcs
  <1>3. /\ busy \in [Flow -> BOOLEAN] /\ held \in [Flow -> BOOLEAN]
    BY DEF Init
  <1>4. /\ ep \in Nat /\ irq \in BOOLEAN /\ usbStatus \in {"CommIdle", "CommSuspended"}
        /\ sppChannel \in BOOLEAN /\ drops \in Nat
        /\ timerPc \in TimerPcs /\ timerCh \in Chan /\ tbuf \in Nat
    BY DEF Init, TimerPcs, Chan
  <1>5. /\ pc \in TaskPcs /\ cur \in Chan /\ pass \in BOOLEAN /\ count \in Nat /\ dp \in Nat
        /\ method \in Chan \cup {IDLE}
    BY DEF Init, TaskPcs, Chan
  <1>6. /\ elapsed \in 0..Timeout /\ lines \in Nat /\ stamps \in 0..MaxStamps
    BY Constants DEF Init
  <1>7. TypeOK
    BY <1>1, <1>2, <1>3, <1>4, <1>5, <1>6 DEF TypeOK
  <1>8. RxInv /\ TaskInv
    BY DEF Init, RxInv, TaskInv, Stream, Flow, Chan
  <1> QED
    BY <1>7, <1>8 DEF BaseInv

LEMMA BaseNext == BaseInv /\ [Next]_vars => BaseInv'
  <1> SUFFICES ASSUME BaseInv, [Next]_vars PROVE BaseInv'
    OBVIOUS
  <1> USE DEF BaseInv, hostVars, usbVars, rxVars, flowVars, callVars,
                timerVars, taskVars, printVars
  <1>1. CASE UsbHostSend
    <2>1. TypeOK'
      BY <1>1, SMTT(20) DEF UsbHostSend, Sends, TypeOK, Chan
    <2>2. RxInv'
      BY <1>1 DEF UsbHostSend, Sends, RxInv, TypeOK, Chan, Stream, Flow
    <2>3. TaskInv'
      BY <1>1 DEF UsbHostSend, TaskInv
    <2> QED
      BY <2>1, <2>2, <2>3
  <1>2. CASE USBPrinterReveiveDataIsr
    <2>1. CASE Len(list["USB"]) > Limit("USB")
      <3>1. TypeOK'
        BY <1>2, <2>1 DEF USBPrinterReveiveDataIsr, TypeOK
      <3>2. RxInv' /\ TaskInv'
        BY <1>2, <2>1 DEF USBPrinterReveiveDataIsr, RxInv, TaskInv
      <3> QED
        BY <3>1, <3>2
    <2>2. CASE ~(Len(list["USB"]) > Limit("USB"))
      <3>1. /\ list' = [list EXCEPT !["USB"] = Append(@, ep)]
            /\ irq' = FALSE /\ ep' = 0
            /\ UNCHANGED <<usbStatus, sent, sppChannel, drops, rxPc, rxLeft, busy, held>>
            /\ UNCHANGED <<timerPc, timerCh, tbuf, elapsed, lines, stamps>>
            /\ UNCHANGED <<pc, cur, pass, count, dp, method, taken>>
        BY <1>2, <2>2 DEF USBPrinterReveiveDataIsr
      <3>2. list' \in [Chan -> Seq(Nat)] /\ TaskInv'
        BY <3>1, AppendPacket, Sets DEF TypeOK
      <3>3. TypeOK'
        BY <3>1, <3>2 DEF TypeOK
      <3>4. RxInv'
        BY <3>1 DEF RxInv
      <3> QED
        BY <3>2, <3>3, <3>4
    <2> QED
      BY <2>1, <2>2
  <1>3. ASSUME NEW c \in Stream, RxReceive(c) PROVE BaseInv'
    <2>1. PICK k \in 1..MaxChunks : Sends(c, k) /\ rxLeft' = [rxLeft EXCEPT ![c] = k]
      BY <1>3 DEF RxReceive
    <2>2. c \in Chan /\ k \in Nat \ {0}
      BY Constants, Sets
    <2>3. sent' \in [Chan -> Nat] /\ \A d \in Chan : sent'[d] >= sent[d]
      BY <2>1, <2>2, SendsTyped
    <2>4. rxLeft' \in [Stream -> Nat] /\ rxPc' \in [Stream -> RxPcs]
      BY <1>3, <2>1, <2>2 DEF RxReceive, TypeOK, RxPcs
    <2>5. sppChannel' \in BOOLEAN
      BY <1>3 DEF RxReceive, TypeOK
    <2>6. TypeOK'
      BY <1>3, <2>3, <2>4, <2>5 DEF RxReceive, TypeOK
    <2>7. sent'[c] = sent[c] + k
      BY <2>1, <2>2 DEF Sends, TypeOK
    <2>8. ASSUME NEW d \in Stream
          PROVE  (rxPc'[d] = "append" <=> rxLeft'[d] > 0) /\ rxLeft'[d] <= sent'[d]
      <3>1. CASE d = c
        BY <1>3, <2>1, <2>2, <2>7, <3>1 DEF RxReceive, TypeOK
      <3>2. CASE d # c
        <4>1. rxPc'[d] = rxPc[d] /\ rxLeft'[d] = rxLeft[d] /\ rxLeft[d] \in Nat
          BY <1>3, <2>1, <3>2 DEF RxReceive, TypeOK
        <4>2. sent'[d] >= sent[d] /\ sent[d] \in Nat /\ sent'[d] \in Nat
          BY <2>3, Sets DEF TypeOK
        <4> QED
          BY <4>1, <4>2 DEF RxInv
      <3> QED
        BY <3>1, <3>2
    <2>9. TaskInv'
      BY <1>3 DEF RxReceive, TaskInv
    <2> QED
      BY <2>6, <2>8, <2>9 DEF RxInv
  <1>4. ASSUME NEW c \in Stream, RxAppend(c) PROVE BaseInv'
    <2> DEFINE x == sent[c] - rxLeft[c] + 1
    <2>1. c \in Chan /\ rxLeft[c] \in Nat \ {0} /\ x \in Nat
      <3>1. c \in Chan /\ rxLeft[c] \in Nat /\ sent[c] \in Nat
        BY Sets DEF TypeOK
      <3>2. rxLeft[c] > 0 /\ rxLeft[c] <= sent[c]
        BY <1>4 DEF RxAppend, RxInv
      <3> QED
        BY <3>1, <3>2
    <2> HIDE DEF x
    <2>2. list' = [list EXCEPT ![c] = Append(@, x)] /\ UNCHANGED <<pc, cur, dp, method>>
      BY <1>4 DEF RxAppend, x
    <2>3. list' \in [Chan -> Seq(Nat)] /\ TaskInv'
      BY <2>1, <2>2, AppendPacket
    <2>4. rxLeft' \in [Stream -> Nat] /\ rxPc' \in [Stream -> RxPcs]
      BY <1>4, <2>1, SMTT(20) DEF RxAppend, TypeOK, RxPcs
    <2>5. TypeOK'
      BY <1>4, <2>3, <2>4 DEF RxAppend, TypeOK
    <2>6. ASSUME NEW d \in Stream
          PROVE  (rxPc'[d] = "append" <=> rxLeft'[d] > 0) /\ rxLeft'[d] <= sent'[d]
      <3>1. (rxPc[d] = "append" <=> rxLeft[d] > 0) /\ rxLeft[d] <= sent[d] /\ sent' = sent
        BY <1>4 DEF RxAppend, RxInv
      <3>2. sent[d] \in Nat /\ rxLeft[d] \in Nat
        BY Sets DEF TypeOK
      <3>3. CASE d = c
        BY <1>4, <2>1, <3>1, <3>2, <3>3, SMTT(20) DEF RxAppend, TypeOK
      <3>4. CASE d # c
        BY <1>4, <3>1, <3>4 DEF RxAppend, TypeOK
      <3> QED
        BY <3>3, <3>4
    <2> QED
      BY <2>3, <2>5, <2>6 DEF RxInv
  <1>5. ASSUME NEW c \in Stream, RxCheck(c) PROVE BaseInv'
    <2>1. TypeOK'
      BY <1>5 DEF RxCheck, TypeOK, RxPcs
    <2>2. RxInv'
      BY <1>5 DEF RxCheck, RxInv, TypeOK, RxPcs
    <2>3. TaskInv'
      BY <1>5 DEF RxCheck, TaskInv
    <2> QED
      BY <2>1, <2>2, <2>3
  <1>6. ASSUME NEW c \in Stream, RxHold(c) PROVE BaseInv'
    <2>1. TypeOK'
      BY <1>6 DEF RxHold, FlowReaches, HCI_le_Printer, TypeOK, RxPcs
    <2>2. RxInv'
      BY <1>6 DEF RxHold, FlowReaches, HCI_le_Printer, RxInv, TypeOK, RxPcs
    <2>3. TaskInv'
      BY <1>6 DEF RxHold, TaskInv
    <2> QED
      BY <2>1, <2>2, <2>3
  <1>7. ASSUME NEW c \in Stream, RxMark(c) PROVE BaseInv'
    <2>1. TypeOK'
      BY <1>7 DEF RxMark, TypeOK, RxPcs
    <2>2. RxInv'
      BY <1>7 DEF RxMark, RxInv, TypeOK, RxPcs
    <2>3. TaskInv'
      BY <1>7 DEF RxMark, TaskInv
    <2> QED
      BY <2>1, <2>2, <2>3
  <1>8. CASE RxWait
    <2>1. TypeOK'
      BY <1>8 DEF RxWait, TypeOK, RxPcs
    <2>2. RxInv'
      BY <1>8 DEF RxWait, RxInv, TypeOK, RxPcs
    <2>3. TaskInv'
      BY <1>8 DEF RxWait, TaskInv
    <2> QED
      BY <2>1, <2>2, <2>3
  <1>9. CASE SppReconnect
    <2>1. held' \in [Flow -> BOOLEAN]
      BY <1>9 DEF SppReconnect, TypeOK
    <2>2. drops' \in Nat
      BY <1>9 DEF SppReconnect, TypeOK
    <2>3. TypeOK'
      BY <1>9, <2>1, <2>2 DEF SppReconnect, TypeOK
    <2>4. RxInv' /\ TaskInv'
      BY <1>9 DEF SppReconnect, RxInv, TaskInv
    <2> QED
      BY <2>3, <2>4
  <1>10. CASE TimerStart
    <2>1. TypeOK'
      BY <1>10 DEF TimerStart, TimerGoes, TypeOK, TimerPcs, Chan
    <2>2. RxInv' /\ TaskInv'
      BY <1>10 DEF TimerStart, RxInv, TaskInv
    <2> QED
      BY <2>1, <2>2
  <1>11. CASE TimerPollUsb
    <2>1. timerPc' \in {"save", "poll"} /\ timerCh' \in {"USB", "SPP"}
      BY <1>11 DEF TimerPollUsb, TimerGoes, AfterPoll
    <2>2. tbuf' \in Nat /\ ep' \in Nat
      BY <1>11, SMTT(20) DEF TimerPollUsb, TypeOK
    <2>3. TypeOK'
      BY <1>11, <2>1, <2>2, SMTT(20) DEF TimerPollUsb, TypeOK, TimerPcs, Chan
    <2>4. RxInv' /\ TaskInv'
      BY <1>11 DEF TimerPollUsb, RxInv, TaskInv
    <2> QED
      BY <2>3, <2>4
  <1>12. CASE TimerSave
    <2>1. list' \in [Chan -> Seq(Nat)] /\ TaskInv'
      BY <1>12, AppendPacket, Sets DEF TimerSave, TypeOK
    <2>2. TypeOK'
      BY <1>12, <2>1, Sets DEF TimerSave, TimerGoes, TypeOK, TimerPcs
    <2>3. RxInv'
      BY <1>12 DEF TimerSave, RxInv
    <2> QED
      BY <2>1, <2>2, <2>3
  <1>13. CASE TimerResume
    <2>1. TypeOK'
      BY <1>13 DEF TimerResume, TimerGoes, AfterPoll, TypeOK, TimerPcs, Chan
    <2>2. RxInv' /\ TaskInv'
      BY <1>13 DEF TimerResume, RxInv, TaskInv
    <2> QED
      BY <2>1, <2>2
  <1>14. ASSUME NEW c \in Flow, TimerPollFlow(c) PROVE BaseInv'
    <2>1. TypeOK'
      BY <1>14 DEF TimerPollFlow, TimerAt, TimerGoes, AfterPoll, TypeOK, TimerPcs, Chan, Flow
    <2>2. RxInv' /\ TaskInv'
      BY <1>14 DEF TimerPollFlow, RxInv, TaskInv
    <2> QED
      BY <2>1, <2>2
  <1>15. ASSUME NEW c \in Flow, TimerOpen(c) PROVE BaseInv'
    <2>1. TypeOK'
      BY <1>15, SMTT(20)
      DEF TimerOpen, TimerAt, TimerGoes, FlowReaches, HCI_le_Printer, TypeOK, TimerPcs, Chan, Flow
    <2>2. RxInv' /\ TaskInv'
      BY <1>15 DEF TimerOpen, RxInv, TaskInv
    <2> QED
      BY <2>1, <2>2
  <1>16. ASSUME NEW c \in Flow, TimerClear(c) PROVE BaseInv'
    <2>1. TypeOK'
      BY <1>16 DEF TimerClear, TimerAt, TimerGoes, AfterPoll, TypeOK, TimerPcs, Chan, Flow
    <2>2. RxInv' /\ TaskInv'
      BY <1>16 DEF TimerClear, RxInv, TaskInv
    <2> QED
      BY <2>1, <2>2
  <1>17. CASE TaskSwitch
    <2>1. /\ pc' = "copy" /\ count' = 0 /\ dp' = 0
          /\ cur' = IF method = IDLE THEN "USB" ELSE method
      BY <1>17 DEF TaskSwitch, Call
    <2>2. pass' \in BOOLEAN
      BY <1>17 DEF TaskSwitch, Call
    <2>3. TypeOK'
      BY <1>17, <2>1, <2>2, Sets DEF TaskSwitch, TypeOK, TaskPcs, IDLE
    <2>4. RxInv' /\ TaskInv'
      BY <1>17, <2>1 DEF TaskSwitch, RxInv, TaskInv
    <2> QED
      BY <2>3, <2>4
  <1>18. CASE TaskPeek
    <2>1. list[cur] \in Seq(Nat) /\ list[cur] # <<>>
      BY <1>18 DEF TaskPeek, TypeOK
    <2>2. dp' \in Nat /\ elapsed' \in 0..Timeout /\ method' \in Chan \cup {IDLE}
      BY <1>18, <2>1, HeadTailProperties, Constants DEF TaskPeek, TypeOK
    <2>3. TypeOK'
      BY <1>18, <2>2 DEF TaskPeek, TypeOK, TaskPcs
    <2>4. RxInv'
      BY <1>18 DEF TaskPeek, RxInv
    <2>5. TaskInv'
      BY <1>18 DEF TaskPeek, TaskInv, TypeOK, Chan, IDLE
    <2> QED
      BY <2>3, <2>4, <2>5
  <1>19. CASE TaskRefused
    <2>1. /\ pc' \in {"switch", "copy"} /\ cur' \in Chan /\ count' \in Nat /\ dp' \in Nat
          /\ pass' \in BOOLEAN
          /\ pc' = "copy" => method = IDLE
      BY <1>19, ReturnTyped DEF TaskRefused
    <2>2. TypeOK'
      BY <1>19, <2>1 DEF TaskRefused, TypeOK, TaskPcs
    <2>3. RxInv' /\ TaskInv'
      BY <1>19, <2>1 DEF TaskRefused, RxInv, TaskInv
    <2> QED
      BY <2>2, <2>3
  <1>20. CASE TaskFeed
    <2>1. list' \in [Chan -> Seq(Nat)] /\ taken' \in [Chan -> Nat] /\ lines' \in Nat
      <3>1. list[cur] \in Seq(Nat) /\ list[cur] # <<>>
        BY <1>20 DEF TaskFeed, TypeOK, TaskInv
      <3>2. Tail(list[cur]) \in Seq(Nat)
        BY <3>1, HeadTailProperties
      <3> QED
        BY <1>20, <3>2, Constants DEF TaskFeed, TypeOK
    <2>2. /\ pc' \in {"switch", "copy"} /\ cur' \in Chan /\ count' \in Nat /\ dp' \in Nat
          /\ pass' \in BOOLEAN
          /\ pc' = "copy" => method \in {IDLE, cur'}
      <3>1. CASE count > RestLimit
        BY <1>20, <3>1, ReturnTyped DEF TaskFeed
      <3>2. CASE ~(count > RestLimit)
        BY <1>20, <3>2 DEF TaskFeed, TypeOK, TaskInv
      <3> QED
        BY <3>1, <3>2
    <2>3. TypeOK'
      BY <1>20, <2>1, <2>2 DEF TaskFeed, TypeOK, TaskPcs
    <2>4. RxInv' /\ TaskInv'
      BY <1>20, <2>2 DEF TaskFeed, RxInv, TaskInv
    <2> QED
      BY <2>3, <2>4
  <1>21. CASE TaskEmpty
    <2>1. /\ pc' \in {"switch", "copy"} /\ cur' \in Chan /\ count' \in Nat /\ dp' \in Nat
          /\ pass' \in BOOLEAN
          /\ pc' = "copy" => method' = IDLE
      BY <1>21, ReturnTyped DEF TaskEmpty
    <2>2. TypeOK'
      BY <1>21, <2>1 DEF TaskEmpty, TypeOK, TaskPcs
    <2>3. RxInv' /\ TaskInv'
      BY <1>21, <2>1 DEF TaskEmpty, RxInv, TaskInv
    <2> QED
      BY <2>2, <2>3
  <1>22. CASE Tick
    <2>1. TypeOK'
      BY <1>22, Constants DEF Tick, TypeOK
    <2>2. RxInv' /\ TaskInv'
      BY <1>22 DEF Tick, RxInv, TaskInv
    <2> QED
      BY <2>1, <2>2
  <1>23. CASE PrintLine
    <2>1. TypeOK'
      BY <1>23, Constants DEF PrintLine, TypeOK
    <2>2. RxInv' /\ TaskInv'
      BY <1>23 DEF PrintLine, RxInv, TaskInv
    <2> QED
      BY <2>1, <2>2
  <1>24. CASE PrintStamp
    <2>1. TypeOK'
      BY <1>24, Constants DEF PrintStamp, TypeOK
    <2>2. RxInv' /\ TaskInv'
      BY <1>24 DEF PrintStamp, RxInv, TaskInv
    <2> QED
      BY <2>1, <2>2
  <1>25. CASE UNCHANGED vars
    <2>1. TypeOK'
      BY <1>25 DEF vars, TypeOK
    <2>2. RxInv' /\ TaskInv'
      BY <1>25 DEF vars, RxInv, TaskInv
    <2> QED
      BY <2>1, <2>2
  <1> QED
    BY <1>1, <1>2, <1>3, <1>4, <1>5, <1>6, <1>7, <1>8, <1>9, <1>10, <1>11, <1>12, <1>13,
        <1>14, <1>15, <1>16, <1>17, <1>18, <1>19, <1>20, <1>21, <1>22, <1>23, <1>24, <1>25
       DEF Next, RxStep, Timer, Task

\* The receive side keeps its types, whatever the traffic and the limits: no append,
\* early return or reconnection writes a value of another kind.
THEOREM TypeCorrect == Spec => []TypeOK
  <1>1. Init => BaseInv
    BY BaseInit
  <1>2. BaseInv /\ [Next]_vars => BaseInv'
    BY BaseNext
  <1>3. BaseInv => TypeOK
    BY DEF BaseInv
  <1> QED
    BY <1>1, <1>2, <1>3, PTL DEF Spec

\* Only the owner of the decoder feeds it, and what it feeds is in its list: this holds
\* through the timeout, the refusals and the idle passes of CopyMemoryTask.
THEOREM OwnerFeedsAlways == Spec => []OwnerFeeds
  <1>1. Init => BaseInv
    BY BaseInit
  <1>2. BaseInv /\ [Next]_vars => BaseInv'
    BY BaseNext
  <1>3. BaseInv => OwnerFeeds
    BY DEF BaseInv, TaskInv, OwnerFeeds
  <1> QED
    BY <1>1, <1>2, <1>3, PTL DEF Spec

----------------------------------------------------------------------------
(* The hold / release protocol of the SPP link                             *)

\* What the receive task and the timer know about each other. The receiver holds the peer only
\* while EdrBusy is clear, the timer releases it only while EdrBusy is set, and each leaves
\* EdrBusy alone until it is done: so neither can enter its section while the other is inside.
SppInv ==
  /\ held["SPP"] => sppChannel
  /\ held["SPP"] => busy["SPP"] \/ rxPc["SPP"] = "mark"
  /\ rxPc["SPP"] \in {"hold", "mark"} => ~busy["SPP"]
  /\ timerCh = "SPP" /\ timerPc \in {"open", "clear"} =>
       busy["SPP"] /\ rxPc["SPP"] \notin {"hold", "mark"}
  /\ timerCh = "SPP" /\ timerPc = "clear" => ~held["SPP"]

LEMMA SppNext == BaseInv /\ SppInv /\ [Next]_vars => SppInv'
  <1> SUFFICES ASSUME BaseInv, SppInv, [Next]_vars PROVE SppInv'
    OBVIOUS
  <1> USE DEF BaseInv, hostVars, usbVars, rxVars, flowVars, timerVars, callVars,
                taskVars, printVars
  <1>1. CASE UNCHANGED <<rxPc, busy, held, sppChannel, timerPc, timerCh>>
    BY <1>1 DEF SppInv
  <1>2. CASE UsbHostSend \/ USBPrinterReveiveDataIsr
    BY <1>2, <1>1 DEF UsbHostSend, USBPrinterReveiveDataIsr
  <1>3. ASSUME NEW c \in Stream, c # "SPP", RxReceive(c) \/ RxStep(c) PROVE SppInv'
    <2>1. CASE RxReceive(c)
      <3>1. (sppChannel' <=> sppChannel) /\ UNCHANGED <<busy, held, timerPc, timerCh>>
        BY <1>3, <2>1 DEF RxReceive
      <3>2. rxPc'["SPP"] = rxPc["SPP"]
        BY <1>3, <2>1 DEF RxReceive, TypeOK
      <3> QED
        BY <3>1, <3>2 DEF SppInv
    <2>2. CASE RxAppend(c)
      BY <1>3, <2>2 DEF RxAppend, SppInv, TypeOK
    <2>3. CASE RxCheck(c)
      BY <1>3, <2>3 DEF RxCheck, SppInv, TypeOK
    <2>4. CASE RxHold(c)
      BY <1>3, <2>4 DEF RxHold, SppInv, TypeOK
    <2>5. CASE RxMark(c)
      BY <1>3, <2>5 DEF RxMark, SppInv, TypeOK
    <2>6. CASE RxWait
      BY <2>6 DEF RxWait, SppInv, TypeOK
    <2> QED
      BY <1>3, <2>1, <2>2, <2>3, <2>4, <2>5, <2>6 DEF RxStep
  <1>4. CASE RxReceive("SPP")
    BY <1>4 DEF RxReceive, SppInv, TypeOK, Stream, Flow
  <1>5. CASE RxAppend("SPP")
    BY <1>5 DEF RxAppend, SppInv, TypeOK, Stream, Flow
  <1>6. CASE RxCheck("SPP")
    BY <1>6 DEF RxCheck, MustHold, SppInv, TypeOK, Stream, Flow
  <1>7. CASE RxHold("SPP")
    BY <1>7 DEF RxHold, FlowReaches, SppInv, TypeOK, Stream, Flow
  <1>8. CASE RxMark("SPP")
    BY <1>8 DEF RxMark, SppInv, TypeOK, Stream, Flow
  <1>9. CASE SppReconnect
    BY <1>9 DEF SppReconnect, SppInv, TypeOK, Stream, Flow
  <1>10. CASE TimerStart \/ TimerPollUsb \/ TimerSave \/ TimerResume
    BY <1>10 DEF TimerStart, TimerPollUsb, TimerSave, TimerResume, TimerGoes, AfterPoll, SppInv
  <1>11. CASE TimerPollFlow("SPP")
    BY <1>11 DEF TimerPollFlow, TimerAt, TimerGoes, AfterPoll, SppInv
  <1>12. CASE TimerOpen("SPP")
    BY <1>12 DEF TimerOpen, TimerAt, TimerGoes, FlowReaches, SppInv, TypeOK, Flow
  <1>13. CASE TimerClear("SPP")
    BY <1>13 DEF TimerClear, TimerAt, TimerGoes, AfterPoll, SppInv, TypeOK, Flow
  <1>14. CASE TimerPollFlow("BLE") \/ TimerOpen("BLE") \/ TimerClear("BLE")
    <2>1. timerCh' # "SPP" /\ UNCHANGED <<rxPc, sppChannel>>
      BY <1>14 DEF TimerPollFlow, TimerOpen, TimerClear, TimerGoes, AfterPoll
    <2>2. held'["SPP"] = held["SPP"] /\ busy'["SPP"] = busy["SPP"]
      BY <1>14 DEF TimerPollFlow, TimerOpen, TimerClear, TypeOK, Flow
    <2> QED
      BY <2>1, <2>2 DEF SppInv
  <1>15. CASE Task
    BY <1>15, <1>1 DEF Task, TaskSwitch, TaskPeek, TaskRefused, TaskFeed, TaskEmpty
  <1>16. CASE Tick \/ PrintLine \/ PrintStamp
    BY <1>16, <1>1 DEF Tick, PrintLine, PrintStamp
  <1>17. CASE UNCHANGED vars
    BY <1>17, <1>1 DEF vars
  <1> QED
    BY <1>2, <1>3, <1>4, <1>5, <1>6, <1>7, <1>8, <1>9, <1>10, <1>11, <1>12, <1>13, <1>14,
       <1>15, <1>16, <1>17 DEF Next, RxStep, Timer, Flow

\* The flag EdrBusy, tested and set without a lock by the SPP receive task and by the Timer1
\* handler on the other core, excludes them from each other's section.
THEOREM SppExclusion == Spec => []SppSectionsDisjoint
  <1>1. Init => BaseInv /\ SppInv
    BY BaseInit DEF Init, SppInv, Stream, Flow
  <1>2. BaseInv /\ SppInv /\ [Next]_vars => BaseInv' /\ SppInv'
    BY BaseNext, SppNext
  <1>3. SppInv => SppSectionsDisjoint
    BY DEF SppInv, SppSectionsDisjoint
  <1> QED
    BY <1>1, <1>2, <1>3, PTL DEF Spec

\* No throttled SPP peer is forgotten: EdrBusy is set, or about to be set, so that the timer
\* will release it, even if the link was lost and made again in between.
THEOREM SppNotForgotten == Spec => []SppHeldIsMarked
  <1>1. Init => BaseInv /\ SppInv
    BY BaseInit DEF Init, SppInv, Stream, Flow
  <1>2. BaseInv /\ SppInv /\ [Next]_vars => BaseInv' /\ SppInv'
    BY BaseNext, SppNext
  <1>3. SppInv => SppHeldIsMarked
    BY DEF SppInv, SppHeldIsMarked
  <1> QED
    BY <1>1, <1>2, <1>3, PTL DEF Spec

----------------------------------------------------------------------------
(* Order and bounds                                                        *)

\* A list whose packets carry on where the decoder stopped.
Numbered(s, t) == \A i \in 1..Len(s) : s[i] = t + i

\* The order of every channel, for a list s with n packets in flight.
Ordered(t, s, n, total) == t + Len(s) + n = total /\ Numbered(s, t)

LEMMA AppendNumbered ==
  ASSUME NEW t \in Nat, NEW s \in Seq(Nat), Numbered(s, t)
  PROVE  /\ Numbered(Append(s, t + Len(s) + 1), t)
         /\ Len(Append(s, t + Len(s) + 1)) = Len(s) + 1
  BY AppendProperties, SMTT(20) DEF Numbered

LEMMA TailNumbered ==
  ASSUME NEW t \in Nat, NEW s \in Seq(Nat), Numbered(s, t), s # <<>>
  PROVE  /\ Head(s) = t + 1
         /\ Numbered(Tail(s), t + 1)
         /\ Len(s) \in Nat \ {0} /\ Len(Tail(s)) = Len(s) - 1
  <1>1. Len(s) \in Nat \ {0}
    BY EmptySeq
  <1>2. Head(s) = s[1]
    BY <1>1
  <1>3. Len(Tail(s)) = Len(s) - 1 /\ \A i \in 1..Len(Tail(s)) : Tail(s)[i] = s[i + 1]
    BY HeadTailProperties
  <1>4. ASSUME NEW i \in 1..Len(Tail(s)) PROVE Tail(s)[i] = t + 1 + i
    <2>1. i + 1 \in 1..Len(s)
      BY <1>1, <1>3
    <2>2. s[i + 1] = t + (i + 1)
      BY <2>1 DEF Numbered
    <2> QED
      BY <1>3, <2>2
  <1> QED
    BY <1>1, <1>2, <1>3, <1>4 DEF Numbered

\* The packets a receive task or the Timer1 handler still holds come after its list.
UsbInv ==
  /\ ep # 0 => ep = sent["USB"]
  /\ irq => ep # 0
  /\ tbuf # 0 <=> timerPc = "save"
  /\ tbuf # 0 => tbuf = taken["USB"] + Len(list["USB"]) + 1
  /\ timerPc \in {"save", "resume"} => timerCh = "USB" /\ (ep # 0 => irq)
  /\ timerPc = "save" => Len(list["USB"]) < Restart
  /\ timerPc \notin {"save", "resume"} => ((ep # 0 /\ ~irq) <=> usbStatus = "CommSuspended")
  /\ Len(list["USB"]) <= OwnerLimit["USB"] + 1

WifiInv ==
  /\ rxPc["WIFI"] = "idle" => Len(list["WIFI"]) < OwnerLimit["WIFI"]
  /\ Len(list["WIFI"]) + rxLeft["WIFI"] < OwnerLimit["WIFI"] + MaxChunks

StreamOrder == \A c \in Stream : Ordered(taken[c], list[c], rxLeft[c], sent[c])
UsbOrder == Ordered(taken["USB"], list["USB"],
                    (IF ep # 0 THEN 1 ELSE 0) + (IF tbuf # 0 THEN 1 ELSE 0), sent["USB"])

OrderInv == StreamOrder /\ UsbOrder /\ UsbInv /\ WifiInv

LEMMA Limits ==
  /\ OtherLimit \in Nat /\ Restart \in Nat
  /\ \A c \in Chan : OwnerLimit[c] \in Nat \ {0} /\ OtherLimit <= OwnerLimit[c]
                     /\ Limit(c) \in Nat /\ Limit(c) <= OwnerLimit[c]
  /\ Restart <= OtherLimit
  <1>1. /\ OtherLimit \in Nat /\ Restart \in Nat /\ Restart <= OtherLimit
        /\ \A c \in Chan : OwnerLimit[c] \in Nat \ {0} /\ OtherLimit <= OwnerLimit[c]
    BY ChannelsAssumption DEF ChannelsAssumption
  <1> QED
    BY <1>1 DEF Limit

\* A packet moves from in flight to the list, or from the list to the decoder.
LEMMA Moved ==
  ASSUME NEW t \in Nat, NEW m \in Nat, NEW n \in Nat
  PROVE  t + (m + 1) + (n - 1) = t + m + n /\ (t + 1) + (m - 1) + n = t + m + n
         /\ t + (m + 1) + (n + 0) = t + m + (n + 1)
  OBVIOUS

LEMMA Counts ==
  ASSUME TypeOK, NEW c \in Chan
  PROVE  taken[c] \in Nat /\ sent[c] \in Nat /\ list[c] \in Seq(Nat) /\ Len(list[c]) \in Nat
  BY DEF TypeOK

\* Actions that leave the USB side alone.
LEMMA UsbFrame ==
  ASSUME UsbOrder, UsbInv,
         sent'["USB"] = sent["USB"], list'["USB"] = list["USB"], taken'["USB"] = taken["USB"],
         UNCHANGED <<ep, irq, usbStatus, tbuf>>,
         \/ UNCHANGED <<timerPc, timerCh>>
         \/ {timerPc, timerPc'} \cap {"save", "resume"} = {}
  PROVE  UsbOrder' /\ UsbInv'
  BY DEF UsbOrder, UsbInv, Ordered, Numbered

\* Actions that leave the packets of the streams alone.
LEMMA StreamFrame ==
  ASSUME StreamOrder, WifiInv, UNCHANGED <<taken, rxLeft>>,
         \A c \in Stream : list'[c] = list[c] /\ sent'[c] = sent[c],
         rxPc'["WIFI"] = "idle" => rxPc["WIFI"] = "idle"
  PROVE  StreamOrder' /\ WifiInv'
  BY Sets DEF StreamOrder, WifiInv, Ordered, Numbered

LEMMA OrderInit == Init => OrderInv
  <1> SUFFICES ASSUME Init PROVE OrderInv
    OBVIOUS
  <1>1. StreamOrder /\ UsbOrder
    BY DEF Init, StreamOrder, UsbOrder, Ordered, Numbered, Stream, Flow, Chan
  <1>2. UsbInv /\ WifiInv
    BY Limits, Constants DEF Init, UsbInv, WifiInv, Stream, Flow, Chan
  <1> QED
    BY <1>1, <1>2 DEF OrderInv

LEMMA OrderNext ==
  ASSUME BaseInv, OrderInv, [Next]_vars
  PROVE  OrderInv'
  <1> USE DEF BaseInv, OrderInv, hostVars, usbVars, rxVars, flowVars, timerVars, callVars,
                taskVars, printVars
  <1>1. CASE UNCHANGED <<hostVars, usbVars, rxVars, timerVars, list, taken>>
    <2>1. UsbOrder' /\ UsbInv'
      BY <1>1, UsbFrame
    <2>2. StreamOrder' /\ WifiInv'
      BY <1>1, StreamFrame
    <2> QED
      BY <2>1, <2>2
  <1>2. CASE UsbHostSend
    <2>1. sent' = [sent EXCEPT !["USB"] = @ + 1] /\ ep = 0 /\ ep' = sent["USB"] + 1 /\ irq' = TRUE
          /\ UNCHANGED <<usbStatus, rxVars, timerVars, list, taken>>
      BY <1>2 DEF UsbHostSend, Sends
    <2>2. StreamOrder' /\ WifiInv'
      BY <2>1, StreamFrame DEF TypeOK, Stream, Flow
    <2>3. sent["USB"] \in Nat /\ sent'["USB"] = sent["USB"] + 1
      BY <2>1, Sets DEF TypeOK
    <2>4. UsbOrder'
      <3>1. taken["USB"] \in Nat /\ Len(list["USB"]) \in Nat
        BY Sets DEF TypeOK
      <3> QED
        BY <2>1, <2>3, <3>1 DEF UsbOrder, Ordered
    <2>5. UsbInv'
      BY <2>1, <2>3 DEF UsbInv
    <2> QED
      BY <2>2, <2>4, <2>5
  <1>3. CASE USBPrinterReveiveDataIsr
    <2>1. irq /\ timerPc = "off" /\ tbuf = 0 /\ ep = sent["USB"] /\ ep # 0 /\ irq' = FALSE
          /\ UNCHANGED <<sent, rxVars, timerVars, taken>>
      BY <1>3 DEF USBPrinterReveiveDataIsr, UsbInv
    <2>2. taken["USB"] \in Nat /\ list["USB"] \in Seq(Nat) /\ Len(list["USB"]) \in Nat
      BY Sets DEF TypeOK
    <2>3. CASE Len(list["USB"]) > Limit("USB")
      <3>1. usbStatus' = "CommSuspended" /\ UNCHANGED <<ep, list>>
        BY <1>3, <2>3 DEF USBPrinterReveiveDataIsr
      <3> QED
        BY <2>1, <3>1, StreamFrame DEF UsbOrder, UsbInv, Ordered, Numbered
    <2>4. CASE ~(Len(list["USB"]) > Limit("USB"))
      <3>1. /\ list' = [list EXCEPT !["USB"] = Append(@, ep)]
            /\ ep' = 0 /\ UNCHANGED usbStatus
        BY <1>3, <2>4 DEF USBPrinterReveiveDataIsr
      <3>2. StreamOrder' /\ WifiInv'
        BY <2>1, <3>1, StreamFrame DEF TypeOK, Stream, Flow
      <3>3. list'["USB"] = Append(list["USB"], ep) /\ ep = taken["USB"] + Len(list["USB"]) + 1
        BY <2>1, <2>2, <3>1, Sets DEF UsbOrder, Ordered, TypeOK
      <3>4. Numbered(list'["USB"], taken["USB"]) /\ Len(list'["USB"]) = Len(list["USB"]) + 1
        BY <2>2, <3>3, AppendNumbered DEF UsbOrder, Ordered
      <3>5. UsbOrder'
        BY <2>1, <2>2, <3>1, <3>3, <3>4, SMTT(30) DEF UsbOrder, Ordered
      <3>6. UsbInv'
        <4>1. Limit("USB") \in Nat /\ Limit("USB") <= OwnerLimit["USB"] /\ OwnerLimit["USB"] \in Nat
          BY Limits, Sets
        <4>2. Len(list'["USB"]) <= OwnerLimit["USB"] + 1
          BY <2>2, <2>4, <3>4, <4>1
        <4> QED
          BY <2>1, <3>1, <4>2 DEF UsbInv
      <3> QED
        BY <3>2, <3>5, <3>6
    <2> QED
      BY <2>3, <2>4
  <1>4. ASSUME NEW c \in Stream, RxReceive(c) PROVE OrderInv'
    <2>1. PICK k \in 1..MaxChunks : Sends(c, k) /\ rxLeft' = [rxLeft EXCEPT ![c] = k]
      BY <1>4 DEF RxReceive
    <2>2. /\ rxPc[c] = "idle" /\ rxPc' = [rxPc EXCEPT ![c] = "append"]
          /\ sent' = [sent EXCEPT ![c] = @ + k]
          /\ UNCHANGED <<usbVars, timerVars, list, taken>>
      BY <1>4, <2>1 DEF RxReceive, Sends
    <2>3. c \in Chan /\ c # "USB" /\ k \in Nat \ {0} /\ k <= MaxChunks /\ MaxChunks \in Nat
      BY Constants DEF Stream, Flow, Chan
    <2>4. UsbOrder' /\ UsbInv'
      BY <2>2, <2>3, UsbFrame, Sets DEF TypeOK
    <2>5. rxLeft[c] = 0
      BY <2>2 DEF RxInv, TypeOK
    <2>6. StreamOrder'
      <3> SUFFICES ASSUME NEW d \in Stream
                   PROVE  Ordered(taken'[d], list'[d], rxLeft'[d], sent'[d])
        BY DEF StreamOrder
      <3>1. Ordered(taken[d], list[d], rxLeft[d], sent[d]) /\ d \in Chan
        BY Sets DEF StreamOrder
      <3>2. CASE d = c
        <4>1. rxLeft'[d] = k /\ sent'[d] = sent[d] + k
          BY <2>1, <2>2, <3>1, <3>2 DEF TypeOK
        <4>2. taken[d] \in Nat /\ Len(list[d]) \in Nat /\ sent[d] \in Nat
          BY <3>1 DEF TypeOK
        <4> QED
          BY <2>2, <2>3, <2>5, <3>1, <3>2, <4>1, <4>2 DEF Ordered
      <3>3. CASE d # c
        BY <2>1, <2>2, <3>1, <3>3 DEF TypeOK
      <3> QED
        BY <3>2, <3>3
    <2>7. WifiInv'
      <3>1. CASE c = "WIFI"
        <4>1. rxLeft'["WIFI"] = k /\ rxPc'["WIFI"] = "append"
          BY <2>1, <2>2, <3>1 DEF TypeOK
        <4>2. Len(list["WIFI"]) \in Nat /\ OwnerLimit["WIFI"] \in Nat
          BY Limits, Sets, Counts
        <4> QED
          BY <2>2, <2>3, <3>1, <4>1, <4>2 DEF WifiInv
      <3>2. CASE c # "WIFI"
        BY <2>1, <2>2, <3>2, Sets DEF WifiInv, TypeOK
      <3> QED
        BY <3>1, <3>2
    <2> QED
      BY <2>4, <2>6, <2>7
  <1>5. ASSUME NEW c \in Stream, RxAppend(c) PROVE OrderInv'
    <2>1. /\ rxPc[c] = "append" /\ rxLeft' = [rxLeft EXCEPT ![c] = @ - 1]
          /\ rxPc' = [rxPc EXCEPT ![c] = IF rxLeft[c] = 1 THEN "check" ELSE "append"]
          /\ list' = [list EXCEPT ![c] = Append(@, sent[c] - rxLeft[c] + 1)]
          /\ UNCHANGED <<sent, usbVars, timerVars, taken>>
      BY <1>5 DEF RxAppend
    <2>2. c \in Chan /\ c # "USB"
      BY DEF Stream, Flow, Chan
    <2>3. rxLeft[c] \in Nat \ {0} /\ taken[c] \in Nat /\ list[c] \in Seq(Nat)
          /\ Len(list[c]) \in Nat /\ sent[c] \in Nat
      BY <2>1, <2>2, SMTT(20) DEF RxInv, TypeOK
    <2>4. UsbOrder' /\ UsbInv'
      BY <2>1, <2>2, UsbFrame, Sets DEF TypeOK
    <2>5. Ordered(taken[c], list[c], rxLeft[c], sent[c])
      BY DEF StreamOrder
    <2>6. list'[c] = Append(list[c], taken[c] + Len(list[c]) + 1)
      <3>1. sent[c] - rxLeft[c] + 1 = taken[c] + Len(list[c]) + 1
        BY <2>3, <2>5 DEF Ordered
      <3> QED
        BY <2>1, <2>2, <3>1 DEF TypeOK
    <2>7. Numbered(list'[c], taken[c]) /\ Len(list'[c]) = Len(list[c]) + 1
      BY <2>3, <2>5, <2>6, AppendNumbered DEF Ordered
    <2>8. rxLeft'[c] = rxLeft[c] - 1
      BY <2>1 DEF TypeOK
    <2>9. StreamOrder'
      <3> SUFFICES ASSUME NEW d \in Stream
                   PROVE  Ordered(taken'[d], list'[d], rxLeft'[d], sent'[d])
        BY DEF StreamOrder
      <3>1. CASE d = c
        <4>1. taken[c] + Len(list'[c]) + rxLeft'[c] = sent[c]
          <5>1. taken[c] + Len(list[c]) + rxLeft[c] = sent[c]
            BY <2>5 DEF Ordered
          <5>2. Len(list'[c]) = Len(list[c]) + 1
            BY <2>7
          <5>3. taken[c] + (Len(list[c]) + 1) + (rxLeft[c] - 1) = taken[c] + Len(list[c]) + rxLeft[c]
            BY <2>3, Moved
          <5> QED
            BY <2>8, <5>1, <5>2, <5>3
        <4> QED
          BY <2>1, <2>7, <3>1, <4>1 DEF Ordered
      <3>2. CASE d # c
        BY <2>1, <3>2, Sets DEF StreamOrder, TypeOK
      <3> QED
        BY <3>1, <3>2
    <2>10. WifiInv'
      <3>1. CASE c = "WIFI"
        <4>1. rxPc'["WIFI"] # "idle"
          BY <2>1, <3>1 DEF TypeOK
        <4>2. OwnerLimit["WIFI"] \in Nat /\ MaxChunks \in Nat
          BY Limits, Constants, Sets
        <4> QED
          BY <2>3, <2>7, <2>8, <3>1, <4>1, <4>2 DEF WifiInv
      <3>2. CASE c # "WIFI"
        BY <2>1, <3>2, Sets DEF WifiInv, TypeOK
      <3> QED
        BY <3>1, <3>2
    <2> QED
      BY <2>4, <2>9, <2>10
  <1>6. ASSUME NEW c \in Stream, RxCheck(c) \/ RxHold(c) \/ RxMark(c) PROVE OrderInv'
    <2>1. UNCHANGED <<hostVars, usbVars, rxLeft, timerVars, list, taken>>
      BY <1>6 DEF RxCheck, RxHold, RxMark
    <2>2. rxPc'["WIFI"] = rxPc["WIFI"]
      <3>1. c # "WIFI"
        BY <1>6 DEF RxCheck, RxHold, RxMark, Flow
      <3> QED
        <4>1. \E v : rxPc' = [rxPc EXCEPT ![c] = v]
          BY <1>6 DEF RxCheck, RxHold, RxMark
        <4> QED
          BY <3>1, <4>1 DEF TypeOK
    <2> QED
      BY <2>1, <2>2, UsbFrame, StreamFrame
  <1>7. CASE RxWait
    <2>1. UNCHANGED <<hostVars, usbVars, rxLeft, timerVars, list, taken>>
          /\ Len(list["WIFI"]) < Limit("WIFI")
      BY <1>7 DEF RxWait
    <2>2. UsbOrder' /\ UsbInv' /\ StreamOrder'
      BY <2>1, UsbFrame DEF StreamOrder
    <2>3. WifiInv'
      <3>1. Limit("WIFI") \in Nat /\ Limit("WIFI") <= OwnerLimit["WIFI"]
            /\ OwnerLimit["WIFI"] \in Nat /\ Len(list["WIFI"]) \in Nat
        BY Limits, Sets, Counts
      <3> QED
        BY <2>1, <3>1 DEF WifiInv
    <2> QED
      BY <2>2, <2>3
  <1>8. CASE SppReconnect
    BY <1>8, UsbFrame, StreamFrame DEF SppReconnect
  <1>9. CASE TimerStart \/ \E c \in Flow : TimerPollFlow(c) \/ TimerOpen(c) \/ TimerClear(c)
    <2>1. UNCHANGED <<hostVars, usbVars, rxVars, tbuf, list, taken>>
          /\ {timerPc, timerPc'} \cap {"save", "resume"} = {}
      BY <1>9 DEF TimerStart, TimerPollFlow, TimerOpen, TimerClear, TimerAt, TimerGoes, AfterPoll
    <2> QED
      BY <2>1, UsbFrame, StreamFrame
  <1>10. CASE TimerPollUsb
    <2>1. UNCHANGED <<hostVars, irq, usbStatus, rxVars, list, taken>> /\ timerPc = "poll"
      BY <1>10 DEF TimerPollUsb, TimerAt
    <2>2. StreamOrder' /\ WifiInv'
      BY <2>1, StreamFrame
    <2>3. CASE usbStatus = "CommSuspended" /\ Len(list["USB"]) < Restart
      <3>1. /\ ep # 0 /\ ~irq /\ tbuf = 0 /\ ep = sent["USB"]
            /\ tbuf' = ep /\ ep' = 0 /\ timerPc' = "save" /\ timerCh' = "USB"
        BY <1>10, <2>1, <2>3 DEF TimerPollUsb, TimerGoes, UsbInv
      <3>2. taken["USB"] \in Nat /\ Len(list["USB"]) \in Nat /\ sent["USB"] \in Nat
        BY Sets DEF TypeOK
      <3>3. UsbOrder'
        BY <2>1, <3>1, <3>2 DEF UsbOrder, Ordered
      <3>4. UsbInv'
        BY <2>1, <2>3, <3>1, <3>2 DEF UsbInv, UsbOrder, Ordered
      <3> QED
        BY <2>2, <3>3, <3>4
    <2>4. CASE ~(usbStatus = "CommSuspended" /\ Len(list["USB"]) < Restart)
      <3>1. timerPc' = "poll" /\ UNCHANGED <<tbuf, ep>>
        BY <1>10, <2>4 DEF TimerPollUsb, AfterPoll, TimerGoes
      <3>2. UsbOrder' /\ UsbInv'
        BY <2>1, <3>1, UsbFrame
      <3> QED
        BY <2>2, <3>2
    <2> QED
      BY <2>3, <2>4
  <1>11. CASE TimerSave
    <2>1. /\ timerPc = "save" /\ tbuf # 0 /\ tbuf = taken["USB"] + Len(list["USB"]) + 1
          /\ list' = [list EXCEPT !["USB"] = Append(@, tbuf)] /\ tbuf' = 0
          /\ timerPc' = "resume" /\ timerCh' = "USB"
          /\ UNCHANGED <<hostVars, usbVars, rxVars, taken>>
      BY <1>11 DEF TimerSave, TimerGoes, UsbInv
    <2>2. taken["USB"] \in Nat /\ list["USB"] \in Seq(Nat) /\ Len(list["USB"]) \in Nat
      BY Sets DEF TypeOK
    <2>3. StreamOrder' /\ WifiInv'
      BY <2>1, StreamFrame DEF TypeOK, Stream, Flow
    <2>4. list'["USB"] = Append(list["USB"], taken["USB"] + Len(list["USB"]) + 1)
      BY <2>1, Sets DEF TypeOK
    <2>5. Numbered(list'["USB"], taken["USB"]) /\ Len(list'["USB"]) = Len(list["USB"]) + 1
      BY <2>2, <2>4, AppendNumbered DEF UsbOrder, Ordered
    <2>6. UsbOrder'
      <3>1. taken["USB"] + Len(list["USB"]) + ((IF ep # 0 THEN 1 ELSE 0) + 1) = sent["USB"]
        BY <2>1 DEF UsbOrder, Ordered
      <3>2. taken["USB"] + Len(list'["USB"]) + ((IF ep # 0 THEN 1 ELSE 0) + 0) = sent["USB"]
        <4> DEFINE n == IF ep # 0 THEN 1 ELSE 0
        <4>1. n \in Nat
          OBVIOUS
        <4> HIDE DEF n
        <4>2. taken["USB"] + (Len(list["USB"]) + 1) + (n + 0)
                = taken["USB"] + Len(list["USB"]) + (n + 1)
          BY <2>2, <4>1, Moved
        <4>3. taken["USB"] + Len(list'["USB"]) + (n + 0) = sent["USB"]
          BY <2>5, <3>1, <4>2 DEF n
        <4> QED
          BY <4>3 DEF n
      <3> QED
        BY <2>1, <2>5, <3>2 DEF UsbOrder, Ordered
    <2>7. UsbInv'
      BY <2>1, <2>2, <2>5, Limits, Sets DEF UsbInv
    <2> QED
      BY <2>3, <2>6, <2>7
  <1>12. CASE TimerResume
    <2>1. timerPc = "resume" /\ timerPc' = "poll" /\ usbStatus' = "CommIdle"
          /\ UNCHANGED <<hostVars, ep, irq, tbuf, rxVars, list, taken>>
      BY <1>12 DEF TimerResume, AfterPoll, TimerGoes
    <2>2. StreamOrder' /\ WifiInv'
      BY <2>1, StreamFrame
    <2>3. UsbOrder' /\ UsbInv'
      BY <2>1 DEF UsbOrder, UsbInv, Ordered, Numbered
    <2> QED
      BY <2>2, <2>3
  <1>13. CASE TaskFeed
    <2>1. /\ list' = [list EXCEPT ![cur] = Tail(@)] /\ taken' = [taken EXCEPT ![cur] = dp]
          /\ UNCHANGED <<hostVars, usbVars, rxVars, timerVars>>
          /\ pc = "feed"
      BY <1>13 DEF TaskFeed
    <2>2. cur \in Chan /\ list[cur] \in Seq(Nat) /\ list[cur] # <<>> /\ dp = Head(list[cur])
          /\ taken[cur] \in Nat
      BY <2>1 DEF TaskInv, TypeOK
    <2>3. Numbered(list[cur], taken[cur])
      BY <2>2 DEF StreamOrder, UsbOrder, Ordered, Chan, Stream, Flow
    <2>4. /\ dp = taken[cur] + 1
          /\ Numbered(Tail(list[cur]), taken[cur] + 1)
          /\ Len(list[cur]) \in Nat \ {0} /\ Len(Tail(list[cur])) = Len(list[cur]) - 1
      BY <2>2, <2>3, TailNumbered
    <2>5. /\ taken'[cur] = taken[cur] + 1 /\ list'[cur] = Tail(list[cur])
          /\ \A d \in Chan : d # cur => taken'[d] = taken[d] /\ list'[d] = list[d]
      BY <2>1, <2>2, <2>4 DEF TypeOK
    <2>6. StreamOrder'
      <3> SUFFICES ASSUME NEW d \in Stream
                   PROVE  Ordered(taken'[d], list'[d], rxLeft'[d], sent'[d])
        BY DEF StreamOrder
      <3>1. Ordered(taken[d], list[d], rxLeft[d], sent[d]) /\ d \in Chan
            /\ rxLeft[d] \in Nat /\ sent[d] \in Nat
        BY Sets DEF StreamOrder, TypeOK
      <3>2. CASE d = cur
        <4>1. taken'[d] + Len(list'[d]) + rxLeft[d] = sent[d]
          <5>1. taken[d] + Len(list[d]) + rxLeft[d] = sent[d]
            BY <3>1 DEF Ordered
          <5>2. taken'[d] = taken[d] + 1 /\ Len(list'[d]) = Len(list[d]) - 1
            BY <2>4, <2>5, <3>2
          <5>3. taken[d] \in Nat /\ Len(list[d]) \in Nat \ {0}
            BY <2>2, <2>4, <3>2
          <5>4. (taken[d] + 1) + (Len(list[d]) - 1) + rxLeft[d] = taken[d] + Len(list[d]) + rxLeft[d]
            BY <3>1, <5>3, Moved
          <5> QED
            BY <5>1, <5>2, <5>4
        <4> QED
          BY <2>1, <2>4, <2>5, <3>2, <4>1 DEF Ordered
      <3>3. CASE d # cur
        BY <2>1, <2>5, <3>1, <3>3
      <3> QED
        BY <3>2, <3>3
    <2>7. UsbOrder' /\ UsbInv'
      <3>1. CASE cur = "USB"
        <4>1. taken'["USB"] = taken["USB"] + 1 /\ Len(list'["USB"]) = Len(list["USB"]) - 1
              /\ Numbered(list'["USB"], taken'["USB"])
              /\ taken["USB"] \in Nat /\ Len(list["USB"]) \in Nat \ {0} /\ sent["USB"] \in Nat
          BY <2>2, <2>4, <2>5, <3>1, Sets DEF TypeOK
        <4>2. UNCHANGED <<sent, ep, irq, usbStatus, tbuf, timerPc, timerCh>>
          BY <2>1
        <4>3. UsbOrder'
          BY <4>1, <4>2 DEF UsbOrder, Ordered
        <4>4. UsbInv'
          <5>1. OwnerLimit["USB"] \in Nat /\ Restart \in Nat
            BY Limits, Sets
          <5>2. /\ taken'["USB"] + Len(list'["USB"]) = taken["USB"] + Len(list["USB"])
                /\ Len(list'["USB"]) < Len(list["USB"])
            BY <4>1, SMTT(20)
          <5>3. /\ timerPc = "save" => Len(list'["USB"]) < Restart
                /\ Len(list'["USB"]) <= OwnerLimit["USB"] + 1
            BY <4>1, <5>1, <5>2 DEF UsbInv
          <5> QED
            BY <4>2, <5>2, <5>3 DEF UsbInv
        <4> QED
          BY <4>3, <4>4
      <3>2. CASE cur # "USB"
        BY <2>1, <2>5, <3>2, UsbFrame, Sets
      <3> QED
        BY <3>1, <3>2
    <2>8. WifiInv'
      <3>1. CASE cur = "WIFI"
        <4>1. OwnerLimit["WIFI"] \in Nat /\ MaxChunks \in Nat /\ rxLeft["WIFI"] \in Nat
          BY Limits, Constants, Sets DEF TypeOK
        <4>2. Len(list'["WIFI"]) = Len(list["WIFI"]) - 1 /\ Len(list["WIFI"]) \in Nat
          BY <2>4, <2>5, <3>1
        <4> QED
          BY <2>1, <4>1, <4>2 DEF WifiInv
      <3>2. CASE cur # "WIFI"
        BY <2>1, <2>5, <3>2, Sets DEF WifiInv
      <3> QED
        BY <3>1, <3>2
    <2> QED
      BY <2>6, <2>7, <2>8
  <1>14. CASE TaskSwitch \/ TaskPeek \/ TaskRefused \/ TaskEmpty
    BY <1>14, <1>1 DEF TaskSwitch, TaskPeek, TaskRefused, TaskEmpty
  <1>15. CASE Tick \/ PrintLine \/ PrintStamp
    BY <1>15, <1>1 DEF Tick, PrintLine, PrintStamp
  <1>16. CASE UNCHANGED vars
    BY <1>16, <1>1 DEF vars
  <1> QED
    BY <1>2, <1>3, <1>4, <1>5, <1>6, <1>7, <1>8, <1>9, <1>10, <1>11, <1>12, <1>13, <1>14,
       <1>15, <1>16 DEF Next, RxStep, Timer, Task

\* The order of any one channel.
LEMMA ChanOrder ==
  ASSUME TypeOK, OrderInv, NEW c \in Chan
  PROVE  Ordered(taken[c], list[c], InFlight(c), sent[c]) /\ InFlight(c) \in Nat
  <1>1. CASE c = "USB"
    BY <1>1 DEF OrderInv, UsbOrder, InFlight
  <1>2. CASE c # "USB"
    <2>1. c \in Stream /\ rxLeft[c] \in Nat
      BY <1>2 DEF Chan, Stream, Flow, TypeOK
    <2> QED
      BY <1>2, <2>1 DEF OrderInv, StreamOrder, InFlight
  <1> QED
    BY <1>1, <1>2

LEMMA OrderAlways == Spec => [](BaseInv /\ OrderInv)
  <1>1. Init => BaseInv /\ OrderInv
    BY BaseInit, OrderInit
  <1>2. BaseInv /\ OrderInv /\ [Next]_vars => BaseInv' /\ OrderInv'
    BY BaseNext, OrderNext
  <1> QED
    BY <1>1, <1>2, PTL DEF Spec

\* No packet of any channel is lost, doubled or overtaken on its way to the decoder, for
\* every limit and every traffic.
THEOREM ExactlyOnce == Spec => []ExactlyOnceInOrder
  <1>1. BaseInv /\ OrderInv => ExactlyOnceInOrder
    <2> SUFFICES ASSUME BaseInv, OrderInv, NEW c \in Chan
                 PROVE  /\ taken[c] + Len(list[c]) + InFlight(c) = sent[c]
                        /\ \A i \in 1..Len(list[c]) : list[c][i] = taken[c] + i
      BY DEF ExactlyOnceInOrder
    <2> QED
      BY ChanOrder DEF BaseInv, Ordered, Numbered
  <1> QED
    BY <1>1, OrderAlways, PTL

\* A packet the interrupt handler refused is always waited for by the timer.
THEOREM UsbNeverStranded == Spec => []UsbNotStranded
  <1>1. BaseInv /\ OrderInv => UsbNotStranded
    BY DEF OrderInv, UsbInv, UsbNotStranded
  <1> QED
    BY <1>1, OrderAlways, PTL

\* The throttled USB and TCP lists never exceed the owner's limit by more than one packet and
\* one receive.
THEOREM ListsStayBounded == Spec => []ListsBounded
  <1>1. BaseInv /\ OrderInv => ListsBounded
    BY DEF OrderInv, UsbInv, WifiInv, ListsBounded
  <1> QED
    BY <1>1, OrderAlways, PTL

----------------------------------------------------------------------------
(* Channels implements PrinterPort                                         *)

LEMMA PortInit == Init => Port!Init
  BY DEF Init, Port!Init, Chan

LEMMA PortNext ==
  ASSUME BaseInv, OrderInv, [Next]_vars
  PROVE  [Port!Next]_Port!vars
  <1> USE DEF BaseInv, hostVars, usbVars, rxVars, flowVars, timerVars, callVars, taskVars,
                printVars
  <1>1. CASE UNCHANGED <<sent, taken, method>>
    BY <1>1 DEF Port!vars
  <1>2. ASSUME NEW c \in Chan, NEW k \in Nat \ {0}, Sends(c, k), UNCHANGED <<taken, method>>
        PROVE  Port!Next
    <2>1. sent' = [sent EXCEPT ![c] = @ + k] /\ sent \in [Chan -> Nat]
      BY <1>2 DEF Sends, TypeOK
    <2>2. sent'[c] = sent[c] + k /\ sent[c] \in Nat
      BY <2>1
    <2>3. sent'[c] \in Nat /\ sent'[c] > sent[c]
      BY <2>2
    <2>4. sent' = [sent EXCEPT ![c] = sent'[c]]
      BY <2>1, <2>2
    <2>5. Port!Send(c)
      BY <1>2, <2>3, <2>4 DEF Port!Send
    <2> QED
      BY <2>5 DEF Port!Next
  <1>3. CASE UsbHostSend
    BY <1>3, <1>2, Sets DEF UsbHostSend
  <1>4. ASSUME NEW c \in Stream, RxReceive(c) PROVE Port!Next
    <2>1. PICK k \in 1..MaxChunks : Sends(c, k)
      BY <1>4 DEF RxReceive
    <2>2. k \in Nat \ {0}
      BY Constants
    <2>3. UNCHANGED <<taken, method>>
      BY <1>4 DEF RxReceive
    <2> QED
      BY <1>2, <2>1, <2>2, <2>3, Sets
  <1>5. CASE TaskPeek
    <2>1. pc = "copy" /\ cur \in Chan /\ list[cur] # <<>> /\ UNCHANGED <<sent, taken>>
      BY <1>5 DEF TaskPeek, TypeOK
    <2>2. taken[cur] < sent[cur]
      <3>1. Ordered(taken[cur], list[cur], InFlight(cur), sent[cur])
        BY <2>1, ChanOrder
      <3>2. taken[cur] \in Nat /\ sent[cur] \in Nat /\ InFlight(cur) \in Nat
        BY <2>1, Counts, ChanOrder
      <3>3. Len(list[cur]) \in Nat \ {0}
        BY <2>1, Counts, EmptySeq
      <3> QED
        BY <3>1, <3>2, <3>3 DEF Ordered
    <2>3. CASE method = IDLE
      <3>1. Port!Claim(cur)
        BY <1>5, <2>1, <2>2, <2>3 DEF TaskPeek, Port!Claim
      <3> QED
        BY <2>1, <3>1 DEF Port!Next
    <2>4. CASE method # IDLE
      BY <1>5, <2>1, <2>4, <1>1 DEF TaskPeek
    <2> QED
      BY <2>3, <2>4
  <1>6. CASE TaskFeed
    <2>1. /\ pc = "feed" /\ taken' = [taken EXCEPT ![cur] = dp] /\ UNCHANGED <<sent, method>>
          /\ cur \in Chan /\ method = cur /\ list[cur] # <<>> /\ dp = Head(list[cur])
      BY <1>6 DEF TaskFeed, TypeOK, TaskInv
    <2>2. Ordered(taken[cur], list[cur], InFlight(cur), sent[cur])
      BY <2>1, ChanOrder
    <2>3. taken[cur] \in Nat /\ sent[cur] \in Nat /\ InFlight(cur) \in Nat
      BY <2>1, Counts, ChanOrder
    <2>4. dp = taken[cur] + 1 /\ Len(list[cur]) \in Nat \ {0}
      BY <2>1, <2>2, <2>3, Counts, TailNumbered DEF Ordered
    <2>5. taken[cur] < sent[cur]
      BY <2>2, <2>3, <2>4 DEF Ordered
    <2>6. Port!Deliver(cur)
      BY <2>1, <2>4, <2>5 DEF Port!Deliver
    <2> QED
      BY <2>1, <2>6 DEF Port!Next
  <1>7. CASE TaskEmpty
    <2>1. UNCHANGED <<sent, taken>> /\ method' \in {method, IDLE}
      BY <1>7 DEF TaskEmpty
    <2>2. CASE method' # method
      <3>1. Port!Release
        BY <2>1, <2>2 DEF Port!Release
      <3> QED
        BY <3>1 DEF Port!Next
    <2>3. CASE method' = method
      BY <2>1, <2>3, <1>1
    <2> QED
      BY <2>2, <2>3
  <1>8. CASE USBPrinterReveiveDataIsr \/ SppReconnect \/ Timer
    BY <1>8, <1>1 DEF USBPrinterReveiveDataIsr, SppReconnect, Timer, TimerStart, TimerPollUsb,
       TimerSave, TimerResume, TimerPollFlow, TimerOpen, TimerClear
  <1>9. ASSUME NEW c \in Stream, RxStep(c) PROVE [Port!Next]_Port!vars
    BY <1>9, <1>1 DEF RxStep, RxAppend, RxCheck, RxHold, RxMark, RxWait
  <1>10. CASE TaskSwitch \/ TaskRefused \/ Tick \/ PrintLine \/ PrintStamp
    BY <1>10, <1>1 DEF TaskSwitch, TaskRefused, Tick, PrintLine, PrintStamp
  <1>11. CASE UNCHANGED vars
    BY <1>11, <1>1 DEF vars
  <1> QED
    BY <1>3, <1>4, <1>5, <1>6, <1>7, <1>8, <1>9, <1>10, <1>11 DEF Next, Task

\* The unlocked lists, flags and timeouts together implement the abstract port: one owner at
\* a time, fed its own packets in order.
THEOREM PortImplemented == Spec => ImplementsPort
  <1>1. BaseInv /\ OrderInv /\ [Next]_vars => [Port!Next]_Port!vars
    BY PortNext
  <1> QED
    BY <1>1, PortInit, OrderAlways, PTL DEF Spec, ImplementsPort, Port!Spec
=============================================================================
