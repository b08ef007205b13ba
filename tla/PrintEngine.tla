------------------------------ MODULE PrintEngine ------------------------------
(***************************************************************************)
(* The print engine: Print() in PrintTask (AppDriverCommand.c), the motor  *)
(* with its Timer4 interrupt, and the bookkeeping that matches the pages   *)
(* of the data with the labels under the head (AppDriverBase.c).           *)
(*                                                                         *)
(* Actors, on two cores and without a lock: the decoder, which appends     *)
(* lines to PrintBLink; the motor interrupt, whose accesses to that list   *)
(* are separate steps; PrintTask; the paper and the user at the cover.     *)
(* A line is the number of the page it belongs to.                         *)
(***************************************************************************)
EXTENDS Naturals, Sequences

CONSTANTS
  StartLines,  \* PrintLinkedListSP: a print run starts above it
  Limit,       \* PrintLinkedListCount: the decoder stops at it
  Acc,         \* ACCSteps of a print run: longest deceleration, in steps
  Edge,        \* 16: fewer steps remain on a label whose end is reached
  DropLimit,   \* 25: lines the interrupt removes before it gives up
  MaxHeight,   \* 2400: height of a label of unknown length
  Distance,    \* PrintPosAndGapValue: steps from the gap sensor to the head
  Lengths,     \* lengths the sensor may measure; shorter ones are in GapSensor
  Tries,       \* 8: waits for data of an unfinished page
  DataTries,   \* 15: waits while some data is there
  MaxLines,    \* bound: lines the decoder appends
  MaxPages,    \* bound: pages it ends
  MaxGaps,     \* bound: gaps that reach the sensor
  Blank,       \* what the head's latch holds when no dot is black
  MaxFaults    \* bound: times the cover is opened, paper or labels run out

ASSUME PrintEngineAssumption ==
  /\ StartLines \in Nat /\ Limit \in Nat /\ Acc \in Nat /\ Edge \in Nat /\ DropLimit \in Nat
  /\ 1 < Acc /\ Acc < StartLines /\ StartLines < Limit             \* 5 or 8, 30, 400
  /\ MaxHeight \in Nat \ {0} /\ Distance \in Nat \ {0}
  /\ Lengths \subseteq Nat \ {0}
  /\ Tries \in Nat /\ DataTries \in Nat
  /\ MaxLines \in Nat /\ MaxPages \in Nat /\ MaxGaps \in Nat /\ MaxFaults \in Nat

VARIABLES
  list,       \* PrintBLink
  decPage,    \* command.PageNum
  ended,      \* command.PageEndFlag
  decoded,    \* lines appended so far
  page,       \* Page.PageNum: the label under the head
  remain,     \* Page.RemainderSteps
  eliminate,  \* Page.EliminateRedundanctData
  sensorErr,  \* Page.SensorError
  continue,   \* Page.ContinuePrint
  lockPage,   \* Gap.LockPage
  labelLen,   \* Gap.LabelLength, 0 when unknown
  paperPos,   \* Gap.paperPosition
  status,     \* SMP.Status
  headPrint,  \* SMP.HeadPrint
  suspend,    \* SMP.Suspend
  finished,   \* SMP.StepMotorFinished
  slow,       \* steps since the motor began to decelerate
  isr,        \* where the motor interrupt is
  empty,      \* CompensateEmptyLine
  some,       \* its NodeCount was not 0
  drops,      \* its Count
  latch,      \* page of the line in the head's latch, or Blank
  pc,         \* where Print() is
  nodeCount, oldCount, tries, triesData,   \* its local variables
  ready,      \* PrinterReady_BIT
  closeOp,    \* CoverCloseOperation
  cover,      \* CoverState: the cover is open
  gaps, faults

decVars   == <<decPage, ended, decoded>>
pageVars  == <<page, remain>>
gapVars   == <<lockPage, labelLen>>
motorVars == <<status, headPrint, suspend, finished, slow>>
isrVars   == <<isr, empty, some, drops>>
taskVars  == <<pc, nodeCount, oldCount, tries, triesData>>
coverVars == <<ready, closeOp>>
worldVars == <<cover, gaps, faults>>
errVars   == <<eliminate, sensorErr>>
vars == <<list, decVars, pageVars, errVars, continue, gapVars, paperPos, motorVars, isrVars,
          latch, taskVars, coverVars, worldVars>>

IsrPcs == {"idle", "drop", "dropLast", "size", "line", "move"}
TaskPcs == {"cover", "open", "ready", "back", "backing", "forwarding", "run", "printing", "error",
            "eliminate", "decide", "try", "again", "settle", "after", "cutting"}

\* Every variable has the type of its C declaration; remain, an int that is
\* decremented before it is compared with 0, never gets there by another way.
TypeOK ==
  /\ list \in Seq(Nat) /\ decPage \in Nat /\ ended \in BOOLEAN /\ decoded \in Nat
  /\ page \in Nat /\ remain \in Nat \ {0}
  /\ eliminate \in BOOLEAN /\ sensorErr \in BOOLEAN /\ continue \in BOOLEAN
  /\ lockPage \in BOOLEAN /\ labelLen \in Nat /\ paperPos \in {"PrintPos", "CutPos"}
  /\ status \in {"Stopped", "Running"} /\ headPrint \in BOOLEAN
  /\ suspend \in BOOLEAN /\ finished \in BOOLEAN /\ slow \in 0..Acc
  /\ isr \in IsrPcs /\ empty \in BOOLEAN /\ some \in BOOLEAN /\ drops \in 0..DropLimit
  /\ latch \in Nat \cup {Blank}
  /\ pc \in TaskPcs /\ nodeCount \in Nat /\ oldCount \in Nat
  /\ tries \in Nat /\ triesData \in Nat
  /\ ready \in BOOLEAN /\ closeOp \in BOOLEAN /\ cover \in BOOLEAN
  /\ gaps \in Nat /\ faults \in Nat

Init ==
  /\ list = <<>> /\ decPage = 0 /\ ended = FALSE /\ decoded = 0
  /\ page = 0 /\ remain = MaxHeight
  /\ eliminate = FALSE /\ sensorErr = FALSE /\ continue = FALSE
  /\ lockPage = FALSE /\ labelLen = 0 /\ paperPos = "PrintPos"
  /\ status = "Stopped" /\ headPrint = FALSE /\ suspend = FALSE /\ finished = FALSE /\ slow = 0
  /\ isr = "idle" /\ empty = FALSE /\ some = FALSE /\ drops = 0
  /\ latch = Blank
  /\ pc = "cover" /\ nodeCount = 0 /\ oldCount = 0 /\ tries = 0 /\ triesData = 0
  /\ ready = FALSE /\ closeOp = TRUE
  /\ cover = FALSE /\ gaps = 0 /\ faults = 0

----------------------------------------------------------------------------
(* The decoder, in the order of the hosts' format: page start, lines, end   *)

CommandSetPageStart ==
  /\ ended /\ decPage < MaxPages
  /\ ended' = FALSE
  /\ UNCHANGED <<list, decPage, decoded, pageVars, errVars, continue, gapVars, paperPos, motorVars,
                 isrVars, latch, taskVars, coverVars, worldVars>>

\* WritePrintLinkedList, for a packet that PrintDataManagement has let in.
WriteLine ==
  /\ ~ended /\ decoded < MaxLines
  /\ Len(list) < Limit
  /\ list' = Append(list, decPage)
  /\ decoded' = decoded + 1
  /\ UNCHANGED <<decPage, ended, pageVars, errVars, continue, gapVars, paperPos, motorVars,
                 isrVars, latch, taskVars, coverVars, worldVars>>

CommandSetPageEnd ==
  /\ ~ended /\ decPage < MaxPages
  /\ ended' = TRUE
  /\ decPage' = decPage + 1
  /\ UNCHANGED <<list, decoded, pageVars, errVars, continue, gapVars, paperPos, motorVars,
                 isrVars, latch, taskVars, coverVars, worldVars>>

----------------------------------------------------------------------------
(* The motor                                                               *)

\* The height of a fresh label.
Height == IF labelLen # 0 THEN labelLen ELSE MaxHeight

\* StepMotorStart: the caller finds the motor stopped.
StepMotorStart(print) ==
  /\ status' = "Running" /\ headPrint' = print
  /\ suspend' = FALSE /\ finished' = FALSE /\ slow' = 0
  /\ eliminate' = FALSE /\ sensorErr' = FALSE /\ lockPage' = FALSE
  /\ remain' = IF print /\ ~continue THEN Height ELSE remain
  /\ UNCHANGED <<page, labelLen>>

\* Mutant: the fresh label keeps the steps of the old one.
AuthenticNoReload ==
  /\ remain' = remain - 1
  /\ page' = IF remain > 1 THEN page ELSE page + 1

\* Mutant: the labels are not counted.
AuthenticNoCount ==
  /\ remain' = IF remain > 1 THEN remain - 1 ELSE Height
  /\ page' = page

\* One step less on this label; behind the last one comes a fresh label.
AuthenticPageMangement ==
  IF remain > 1
  THEN remain' = remain - 1 /\ page' = page
  ELSE remain' = Height /\ page' = page + 1

\* Mutant: the head keeps the last line.
StopKeepsLatch ==
  /\ status' = "Stopped"
  /\ UNCHANGED latch

StopStepMotor ==
  /\ status' = "Stopped"
  /\ latch' = IF headPrint THEN Blank ELSE latch

\* The interrupt that finds the motor at rest.
TickStop ==
  /\ status = "Running" /\ isr = "idle" /\ finished
  /\ StopStepMotor
  /\ UNCHANGED <<list, decVars, pageVars, errVars, continue, gapVars, paperPos, headPrint, suspend,
                 finished, slow, isrVars, taskVars, coverVars, worldVars>>

\* A step of a positioning or cutting move: no data, only the motor.
TickFeed ==
  /\ status = "Running" /\ isr = "idle" /\ ~finished /\ ~headPrint
  /\ isr' = "move"
  /\ UNCHANGED <<list, decVars, pageVars, errVars, continue, gapVars, paperPos, motorVars, empty, some,
                 drops, latch, taskVars, coverVars, worldVars>>

----------------------------------------------------------------------------
(* PageDataCalculation, part 1: compare the label with the head of the list *)

\* Its outcome: the interrupt goes on at "next", with or without a blank line.
Goes(next, blank) == isr' = next /\ empty' = blank /\ drops' = 0 /\ UNCHANGED some

SamePage ==
  /\ page = Head(list)
  /\ AuthenticPageMangement
  /\ IF remain' < Edge THEN Goes("dropLast", TRUE) ELSE Goes("size", FALSE)

DataBehind ==
  /\ page > Head(list)
  /\ Goes("drop", TRUE) /\ UNCHANGED pageVars

DataAhead ==
  /\ page < Head(list)
  /\ AuthenticPageMangement
  /\ Goes("size", TRUE)

TickPage ==
  /\ status = "Running" /\ isr = "idle" /\ ~finished /\ headPrint
  /\ \/ list = <<>> /\ AuthenticPageMangement /\ Goes("size", FALSE)
     \/ list # <<>> /\ lockPage /\ Goes("size", FALSE) /\ UNCHANGED pageVars
     \/ list # <<>> /\ ~lockPage /\ (SamePage \/ DataBehind \/ DataAhead)
  /\ UNCHANGED <<list, decVars, errVars, continue, gapVars, paperPos, motorVars, latch, taskVars,
                 coverVars, worldVars>>

\* CopyPageNumISR: the head is removed, and only then its page looked at.
Pop == list' = Tail(list)

\* One round of RedundantDataProcessing(false).
RedundantDataProcessing ==
  \/ /\ list = <<>>
     /\ suspend' = TRUE /\ eliminate' = TRUE
     /\ isr' = "size" /\ UNCHANGED <<list, drops>>
  \/ /\ list # <<>> /\ Pop
     /\ IF page = Head(list) \/ drops = DropLimit
        THEN isr' = "size" /\ UNCHANGED drops
        ELSE drops' = drops + 1 /\ UNCHANGED isr
     /\ UNCHANGED <<suspend, eliminate>>

TickDrop ==
  /\ isr = "drop"
  /\ RedundantDataProcessing
  /\ UNCHANGED <<decVars, pageVars, sensorErr, continue, gapVars, paperPos, status, headPrint,
                 finished, slow, empty, some, latch, taskVars, coverVars, worldVars>>

\* One round of RedundantDataProcessingLastPage.
TickDropLast ==
  /\ isr = "dropLast"
  /\ \/ list = <<>> /\ isr' = "size" /\ UNCHANGED <<list, drops>>
     \/ /\ list # <<>> /\ Pop
        /\ IF page # Head(list) \/ drops = DropLimit
           THEN isr' = "size" /\ UNCHANGED drops
           ELSE drops' = drops + 1 /\ UNCHANGED isr
  /\ UNCHANGED <<decVars, pageVars, errVars, continue, gapVars, paperPos, motorVars, empty, some,
                 latch, taskVars, coverVars, worldVars>>

----------------------------------------------------------------------------
(* PageDataCalculation, part 2: stop the motor?  which line?                *)

\* Too few lines for another run-up, at the end of the label or of the data.
ShouldSuspend(n) == n <= Acc /\ (remain < Acc \/ ~ended)

TickSize ==
  /\ isr = "size"
  /\ suspend' = (suspend \/ ShouldSuspend(Len(list)))
  /\ some' = (list # <<>>)
  /\ isr' = "line"
  /\ UNCHANGED <<list, decVars, pageVars, errVars, continue, gapVars, paperPos, status, headPrint,
                 finished, slow, empty, drops, latch, taskVars, coverVars, worldVars>>

TickLine ==
  /\ isr = "line"
  /\ IF ~empty /\ some
     THEN latch' = Head(list) /\ Pop
     ELSE latch' = Blank /\ UNCHANGED list
  /\ isr' = "move"
  /\ UNCHANGED <<decVars, pageVars, errVars, continue, gapVars, paperPos, motorVars, empty, some,
                 drops, taskVars, coverVars, worldVars>>

----------------------------------------------------------------------------
(* PhaseSwitching and SensorStatusISR: the motor moves, the sensors look    *)

\* ContinueMode ends a deceleration after at most Acc steps, sooner if the
\* run was short; a move of FixedStepsMode is one step here.
Rotate ==
  \/ ~headPrint /\ finished' = TRUE /\ UNCHANGED slow
  \/ headPrint /\ ~suspend /\ UNCHANGED <<finished, slow>>
  \/ headPrint /\ suspend /\ finished' = TRUE /\ UNCHANGED slow
  \/ headPrint /\ suspend /\ slow < Acc /\ slow' = slow + 1 /\ UNCHANGED finished

\* A gap has passed the sensor: PageCompensationByGap, for labels not shorter
\* than Distance, whose length is now known (len) or not yet (0).
GapPasses(len) ==
  /\ labelLen' = len /\ lockPage' = FALSE
  /\ remain' = IF len # 0 /\ remain <= Distance \div 2 THEN remain ELSE Distance
  /\ page' = page

\* HandleLastAuthenticPageGap: no label comes any more, the labels are counted
\* from the data again.
LabelsLost ==
  /\ ~lockPage
  /\ lockPage' = TRUE
  /\ page' = IF list # <<>> THEN Head(list) ELSE page
  /\ UNCHANGED <<remain, labelLen>>

NoGap == UNCHANGED <<pageVars, gapVars>>

\* SensorStatusISR: an open cover stops the motor, as other faults do.
Sensors(fault) ==
  IF cover \/ fault
  THEN suspend' = TRUE /\ sensorErr' = TRUE
  ELSE UNCHANGED <<suspend, sensorErr>>

TickMove ==
  /\ isr = "move"
  /\ isr' = "idle"
  /\ Rotate
  /\ \E fault \in {FALSE} \cup {faults < MaxFaults} :
       /\ \/ NoGap /\ UNCHANGED gaps
          \/ /\ headPrint /\ gaps < MaxGaps
             /\ \E len \in Lengths \cup {labelLen} : GapPasses(len)
             /\ gaps' = gaps + 1
          \/ headPrint /\ fault /\ LabelsLost /\ UNCHANGED gaps
       /\ Sensors(fault)
       /\ faults' = IF fault THEN faults + 1 ELSE faults
  /\ empty' = FALSE /\ some' = FALSE /\ drops' = 0          \* its locals end here
  /\ UNCHANGED <<list, decVars, eliminate, continue, paperPos, status, headPrint, latch, taskVars,
                 coverVars, cover>>

----------------------------------------------------------------------------
(* The cover, as its user moves it                                         *)

CoverMoves ==
  /\ cover \/ faults < MaxFaults
  /\ cover' = ~cover
  /\ faults' = IF cover THEN faults ELSE faults + 1
  /\ UNCHANGED <<list, decVars, pageVars, errVars, continue, gapVars, paperPos, motorVars, isrVars,
                 latch, taskVars, coverVars, gaps>>

----------------------------------------------------------------------------
(* Print(): the cover first                                                *)

engineVars == <<decVars, pageVars, errVars, gapVars, motorVars, isrVars, latch, worldVars>>
localVars  == <<nodeCount, oldCount, tries, triesData>>

\* CoverOperation with the cover open: not ready until it is closed again.
CoverIsOpen ==
  /\ pc = "cover" /\ cover
  /\ ready' = FALSE
  /\ pc' = "open"
  /\ UNCHANGED <<list, engineVars, continue, paperPos, localVars, closeOp>>

CoverCloses ==
  /\ pc = "open" /\ ~cover
  /\ closeOp' = TRUE
  /\ pc' = "ready"
  /\ UNCHANGED <<list, engineVars, continue, paperPos, localVars, ready>>

\* With the cover closed: after an opening, FindGapOperation forgets the labels.
CoverIsClosed ==
  /\ pc = "cover" /\ ~cover
  /\ closeOp => status = "Stopped"
  /\ closeOp' = FALSE
  /\ labelLen' = IF closeOp THEN 0 ELSE labelLen
  /\ lockPage' = (lockPage /\ ~closeOp)
  /\ paperPos' = IF closeOp THEN "CutPos" ELSE paperPos
  /\ ready' = TRUE
  /\ pc' = "ready"
  /\ UNCHANGED <<list, decVars, pageVars, errVars, continue, motorVars, isrVars, latch, localVars, worldVars>>

\* Mutant: a run begins with what there is.
PrintBeginAny ==
  /\ pc = "ready"
  /\ IF ready /\ status = "Stopped" /\ list # <<>>
     THEN /\ nodeCount' = Len(list) /\ oldCount' = Len(list)
          /\ pc' = IF paperPos = "CutPos" THEN "back" ELSE "run"
     ELSE /\ pc' = "cover"
          /\ UNCHANGED <<nodeCount, oldCount>>
  /\ UNCHANGED <<list, engineVars, continue, paperPos, tries, triesData, coverVars>>

\* Is there a reason to print?
PrintBegin ==
  /\ pc = "ready"
  /\ IF ready /\ status = "Stopped" /\ Len(list) > StartLines
     THEN /\ nodeCount' = Len(list) /\ oldCount' = Len(list)
          /\ pc' = IF paperPos = "CutPos" THEN "back" ELSE "run"
     ELSE /\ pc' = "cover"
          /\ UNCHANGED <<nodeCount, oldCount>>
  /\ UNCHANGED <<list, engineVars, continue, paperPos, tries, triesData, coverVars>>

----------------------------------------------------------------------------
(* Print(): the moves of the paper.  "backing" and "forwarding" wait for    *)
(* the move before; elsewhere the motor is at rest (TaskActsAtRest)         *)

Moves(from, to, print) ==
  /\ pc = from /\ status = "Stopped"
  /\ StepMotorStart(print)
  /\ pc' = to
  /\ UNCHANGED <<list, decVars, continue, isrVars, latch, localVars, coverVars, worldVars>>

PrintBack == Moves("back", "backing", FALSE) /\ UNCHANGED paperPos
PrintForward == Moves("backing", "forwarding", FALSE) /\ UNCHANGED paperPos
PrintRun == (Moves("forwarding", "printing", TRUE) \/ Moves("run", "printing", TRUE))
            /\ paperPos' = "PrintPos"

Goto(from, to) ==
  /\ pc = from
  /\ pc' = to

\* Print() returns and is called again: its locals end here.
Return(from) ==
  /\ Goto(from, "cover")
  /\ nodeCount' = 0 /\ oldCount' = 0 /\ tries' = 0 /\ triesData' = 0

\* Mutant: it does not wait for the motor.
PrintDoneEarly ==
  /\ Goto("printing", IF sensorErr THEN "error" ELSE IF eliminate THEN "eliminate" ELSE "decide")
  /\ UNCHANGED <<list, engineVars, continue, paperPos, localVars, coverVars>>

PrintDone ==
  /\ status = "Stopped"
  /\ Goto("printing", IF sensorErr THEN "error" ELSE IF eliminate THEN "eliminate" ELSE "decide")
  /\ UNCHANGED <<list, engineVars, continue, paperPos, localVars, coverVars>>

\* SensorErrDuringPrintProcess.
PrintError ==
  /\ ~cover
  /\ Return("error")
  /\ UNCHANGED <<list, engineVars, continue, paperPos, coverVars>>

\* One round of RedundantDataProcessing(true).
PrintEliminate ==
  /\ \/ list = <<>> /\ Goto("eliminate", "decide") /\ UNCHANGED list
     \/ /\ list # <<>> /\ Pop
        /\ Goto("eliminate", IF page = Head(list) THEN "decide" ELSE "eliminate")
  /\ UNCHANGED <<engineVars, continue, paperPos, localVars, coverVars>>

----------------------------------------------------------------------------
(* Print(): go on, wait for more data, or feed the paper to be cut          *)

\* The end of the page is looked at here, and again in PrintTry.
PrintDecide ==
  /\ continue' = FALSE
  /\ tries' = 0
  /\ Goto("decide", IF ended THEN "settle" ELSE "try")
  /\ UNCHANGED <<list, engineVars, paperPos, nodeCount, oldCount, triesData, coverVars>>

PrintTry ==
  /\ tries' = tries + 1 /\ triesData' = 0
  /\ Goto("try", IF ended THEN "after" ELSE "again")
  /\ UNCHANGED <<list, engineVars, continue, paperPos, nodeCount, oldCount, coverVars>>

\* Mutant: every wait that finds data starts the count again.
PrintAgainForEver ==
  /\ nodeCount' = Len(list) /\ oldCount' = Len(list) /\ triesData' = 0
  /\ Goto("again", IF list # <<>> /\ ~ended THEN "again" ELSE "after")
  /\ UNCHANGED <<list, engineVars, continue, paperPos, tries, coverVars>>

\* One wait of 800 ms; the count of waits begins again when data has come.
PrintAgain ==
  LET n == Len(list)
      waits == (IF n = oldCount THEN triesData ELSE 0) + 1
      last == waits > DataTries \/ ended
  IN /\ nodeCount' = n /\ oldCount' = n
     /\ \/ /\ n \in 1..Limit - 1
           /\ triesData' = waits
           /\ Goto("again", IF last THEN "after" ELSE "again")
        \/ /\ n \notin 1..Limit - 1
           /\ UNCHANGED triesData
           /\ Goto("again", IF n = 0 /\ tries <= Tries THEN "try" ELSE "after")
     /\ UNCHANGED <<list, engineVars, continue, paperPos, tries, coverVars>>

PrintSettle ==
  /\ nodeCount' = Len(list)
  /\ Goto("settle", "after")
  /\ UNCHANGED <<list, engineVars, continue, paperPos, oldCount, tries, triesData, coverVars>>

PrintContinue ==
  /\ nodeCount > StartLines
  /\ continue' = TRUE
  /\ Return("after")
  /\ UNCHANGED <<list, engineVars, paperPos, coverVars>>

PrintCut == nodeCount <= StartLines /\ Moves("after", "cutting", FALSE) /\ UNCHANGED paperPos

PrintCutDone ==
  /\ status = "Stopped"
  /\ Return("cutting")
  /\ paperPos' = "CutPos"
  /\ UNCHANGED <<list, engineVars, continue, coverVars>>

----------------------------------------------------------------------------

Decoder == CommandSetPageStart \/ WriteLine \/ CommandSetPageEnd

Timer4CallBackMotor == TickStop \/ TickFeed \/ TickPage \/ TickDrop \/ TickDropLast \/ TickSize
                       \/ TickLine \/ TickMove

PrintTask ==
  \/ CoverIsOpen \/ CoverCloses \/ CoverIsClosed \/ PrintBegin
  \/ PrintBack \/ PrintForward \/ PrintRun \/ PrintDone \/ PrintError \/ PrintEliminate
  \/ PrintDecide \/ PrintTry \/ PrintAgain \/ PrintSettle \/ PrintContinue \/ PrintCut \/ PrintCutDone

Next == Decoder \/ Timer4CallBackMotor \/ PrintTask \/ CoverMoves

Spec == Init /\ [][Next]_vars

\* The timer fires while the motor runs and the scheduler runs PrintTask; the
\* decoder, the paper and the user owe nothing.
Fairness == WF_vars(Timer4CallBackMotor) /\ WF_vars(PrintTask)
LiveSpec == Spec /\ Fairness

----------------------------------------------------------------------------
(* Properties                                                              *)

\* Only a print run heats the paper.  Timer1 strobes the head whenever HeadPrint
\* is set, which no stop resets, and nothing takes the strobe off its PWM channel
\* when a cutting move starts: it is the blank latch left by StopStepMotor
\* (589-590) that keeps resting and merely fed paper from being burnt.
HeatsOnlyInPrintRun == latch # Blank => status = "Running" /\ headPrint

\* Once a print run is over, and until the next move starts, the motor and its
\* interrupt are at rest: PrintTask removes lines (RedundantDataProcessing(true)),
\* counts them and starts moves with nothing running beside it.  The interrupt
\* pops the same unprotected list, and StepMotorStart ignores a running motor.
TaskActsAtRest ==
  pc \in {"back", "run", "eliminate", "decide", "try", "again", "settle", "after"} =>
    isr = "idle" /\ status = "Stopped"

\* The engine keeps the promise of PrintSpool: its several pops are one queue's,
\* a run that begins has its lines although they were counted long before.
Spool == INSTANCE PrintSpool WITH
  Pages <- 0..MaxPages, spool <- list, blocked <- cover,
  mode <- CASE pc = "printing" -> "printing" [] pc = "eliminate" -> "clearing" [] OTHER -> "idle"
ImplementsSpool == Spool!Spec

\* A backlog is worked off unless the cover stays open: no suspended run, retry
\* loop or redundant page keeps the decoder waiting (DataManagementTask refuses
\* input above Limit; Channels and Decoder rely on this).
BacklogDrains == <>[]cover \/ []<>(Len(list) <= StartLines)

\* Every run of the motor ends, whatever the paper, the cover and the data do.
MotorStops == []<>(status = "Stopped")

\* A line that is removed without being printed is redundant: its page is not
\* the one the head is about to print ("if data page changes, delete processing
\* ends", AppDriverBase.c:434).
OnlyRedundantRemoved ==
  [][list # <<>> /\ list' = Tail(list) /\ isr # "line" =>
       \/ Head(list) < page
       \/ isr = "dropLast" /\ Head(list) = page]_vars
=============================================================================
