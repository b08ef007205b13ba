--------------------------- MODULE PrintEngineProofs ---------------------------
(***************************************************************************)
(* Theorems about PrintEngine for all values of its constants: the list    *)
(* may be of any length, a label of any height, a deceleration of any      *)
(* number of steps.                                                        *)
(*                                                                         *)
(* The inductive invariant IInv joins the types with what the control      *)
(* points of PrintTask and of the motor interrupt know about each other.   *)
(* None of the properties is inductive without the others: the head line   *)
(* the interrupt copies exists because only the interrupt pops meanwhile,  *)
(* which holds because PrintTask waits for the motor.                      *)
(***************************************************************************)
EXTENDS PrintEngine, SequenceTheorems, TLAPS

DataTypes ==
  /\ list \in Seq(Nat) /\ decPage \in Nat /\ ended \in BOOLEAN /\ decoded \in Nat
  /\ latch \in Nat \cup {Blank}

LabelTypes ==
  /\ page \in Nat /\ remain \in Nat \ {0} /\ labelLen \in Nat /\ gaps \in Nat /\ faults \in Nat

ModeTypes ==
  /\ eliminate \in BOOLEAN /\ sensorErr \in BOOLEAN /\ continue \in BOOLEAN
  /\ lockPage \in BOOLEAN /\ paperPos \in {"PrintPos", "CutPos"}
  /\ ready \in BOOLEAN /\ closeOp \in BOOLEAN /\ cover \in BOOLEAN

MotorTypes ==
  /\ status \in {"Stopped", "Running"} /\ headPrint \in BOOLEAN
  /\ suspend \in BOOLEAN /\ finished \in BOOLEAN /\ slow \in 0..Acc

IsrTypes == isr \in IsrPcs /\ empty \in BOOLEAN /\ some \in BOOLEAN /\ drops \in 0..DropLimit

TaskTypes ==
  /\ pc \in TaskPcs /\ nodeCount \in Nat /\ oldCount \in Nat /\ tries \in Nat /\ triesData \in Nat

\* Where PrintTask is while the motor runs, and what kind of run it is; the interrupt is
\* under way only then, and looks at the data only in a print run.
StageInv ==
  /\ status = "Running" =>
       pc \in {"backing", "forwarding", "printing", "cutting"} /\ (headPrint <=> pc = "printing")
  /\ isr # "idle" => status = "Running"
  /\ isr \in {"drop", "dropLast", "size", "line"} => headPrint

\* The list keeps the lines that were counted: those that made a run begin, and the one
\* the interrupt is about to copy.
CountInv ==
  /\ decPage <= MaxPages
  /\ pc \in {"back", "backing", "forwarding", "run"} => Len(list) > StartLines
  /\ isr = "line" /\ some => list # <<>>

IInv == TypeOK /\ StageInv /\ HeatsOnlyInPrintRun /\ CountInv

----------------------------------------------------------------------------

LEMMA Constants ==
  /\ StartLines \in Nat /\ Acc \in Nat /\ Edge \in Nat /\ DropLimit \in Nat
  /\ MaxHeight \in Nat \ {0} /\ Distance \in Nat \ {0} /\ Lengths \subseteq Nat \ {0}
  /\ MaxPages \in Nat
  BY PrintEngineAssumption DEF PrintEngineAssumption

LEMMA TypesSplit ==
  TypeOK <=> DataTypes /\ LabelTypes /\ ModeTypes /\ MotorTypes /\ IsrTypes /\ TaskTypes
  BY DEF TypeOK, DataTypes, LabelTypes, ModeTypes, MotorTypes, IsrTypes, TaskTypes

LEMMA Typed ==
  IInv => /\ DataTypes /\ LabelTypes /\ ModeTypes /\ MotorTypes /\ IsrTypes /\ TaskTypes
          /\ StageInv /\ HeatsOnlyInPrintRun /\ CountInv
  BY TypesSplit DEF IInv

LEMMA InvInit == Init => IInv
  <1> SUFFICES ASSUME Init PROVE IInv
    OBVIOUS
  <1> USE Constants DEF Init
  <1>1. DataTypes /\ LabelTypes
    BY EmptySeq DEF DataTypes, LabelTypes
  <1>2. ModeTypes /\ TaskTypes
    BY DEF ModeTypes, TaskTypes, TaskPcs
  <1>3. MotorTypes
    <2>1. slow \in 0..Acc
      OBVIOUS
    <2> QED
      BY <2>1 DEF MotorTypes
  <1>4. IsrTypes
    <2>1. drops \in 0..DropLimit
      OBVIOUS
    <2> QED
      BY <2>1 DEF IsrTypes, IsrPcs
  <1>5. StageInv /\ HeatsOnlyInPrintRun /\ CountInv
    BY DEF StageInv, HeatsOnlyInPrintRun, CountInv
  <1> QED
    BY <1>1, <1>2, <1>3, <1>4, <1>5, TypesSplit DEF IInv

----------------------------------------------------------------------------
(* Types                                                                   *)

\* A line that is copied exists (CountInv), so it is a page's number.
LEMMA DataTypesNext == IInv /\ [Next]_vars => DataTypes'
  <1> SUFFICES ASSUME IInv, [Next]_vars PROVE DataTypes'
    OBVIOUS
  <1>a. DataTypes /\ CountInv
    BY Typed
  <1> USE Constants, <1>a
      DEF decVars, pageVars, gapVars, motorVars, isrVars, taskVars, coverVars, worldVars, 
          errVars, engineVars, localVars
  <1>1. CASE CommandSetPageStart
    BY <1>1 DEF CommandSetPageStart, DataTypes
  <1>2. CASE WriteLine
    BY <1>2 DEF WriteLine, DataTypes
  <1>3. CASE CommandSetPageEnd
    BY <1>3 DEF CommandSetPageEnd, DataTypes
  <1>4. CASE TickStop
    BY <1>4 DEF TickStop, StopStepMotor, DataTypes
  <1>5. CASE TickDrop
    BY <1>5, SMTT(20) DEF TickDrop, RedundantDataProcessing, Pop, DataTypes
  <1>6. CASE TickDropLast
    BY <1>6, SMTT(20) DEF TickDropLast, Pop, DataTypes
  <1>7. CASE TickLine
    <2>1. list # <<>> \/ UNCHANGED list
      BY <1>7 DEF TickLine, CountInv
    <2>2. list # <<>> => Head(list) \in Nat /\ Tail(list) \in Seq(Nat)
      BY HeadTailProperties DEF DataTypes
    <2>3. list' \in Seq(Nat) /\ latch' \in Nat \cup {Blank}
      BY <1>7, <2>1, <2>2 DEF TickLine, Pop, DataTypes, CountInv
    <2>4. UNCHANGED decVars
      BY <1>7 DEF TickLine
    <2> QED
      BY <2>3, <2>4 DEF DataTypes
  <1>8. CASE PrintEliminate
    BY <1>8, SMTT(20) DEF PrintEliminate, Goto, Pop, DataTypes
  <1>9. CASE \/ TickFeed \/ TickPage \/ TickSize \/ TickMove \/ CoverIsOpen \/ CoverCloses
               \/ CoverIsClosed \/ PrintBegin \/ PrintBack \/ PrintForward \/ PrintRun
               \/ PrintDone \/ PrintError \/ PrintDecide \/ PrintTry \/ PrintAgain
               \/ PrintSettle \/ PrintContinue \/ PrintCut \/ PrintCutDone \/ CoverMoves
    BY <1>9 DEF TickFeed, TickPage, TickSize, TickMove, CoverIsOpen, CoverCloses, CoverIsClosed,
       PrintBegin, PrintBack, PrintForward, PrintRun, PrintDone, PrintError, PrintDecide,
       PrintTry, PrintAgain, PrintSettle, PrintContinue, PrintCut, PrintCutDone, CoverMoves,
       Moves, StepMotorStart, DataTypes
  <1>10. CASE UNCHANGED vars
    BY <1>10 DEF vars, DataTypes
  <1> QED
    BY <1>1, <1>2, <1>3, <1>4, <1>5, <1>6, <1>7, <1>8, <1>9, <1>10
       DEF Next, Decoder, Timer4CallBackMotor, PrintTask

\* A label never has 0 steps: whatever sets the count sets a height or the distance.
LEMMA LabelTypesNext == IInv /\ [Next]_vars => LabelTypes'
  <1> SUFFICES ASSUME IInv, [Next]_vars PROVE LabelTypes'
    OBVIOUS
  <1>a. LabelTypes /\ DataTypes
    BY Typed
  <1> USE Constants, <1>a
      DEF decVars, pageVars, gapVars, motorVars, isrVars, taskVars, coverVars, worldVars, 
          errVars, engineVars, localVars
  <1>1. CASE TickPage
    BY <1>1 DEF TickPage, SamePage, DataBehind, DataAhead, AuthenticPageMangement, Height, Goes,
       LabelTypes, DataTypes
  <1>2. CASE TickMove
    BY <1>2 DEF TickMove, Rotate, GapPasses, LabelsLost, NoGap, Sensors, LabelTypes, DataTypes
  <1>3. CASE CoverIsClosed
    BY <1>3 DEF CoverIsClosed, LabelTypes, DataTypes
  <1>4. CASE PrintBack \/ PrintForward \/ PrintRun \/ PrintCut
    BY <1>4 DEF PrintBack, Moves, StepMotorStart, PrintForward, PrintRun, Height, PrintCut,
       LabelTypes, DataTypes
  <1>5. CASE CoverMoves
    BY <1>5 DEF CoverMoves, LabelTypes, DataTypes
  <1>6. CASE \/ CommandSetPageStart \/ WriteLine \/ CommandSetPageEnd \/ TickStop \/ TickFeed
               \/ TickDrop \/ TickDropLast \/ TickSize \/ TickLine \/ CoverIsOpen
               \/ CoverCloses \/ PrintBegin \/ PrintDone \/ PrintError \/ PrintEliminate
               \/ PrintDecide \/ PrintTry \/ PrintAgain \/ PrintSettle \/ PrintContinue
               \/ PrintCutDone
    BY <1>6 DEF CommandSetPageStart, WriteLine, CommandSetPageEnd, TickStop, TickFeed, TickDrop,
       TickDropLast, TickSize, TickLine, CoverIsOpen, CoverCloses, PrintBegin, PrintDone,
       PrintError, PrintEliminate, PrintDecide, PrintTry, PrintAgain, PrintSettle, PrintContinue,
       PrintCutDone, LabelTypes, DataTypes
  <1>7. CASE UNCHANGED vars
    BY <1>7 DEF vars, LabelTypes, DataTypes
  <1> QED
    BY <1>1, <1>2, <1>3, <1>4, <1>5, <1>6, <1>7
       DEF Next, Decoder, Timer4CallBackMotor, PrintTask

\* The flags.
LEMMA ModeTypesNext == IInv /\ [Next]_vars => ModeTypes'
  <1> SUFFICES ASSUME IInv, [Next]_vars PROVE ModeTypes'
    OBVIOUS
  <1>a. ModeTypes
    BY Typed
  <1> USE Constants, <1>a
      DEF decVars, pageVars, gapVars, motorVars, isrVars, taskVars, coverVars, worldVars, 
          errVars, engineVars, localVars
  <1>1. CASE TickDrop
    BY <1>1 DEF TickDrop, RedundantDataProcessing, Pop, ModeTypes
  <1>2. CASE TickMove
    BY <1>2 DEF TickMove, Rotate, GapPasses, LabelsLost, NoGap, Sensors, ModeTypes
  <1>3. CASE CoverIsOpen \/ CoverCloses \/ CoverIsClosed
    BY <1>3 DEF CoverIsOpen, CoverCloses, CoverIsClosed, ModeTypes
  <1>4. CASE PrintBack \/ PrintForward \/ PrintRun \/ PrintCut
    BY <1>4 DEF PrintBack, Moves, StepMotorStart, PrintForward, PrintRun, Height, PrintCut,
       ModeTypes
  <1>5. CASE PrintDecide \/ PrintContinue \/ PrintCutDone
    BY <1>5 DEF PrintDecide, Goto, PrintContinue, Return, PrintCutDone, ModeTypes
  <1>6. CASE CoverMoves
    BY <1>6 DEF CoverMoves, ModeTypes
  <1>7. CASE \/ CommandSetPageStart \/ WriteLine \/ CommandSetPageEnd \/ TickStop \/ TickFeed
               \/ TickPage \/ TickDropLast \/ TickSize \/ TickLine \/ PrintBegin \/ PrintDone
               \/ PrintError \/ PrintEliminate \/ PrintTry \/ PrintAgain \/ PrintSettle
    BY <1>7 DEF CommandSetPageStart, WriteLine, CommandSetPageEnd, TickStop, StopStepMotor,
       TickFeed, TickPage, SamePage, DataBehind, DataAhead, AuthenticPageMangement, Height, Goes,
       TickDropLast, Pop, TickSize, TickLine, PrintBegin, PrintDone, Goto, PrintError, Return,
       PrintEliminate, PrintTry, PrintAgain, PrintSettle, ModeTypes
  <1>8. CASE UNCHANGED vars
    BY <1>8 DEF vars, ModeTypes
  <1> QED
    BY <1>1, <1>2, <1>3, <1>4, <1>5, <1>6, <1>7, <1>8
       DEF Next, Decoder, Timer4CallBackMotor, PrintTask

\* A deceleration takes Acc steps at most.
LEMMA MotorTypesNext == IInv /\ [Next]_vars => MotorTypes'
  <1> SUFFICES ASSUME IInv, [Next]_vars PROVE MotorTypes'
    OBVIOUS
  <1>a. MotorTypes
    BY Typed
  <1> USE Constants, <1>a
      DEF decVars, pageVars, gapVars, motorVars, isrVars, taskVars, coverVars, worldVars, 
          errVars, engineVars, localVars
  <1>1. CASE TickStop
    BY <1>1 DEF TickStop, StopStepMotor, MotorTypes
  <1>2. CASE TickDrop
    BY <1>2 DEF TickDrop, RedundantDataProcessing, Pop, MotorTypes
  <1>3. CASE TickSize
    BY <1>3 DEF TickSize, MotorTypes
  <1>4. CASE TickMove
    <2>1. slow' \in 0..Acc
      BY <1>4 DEF TickMove, Rotate, MotorTypes
    <2>2. finished' \in BOOLEAN
      BY <1>4 DEF TickMove, Rotate, MotorTypes
    <2>3. suspend' \in BOOLEAN
      BY <1>4 DEF TickMove, Sensors, MotorTypes
    <2>4. UNCHANGED <<status, headPrint>>
      BY <1>4 DEF TickMove
    <2> QED
      BY <2>1, <2>2, <2>3, <2>4 DEF MotorTypes
  <1>5. CASE PrintBack \/ PrintForward \/ PrintRun \/ PrintCut
    <2>1. slow' = 0
      BY <1>5 DEF PrintBack, PrintForward, PrintRun, PrintCut, Moves, StepMotorStart
    <2>2. slow' \in 0..Acc
      BY <2>1
    <2>3. status' = "Running" /\ headPrint' \in BOOLEAN /\ suspend' = FALSE /\ finished' = FALSE
      BY <1>5 DEF PrintBack, PrintForward, PrintRun, PrintCut, Moves, StepMotorStart
    <2> QED
      BY <2>2, <2>3 DEF MotorTypes
  <1>6. CASE \/ CommandSetPageStart \/ WriteLine \/ CommandSetPageEnd \/ TickFeed \/ TickPage
               \/ TickDropLast \/ TickLine \/ CoverIsOpen \/ CoverCloses \/ CoverIsClosed
               \/ PrintBegin \/ PrintDone \/ PrintError \/ PrintEliminate \/ PrintDecide
               \/ PrintTry \/ PrintAgain \/ PrintSettle \/ PrintContinue \/ PrintCutDone
               \/ CoverMoves
    BY <1>6 DEF CommandSetPageStart, WriteLine, CommandSetPageEnd, TickFeed, TickPage,
       TickDropLast, TickLine, CoverIsOpen, CoverCloses, CoverIsClosed, PrintBegin, PrintDone,
       PrintError, PrintEliminate, PrintDecide, PrintTry, PrintAgain, PrintSettle, PrintContinue,
       PrintCutDone, CoverMoves, MotorTypes
  <1>7. CASE UNCHANGED vars
    BY <1>7 DEF vars, MotorTypes
  <1> QED
    BY <1>1, <1>2, <1>3, <1>4, <1>5, <1>6, <1>7
       DEF Next, Decoder, Timer4CallBackMotor, PrintTask

\* The interrupt and its counter of removed lines.
LEMMA IsrTypesNext == IInv /\ [Next]_vars => IsrTypes'
  <1> SUFFICES ASSUME IInv, [Next]_vars PROVE IsrTypes'
    OBVIOUS
  <1>a. IsrTypes
    BY Typed
  <1> USE Constants, <1>a
      DEF decVars, pageVars, gapVars, motorVars, isrVars, taskVars, coverVars, worldVars, 
          errVars, engineVars, localVars
  <1>1. CASE TickFeed
    BY <1>1 DEF TickFeed, IsrTypes, IsrPcs
  <1>2. CASE TickPage
    <2>1. isr' \in IsrPcs /\ empty' \in BOOLEAN
      BY <1>2 DEF TickPage, SamePage, DataBehind, DataAhead, Goes, IsrPcs
    <2>2. drops' \in 0..DropLimit /\ UNCHANGED some
      BY <1>2 DEF TickPage, SamePage, DataBehind, DataAhead, Goes
    <2> QED
      BY <2>1, <2>2 DEF IsrTypes
  <1>3. CASE TickDrop
    BY <1>3 DEF TickDrop, RedundantDataProcessing, Pop, IsrTypes, IsrPcs
  <1>4. CASE TickDropLast
    BY <1>4 DEF TickDropLast, Pop, IsrTypes, IsrPcs
  <1>5. CASE TickSize
    BY <1>5 DEF TickSize, IsrTypes, IsrPcs
  <1>6. CASE TickLine
    BY <1>6 DEF TickLine, Pop, IsrTypes, IsrPcs
  <1>7. CASE TickMove
    <2>1. isr' \in IsrPcs /\ empty' = FALSE /\ some' = FALSE
      BY <1>7 DEF TickMove, IsrPcs
    <2>2. drops' \in 0..DropLimit
      BY <1>7 DEF TickMove
    <2> QED
      BY <2>1, <2>2 DEF IsrTypes
  <1>8. CASE \/ CommandSetPageStart \/ WriteLine \/ CommandSetPageEnd \/ TickStop
               \/ CoverIsOpen \/ CoverCloses \/ CoverIsClosed \/ PrintBegin \/ PrintBack
               \/ PrintForward \/ PrintRun \/ PrintDone \/ PrintError \/ PrintEliminate
               \/ PrintDecide \/ PrintTry \/ PrintAgain \/ PrintSettle \/ PrintContinue
               \/ PrintCut \/ PrintCutDone \/ CoverMoves
    BY <1>8 DEF CommandSetPageStart, WriteLine, CommandSetPageEnd, TickStop, CoverIsOpen,
       CoverCloses, CoverIsClosed, PrintBegin, PrintBack, PrintForward, PrintRun, PrintDone,
       PrintError, PrintEliminate, PrintDecide, PrintTry, PrintAgain, PrintSettle, PrintContinue,
       PrintCut, PrintCutDone, CoverMoves, Moves, StepMotorStart, IsrTypes, IsrPcs
  <1>9. CASE UNCHANGED vars
    BY <1>9 DEF vars, IsrTypes, IsrPcs
  <1> QED
    BY <1>1, <1>2, <1>3, <1>4, <1>5, <1>6, <1>7, <1>8, <1>9
       DEF Next, Decoder, Timer4CallBackMotor, PrintTask

\* PrintTask.
LEMMA TaskTypesNext == IInv /\ [Next]_vars => TaskTypes'
  <1> SUFFICES ASSUME IInv, [Next]_vars PROVE TaskTypes'
    OBVIOUS
  <1>a. TaskTypes /\ DataTypes
    BY Typed
  <1> USE Constants, <1>a
      DEF decVars, pageVars, gapVars, motorVars, isrVars, taskVars, coverVars, worldVars, 
          errVars, engineVars, localVars
  <1>1. CASE CoverIsOpen \/ CoverCloses \/ CoverIsClosed
    BY <1>1 DEF CoverIsOpen, CoverCloses, CoverIsClosed, TaskTypes, TaskPcs, DataTypes
  <1>2. CASE PrintBegin
    BY <1>2 DEF PrintBegin, TaskTypes, TaskPcs, DataTypes
  <1>3. CASE PrintBack \/ PrintForward \/ PrintRun \/ PrintCut
    BY <1>3 DEF PrintBack, Moves, StepMotorStart, PrintForward, PrintRun, Height, PrintCut,
       TaskTypes, TaskPcs, DataTypes
  <1>4. CASE PrintDone
    BY <1>4 DEF PrintDone, Goto, TaskTypes, TaskPcs, DataTypes
  <1>5. CASE PrintError
    BY <1>5 DEF PrintError, Return, Goto, TaskTypes, TaskPcs, DataTypes
  <1>6. CASE PrintEliminate
    BY <1>6 DEF PrintEliminate, Goto, Pop, TaskTypes, TaskPcs, DataTypes
  <1>7. CASE PrintDecide
    BY <1>7 DEF PrintDecide, Goto, TaskTypes, TaskPcs, DataTypes
  <1>8. CASE PrintTry
    BY <1>8 DEF PrintTry, Goto, TaskTypes, TaskPcs, DataTypes
  <1>9. CASE PrintAgain
    BY <1>9 DEF PrintAgain, Goto, TaskTypes, TaskPcs, DataTypes
  <1>10. CASE PrintSettle
    BY <1>10 DEF PrintSettle, Goto, TaskTypes, TaskPcs, DataTypes
  <1>11. CASE PrintContinue
    BY <1>11 DEF PrintContinue, Return, Goto, TaskTypes, TaskPcs, DataTypes
  <1>12. CASE PrintCutDone
    BY <1>12 DEF PrintCutDone, Return, Goto, TaskTypes, TaskPcs, DataTypes
  <1>13. CASE \/ CommandSetPageStart \/ WriteLine \/ CommandSetPageEnd \/ TickStop \/ TickFeed
               \/ TickPage \/ TickDrop \/ TickDropLast \/ TickSize \/ TickLine \/ TickMove
               \/ CoverMoves
    BY <1>13 DEF CommandSetPageStart, WriteLine, CommandSetPageEnd, TickStop, StopStepMotor,
       TickFeed, TickPage, SamePage, DataBehind, DataAhead, AuthenticPageMangement, Height, Goes,
       TickDrop, RedundantDataProcessing, Pop, TickDropLast, TickSize, TickLine, TickMove, Rotate,
       GapPasses, LabelsLost, NoGap, Sensors, CoverMoves, TaskTypes, TaskPcs, DataTypes
  <1>14. CASE UNCHANGED vars
    BY <1>14 DEF vars, TaskTypes, TaskPcs, DataTypes
  <1> QED
    BY <1>1, <1>2, <1>3, <1>4, <1>5, <1>6, <1>7, <1>8, <1>9, <1>10, <1>11, <1>12, <1>13, <1>14
       DEF Next, Decoder, Timer4CallBackMotor, PrintTask

----------------------------------------------------------------------------
(* The control points                                                      *)

\* The motor starts only in a stage that waits for it, and that stage ends only when it rests.
LEMMA StageNext == IInv /\ [Next]_vars => StageInv'
  <1> SUFFICES ASSUME IInv, [Next]_vars PROVE StageInv'
    OBVIOUS
  <1>a. StageInv /\ MotorTypes /\ IsrTypes
    BY Typed
  <1> USE Constants, <1>a
      DEF decVars, pageVars, gapVars, motorVars, isrVars, taskVars, coverVars, worldVars, 
          errVars, engineVars, localVars
  <1>1. CASE TickStop
    BY <1>1 DEF TickStop, StopStepMotor, StageInv, MotorTypes, IsrTypes
  <1>2. CASE TickFeed \/ TickPage
    BY <1>2 DEF TickFeed, TickPage, SamePage, DataBehind, DataAhead, AuthenticPageMangement,
       Height, Goes, StageInv, MotorTypes, IsrTypes
  <1>3. CASE TickDrop \/ TickDropLast
    BY <1>3 DEF TickDrop, RedundantDataProcessing, Pop, TickDropLast, StageInv, MotorTypes,
       IsrTypes
  <1>4. CASE TickSize \/ TickLine \/ TickMove
    BY <1>4 DEF TickSize, TickLine, Pop, TickMove, Rotate, GapPasses, LabelsLost, NoGap, Sensors,
       StageInv, MotorTypes, IsrTypes
  <1>5. CASE PrintBegin
    BY <1>5 DEF PrintBegin, StageInv, MotorTypes, IsrTypes
  <1>6. CASE PrintBack \/ PrintForward \/ PrintRun \/ PrintCut
    BY <1>6 DEF PrintBack, Moves, StepMotorStart, PrintForward, PrintRun, Height, PrintCut,
       StageInv, MotorTypes, IsrTypes
  <1>7. CASE PrintDone \/ PrintError \/ PrintEliminate \/ PrintDecide \/ PrintTry
    BY <1>7 DEF PrintDone, Goto, PrintError, Return, PrintEliminate, Pop, PrintDecide, PrintTry,
       StageInv, MotorTypes, IsrTypes
  <1>8. CASE PrintAgain \/ PrintSettle \/ PrintContinue \/ PrintCutDone
    BY <1>8 DEF PrintAgain, Goto, PrintSettle, PrintContinue, Return, PrintCutDone, StageInv,
       MotorTypes, IsrTypes
  <1>9. CASE \/ CommandSetPageStart \/ WriteLine \/ CommandSetPageEnd \/ CoverIsOpen
               \/ CoverCloses \/ CoverIsClosed \/ CoverMoves
    BY <1>9 DEF CommandSetPageStart, WriteLine, CommandSetPageEnd, CoverIsOpen, CoverCloses,
       CoverIsClosed, CoverMoves, StageInv, MotorTypes, IsrTypes
  <1>10. CASE UNCHANGED vars
    BY <1>10 DEF vars, StageInv, MotorTypes, IsrTypes
  <1> QED
    BY <1>1, <1>2, <1>3, <1>4, <1>5, <1>6, <1>7, <1>8, <1>9, <1>10
       DEF Next, Decoder, Timer4CallBackMotor, PrintTask

\* The latch is filled in a print run and blanked when that run ends.
LEMMA HeatsNext == IInv /\ [Next]_vars => HeatsOnlyInPrintRun'
  <1> SUFFICES ASSUME IInv, [Next]_vars PROVE HeatsOnlyInPrintRun'
    OBVIOUS
  <1>a. HeatsOnlyInPrintRun /\ StageInv /\ MotorTypes
    BY Typed
  <1> USE Constants, <1>a
      DEF decVars, pageVars, gapVars, motorVars, isrVars, taskVars, coverVars, worldVars, 
          errVars, engineVars, localVars
  <1>1. CASE TickStop
    BY <1>1 DEF TickStop, StopStepMotor, StageInv, HeatsOnlyInPrintRun, MotorTypes
  <1>2. CASE TickLine
    BY <1>2 DEF TickLine, Pop, StageInv, HeatsOnlyInPrintRun, MotorTypes
  <1>3. CASE PrintBack \/ PrintForward \/ PrintRun \/ PrintCut
    BY <1>3 DEF PrintBack, Moves, StepMotorStart, PrintForward, PrintRun, Height, PrintCut,
       StageInv, HeatsOnlyInPrintRun, MotorTypes
  <1>4. CASE \/ CommandSetPageStart \/ WriteLine \/ CommandSetPageEnd \/ TickFeed \/ TickPage
               \/ TickDrop \/ TickDropLast \/ TickSize \/ TickMove \/ CoverIsOpen
               \/ CoverCloses \/ CoverIsClosed \/ PrintBegin \/ PrintDone \/ PrintError
               \/ PrintEliminate \/ PrintDecide \/ PrintTry \/ PrintAgain \/ PrintSettle
               \/ PrintContinue \/ PrintCutDone \/ CoverMoves
    BY <1>4 DEF CommandSetPageStart, WriteLine, CommandSetPageEnd, TickFeed, TickPage, TickDrop,
       TickDropLast, TickSize, TickMove, CoverIsOpen, CoverCloses, CoverIsClosed, PrintBegin,
       PrintDone, PrintError, PrintEliminate, PrintDecide, PrintTry, PrintAgain, PrintSettle,
       PrintContinue, PrintCutDone, CoverMoves, StageInv, HeatsOnlyInPrintRun, MotorTypes
  <1>5. CASE UNCHANGED vars
    BY <1>5 DEF vars, StageInv, HeatsOnlyInPrintRun, MotorTypes
  <1> QED
    BY <1>1, <1>2, <1>3, <1>4, <1>5
       DEF Next, Decoder, Timer4CallBackMotor, PrintTask

\* Only the interrupt of a print run and PrintEliminate take lines.
LEMMA CountNext == IInv /\ [Next]_vars => CountInv'
  <1> SUFFICES ASSUME IInv, [Next]_vars PROVE CountInv'
    OBVIOUS
  <1>a. CountInv /\ StageInv /\ DataTypes /\ MotorTypes
    BY Typed
  <1> USE Constants, <1>a
      DEF decVars, pageVars, gapVars, motorVars, isrVars, taskVars, coverVars, worldVars, 
          errVars, engineVars, localVars
  <1>1. CASE WriteLine
    BY <1>1 DEF WriteLine, StageInv, CountInv, DataTypes, MotorTypes
  <1>2. CASE CommandSetPageEnd
    BY <1>2 DEF CommandSetPageEnd, StageInv, CountInv, DataTypes, MotorTypes
  <1>3. CASE TickDrop \/ TickDropLast
    BY <1>3 DEF TickDrop, RedundantDataProcessing, Pop, TickDropLast, StageInv, CountInv,
       DataTypes, MotorTypes
  <1>4. CASE TickSize \/ TickLine
    BY <1>4 DEF TickSize, TickLine, Pop, StageInv, CountInv, DataTypes, MotorTypes
  <1>5. CASE PrintBegin
    BY <1>5 DEF PrintBegin, StageInv, CountInv, DataTypes, MotorTypes
  <1>6. CASE PrintBack \/ PrintForward \/ PrintRun \/ PrintCut
    BY <1>6 DEF PrintBack, Moves, StepMotorStart, PrintForward, PrintRun, Height, PrintCut,
       StageInv, CountInv, DataTypes, MotorTypes
  <1>7. CASE PrintEliminate
    BY <1>7 DEF PrintEliminate, Goto, Pop, StageInv, CountInv, DataTypes, MotorTypes
  <1>8. CASE \/ CommandSetPageStart \/ TickStop \/ TickFeed \/ TickPage \/ TickMove
               \/ CoverIsOpen \/ CoverCloses \/ CoverIsClosed \/ PrintDone \/ PrintError
               \/ PrintDecide \/ PrintTry \/ PrintAgain \/ PrintSettle \/ PrintContinue
               \/ PrintCutDone \/ CoverMoves
    BY <1>8 DEF CommandSetPageStart, TickStop, StopStepMotor, TickFeed, TickPage, SamePage,
       DataBehind, DataAhead, AuthenticPageMangement, Height, Goes, TickMove, Rotate, GapPasses,
       LabelsLost, NoGap, Sensors, CoverIsOpen, CoverCloses, CoverIsClosed, PrintDone, Goto,
       PrintError, Return, PrintDecide, PrintTry, PrintAgain, PrintSettle, PrintContinue,
       PrintCutDone, CoverMoves, StageInv, CountInv, DataTypes, MotorTypes
  <1>9. CASE UNCHANGED vars
    BY <1>9 DEF vars, StageInv, CountInv, DataTypes, MotorTypes
  <1> QED
    BY <1>1, <1>2, <1>3, <1>4, <1>5, <1>6, <1>7, <1>8, <1>9
       DEF Next, Decoder, Timer4CallBackMotor, PrintTask

----------------------------------------------------------------------------
(* The theorems                                                            *)

LEMMA InvNext == IInv /\ [Next]_vars => IInv'
  <1> SUFFICES ASSUME IInv, [Next]_vars PROVE IInv'
    OBVIOUS
  <1>1. (DataTypes /\ LabelTypes /\ ModeTypes /\ MotorTypes /\ IsrTypes /\ TaskTypes)'
    BY DataTypesNext, LabelTypesNext, ModeTypesNext, MotorTypesNext, IsrTypesNext, TaskTypesNext
  <1>2. TypeOK'
    BY <1>1 DEF TypeOK, DataTypes, LabelTypes, ModeTypes, MotorTypes, IsrTypes, TaskTypes
  <1>3. (StageInv /\ HeatsOnlyInPrintRun /\ CountInv)'
    BY StageNext, HeatsNext, CountNext
  <1> QED
    BY <1>2, <1>3 DEF IInv

\* The control points of PrintTask and of the interrupt fit together in every reachable state.
THEOREM Inductive == Spec => []IInv
  BY InvInit, InvNext, PTL DEF Spec

\* Every variable keeps its type; the count of remaining steps never gets to 0 between the
\* interrupt's decrement and its reload.
THEOREM TypeCorrect == Spec => []TypeOK
  <1>1. IInv => TypeOK
    BY DEF IInv
  <1> QED
    BY <1>1, Inductive, PTL

\* Paper is burnt in print runs only, for every length of run and every place where a sensor,
\* the cover or the end of the data stops one.
THEOREM HeatsInPrintRunsOnly == Spec => []HeatsOnlyInPrintRun
  <1>1. IInv => HeatsOnlyInPrintRun
    BY DEF IInv
  <1> QED
    BY <1>1, Inductive, PTL

\* PrintTask counts and removes lines and starts moves only beside a resting motor: the list
\* and the page count, which have no lock, never have two writers but the appending decoder.
THEOREM TaskActsBesideRestingMotor == Spec => []TaskActsAtRest
  <1>1. IInv => TaskActsAtRest
    BY Typed DEF StageInv, MotorTypes, TaskActsAtRest
  <1> QED
    BY <1>1, Inductive, PTL

----------------------------------------------------------------------------
(* PrintEngine implements PrintSpool                                       *)

\* Each action is a step of the abstract list or leaves it alone.
LEMMA StepImplements == IInv /\ [Next]_vars => [Spool!Next]_Spool!vars
  <1> SUFFICES ASSUME IInv, [Next]_vars PROVE [Spool!Next]_Spool!vars
    OBVIOUS
  <1>a. DataTypes /\ MotorTypes /\ IsrTypes /\ StageInv /\ CountInv
    BY Typed
  <1> USE Constants, <1>a
      DEF decVars, pageVars, gapVars, motorVars, isrVars, taskVars, coverVars, worldVars, 
          errVars, engineVars, localVars
  <1>1. CASE WriteLine
    <2>1. \E p \in 0..MaxPages : Spool!Fill(p)
      BY <1>1 DEF WriteLine, Spool!Fill, CountInv, DataTypes
    <2> QED
      BY <2>1 DEF Spool!Next
  <1>2. CASE PrintRun
    <2>1. Spool!Begin
      BY <1>2 DEF PrintRun, Moves, StepMotorStart, Height, Spool!Begin, CountInv
    <2> QED
      BY <2>1 DEF Spool!Next
  <1>3. CASE TickDrop \/ TickDropLast
    <2>1. Spool!Take \/ UNCHANGED Spool!vars
      BY <1>3 DEF TickDrop, RedundantDataProcessing, Pop, TickDropLast, Spool!Take, Spool!vars,
         StageInv
    <2> QED
      BY <2>1 DEF Spool!Next
  <1>4. CASE TickLine
    <2>1. Spool!Take \/ UNCHANGED Spool!vars
      BY <1>4 DEF TickLine, Pop, Spool!Take, Spool!vars, StageInv, CountInv
    <2> QED
      BY <2>1 DEF Spool!Next
  <1>5. CASE PrintDone
    <2>1. Spool!End
      BY <1>5 DEF PrintDone, Goto, Spool!End
    <2> QED
      BY <2>1 DEF Spool!Next
  <1>6. CASE PrintEliminate
    <2>1. Spool!Take \/ Spool!End
      BY <1>6 DEF PrintEliminate, Goto, Pop, Spool!Take, Spool!End
    <2> QED
      BY <2>1 DEF Spool!Next
  <1>7. CASE CoverMoves
    <2>1. Spool!Cover
      BY <1>7 DEF CoverMoves, Spool!Cover, ModeTypes
    <2> QED
      BY <2>1 DEF Spool!Next
  <1>8. CASE CommandSetPageStart \/ CommandSetPageEnd
    BY <1>8 DEF CommandSetPageStart, CommandSetPageEnd, Spool!vars
  <1>9. CASE TickStop \/ TickFeed \/ TickPage \/ TickSize \/ TickMove
    BY <1>9 DEF TickStop, StopStepMotor, TickFeed, TickPage, SamePage, DataBehind, DataAhead,
       AuthenticPageMangement, Height, Goes, TickSize, TickMove, Rotate, GapPasses, LabelsLost,
       NoGap, Sensors, Spool!vars
  <1>10. CASE CoverIsOpen \/ CoverCloses \/ CoverIsClosed \/ PrintBegin
    BY <1>10 DEF CoverIsOpen, CoverCloses, CoverIsClosed, PrintBegin, Spool!vars
  <1>11. CASE PrintBack \/ PrintForward \/ PrintCut
    BY <1>11 DEF PrintBack, Moves, StepMotorStart, PrintForward, PrintCut, Spool!vars
  <1>12. CASE PrintError \/ PrintDecide \/ PrintTry
    BY <1>12 DEF PrintError, Return, Goto, PrintDecide, PrintTry, Spool!vars
  <1>13. CASE PrintAgain \/ PrintSettle \/ PrintContinue \/ PrintCutDone
    BY <1>13 DEF PrintAgain, Goto, PrintSettle, PrintContinue, Return, PrintCutDone, Spool!vars
  <1>14. CASE UNCHANGED vars
    BY <1>14 DEF vars, Spool!vars
  <1> QED
    BY <1>1, <1>2, <1>3, <1>4, <1>5, <1>6, <1>7, <1>8, <1>9, <1>10, <1>11, <1>12, <1>13, <1>14
       DEF Next, Decoder, Timer4CallBackMotor, PrintTask

\* The print engine keeps PrintSpool's promise: the interrupt's pops, on another core than the
\* decoder's appends, and the task's are one queue's, and a run that begins has its lines.
THEOREM EngineImplementsSpool == Spec => ImplementsSpool
  <1>1. Init => Spool!Init
    BY DEF Init, Spool!Init
  <1> QED
    BY <1>1, StepImplements, Inductive, PTL DEF Spec, ImplementsSpool, Spool!Spec
=============================================================================
