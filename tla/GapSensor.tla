------------------------------- MODULE GapSensor -------------------------------
(***************************************************************************)
(* How a print run keeps its pages on the labels (AppDriverBase.c): in each *)
(* step the motor interrupt counts one step off the label under the head   *)
(* (AuthenticPageMangement) and samples the gap sensor, which looks at the  *)
(* paper Distance steps before the head (GapCalculate).  The label's length *)
(* is measured from gap to gap, and the count is corrected whenever a gap   *)
(* has passed the sensor (PageCompensationByGap).                           *)
(*                                                                         *)
(* The paper is the environment: labels of equal length with a gap between *)
(* them, some with a small dark spot, and bare backing behind the last one. *)
(* Lengths are in motor steps, 8 to a millimetre; a label's length includes *)
(* its gap.  The pages of the data are those of the labels; how the two are *)
(* matched when they are not is in PrintEngine.                             *)
(***************************************************************************)
EXTENDS Integers, Sequences, FiniteSets

CONSTANTS
  Papers,      \* [len, gap, start, spot, stops, late]: start is where the sensor is
               \* at first; bounds: the run stops for want of data at most stops times,
               \* and late steps of a label only remove redundant lines
  Labels,      \* bound: gaps before the bare backing
  Distance,    \* Nvs.PrintPosAndGapValue: steps from the sensor to the head
  MaxHeight,   \* 2400: height of a label of unknown length
  Dark, Light, \* what the sensor reads on a gap and on a label
  FirstThreshold,  \* 500: threshold before it is learned
  Doubtful,    \* lengths at which a label may get two pages
  Settling,    \* gaps after a stop until the count is right again
  MaxBacking   \* bound: steps of bare backing

ASSUME GapSensorAssumption ==
  /\ \A p \in Papers : /\ p.len \in Nat /\ p.gap \in Nat /\ p.start \in Nat
                       /\ p.spot \in Nat /\ p.stops \in Nat /\ p.late \in Nat
                       /\ 0 < p.gap /\ p.gap < p.len
  /\ Labels \in Nat /\ Settling \in Nat
  /\ Distance \in Nat /\ 7 < Distance
  /\ MaxHeight \in Nat \ {0}
  /\ Dark \in Nat /\ Light \in Nat /\ FirstThreshold \in Nat
  /\ Dark < FirstThreshold /\ FirstThreshold <= Light /\ Light < 1023
  /\ MaxBacking \in Nat

VARIABLES
  paper,      \* the paper that was put in
  pos,        \* where the sensor is on it
  remain,     \* Page.RemainderSteps
  page,       \* Page.PageNum
  labelLen,   \* Gap.LabelLength, 0 when unknown
  steps,      \* Gap.StepsCount
  gapPos,     \* Gap.StepsGapPos, 0 when unknown
  countGap,   \* Gap.CountGap, an unsigned char
  gapIn,      \* Gap.GapIn
  inGap,      \* Gap.CountLastAuthenticPageGap
  lockPage,   \* Gap.LockPage
  suspend,    \* SMP.Suspend with Page.SensorError
  threshold, learned,  \* threshold, gapCalculated
  window,     \* rawBuf: for the last 16 samples, was it dark?
  darks,      \* of the samples in d16min, how many are dark
  lights,     \* of the samples in d16max, how many are light
  minCount, maxCount,
  stops, behind,       \* counters for the bounds
  turn,       \* history: where the sensor was at the last page turn, 0 before
  seen,       \* history: gaps that passed since the run began or went on
  past        \* history: the run has stopped with the backing under the sensor, for
              \* three steps or more

pageVars  == <<remain, page>>
gapVars   == <<labelLen, steps, gapPos, countGap, gapIn, inGap, lockPage, suspend>>
learnVars == <<threshold, learned, window, darks, lights, minCount, maxCount>>
history   == <<turn, seen, past>>
vars == <<paper, pos, pageVars, gapVars, learnVars, stops, behind, history>>

\* The count of remaining steps is decremented before it is compared with 0,
\* and the shift register is 8 bits wide.
TypeOK ==
  /\ paper \in Papers /\ pos \in Nat
  /\ remain \in Nat \ {0} /\ page \in Nat
  /\ labelLen \in Nat /\ steps \in Nat /\ gapPos \in Nat
  /\ countGap \in 0..255 /\ gapIn \in BOOLEAN /\ inGap \in Nat
  /\ lockPage \in BOOLEAN /\ suspend \in BOOLEAN
  /\ threshold \in Nat /\ learned \in BOOLEAN
  /\ window \in Seq(BOOLEAN) /\ darks \in 0..16 /\ lights \in 0..16
  /\ minCount \in 0..16 /\ maxCount \in 0..16
  /\ stops \in Nat /\ behind \in Nat
  /\ turn \in Nat /\ seen \in Nat /\ past \in BOOLEAN

Init ==
  /\ paper \in Papers /\ pos = paper.start
  /\ remain = MaxHeight /\ page = 0
  /\ labelLen = 0 /\ steps = 0 /\ gapPos = 0
  /\ countGap = 0 /\ gapIn = FALSE /\ inGap = 0
  /\ lockPage = FALSE /\ suspend = FALSE
  /\ threshold = FirstThreshold /\ learned = FALSE
  /\ window = <<>> /\ darks = 0 /\ lights = 0
  /\ minCount = 0 /\ maxCount = 0
  /\ stops = 0 /\ behind = 0
  /\ turn = 0 /\ seen = 0 /\ past = FALSE

----------------------------------------------------------------------------
(* The paper                                                               *)

\* Each label begins with the gap before it; the first label has none.
Backing == Labels * paper.len
IsDark(x) ==
  \/ x >= Backing
  \/ x >= paper.len /\ x % paper.len < paper.gap
  \/ paper.spot > 0 /\ x % paper.len \in paper.spot .. paper.spot + 1

Adc == IF IsDark(pos) THEN Dark ELSE Light

----------------------------------------------------------------------------
(* The threshold between dark and light (GapCalculate, 761-798)            *)

Clamp(n) == IF n < 0 THEN 0 ELSE IF n > 12 THEN 12 ELSE n
AtMost16(n) == IF n > 16 THEN 16 ELSE n
CountOf(w, b) == Cardinality({i \in DOMAIN w : w[i] = b})

\* insertSorted: both sides share one ring of samples, and a side takes a copy
\* of it with each sample of its own.
Sampled(dark) ==
  IF Len(window) = 16 THEN Append(Tail(window), dark) ELSE Append(window, dark)

\* Mutant: one side only.
MiddleOneSide(d, l) == (Clamp(d - 3) * Dark + (12 - Clamp(d - 3)) * Light) \div 12

\* Of the 16 sorted samples of a side the first three and the last are left out.
Middle(d, l) == (Clamp(d - 3) * Dark + (12 - Clamp(d - 3)) * Light
                 + Clamp(l - 3) * Light + (12 - Clamp(l - 3)) * Dark) \div 24

Learn ==
  IF learned THEN UNCHANGED learnVars
  ELSE LET dark == Adc < threshold
       IN /\ window' = Sampled(dark)
          /\ darks' = IF dark THEN CountOf(window', TRUE) ELSE darks
          /\ lights' = IF dark THEN lights ELSE CountOf(window', FALSE)
          /\ minCount' = IF dark THEN AtMost16(minCount + 1) ELSE minCount
          /\ maxCount' = IF dark THEN maxCount ELSE AtMost16(maxCount + 1)
          /\ learned' = (minCount' = 16 /\ maxCount' = 16)
          /\ threshold' = IF learned' THEN Middle(darks', lights') ELSE threshold

----------------------------------------------------------------------------
(* The steps that remain on the label under the head                       *)

\* Mutant: the fresh label gets no steps.
CountedNoReload(r, p, len) ==
  [remain |-> r - 1, page |-> IF r > 1 THEN p ELSE p + 1, len |-> len]

\* AuthenticPageMangement: r steps remain on page p, a fresh label has len.
Counted(r, p, len) ==
  IF r > 1 THEN [remain |-> r - 1, page |-> p, len |-> len]
  ELSE [remain |-> IF len # 0 THEN len ELSE MaxHeight, page |-> p + 1, len |-> len]

Near(a, r) == a + 40 > r /\ a < r + 40
AtLeast1(n) == IF n = 0 THEN 1 ELSE n

\* Mutant: without the delay.
AheadUndelayed == Distance

\* The gap's end has left the sensor 7 steps ago, when the shift register shows it.
Ahead == Distance - 7

\* i labels of length len lie between the sensor and the head's label.
Ends(i, r, len) == Ahead <= i * len \/ Near(Ahead - i * len, r)
Fits(i, r, len) == Ends(i, r, len) /\ \A j \in 1..i - 1 : ~Ends(j, r, len)

\* The head is above a gap: the label ends sooner by what was left of it.
OverTheGap(r, p, len) ==
  IF len > r /\ r < 20
  THEN Counted(1, p, len - r)
  ELSE [remain |-> Ahead, page |-> p, len |-> len]

\* The count is far from every estimate: begin the label that must be there.
Dragged(r, len) ==
  IF \E j \in 1..4 : Ahead < j * len
  THEN LET j == CHOOSE k \in 1..4 : Ahead < k * len /\ \A i \in 1..k - 1 : Ahead >= i * len
       IN IF j = 1 THEN 1 ELSE AtLeast1(Ahead - (j - 1) * len)
  ELSE r

ShortLabel(r, p, len) ==
  IF \E i \in 1..4 : Fits(i, r, len)
  THEN LET i == CHOOSE k \in 1..4 : Fits(k, r, len)
           a == Ahead - i * len
       IN IF Ahead > i * len
          THEN [remain |-> IF r < 20 /\ r < a THEN r ELSE a, page |-> p, len |-> len]
          ELSE IF Near(-a, r) THEN OverTheGap(r, p, len)
          ELSE [remain |-> Dragged(r, len), page |-> p, len |-> len]
  ELSE [remain |-> r, page |-> p, len |-> len]

LongLabel(r, p, len) ==
  [remain |-> IF len # 0 /\ r <= Distance \div 2 THEN r ELSE Distance, page |-> p, len |-> len]

PageCompensationByGap(m) ==
  IF m.len # 0 /\ m.len < Distance
  THEN ShortLabel(m.remain, m.page, m.len)
  ELSE LongLabel(m.remain, m.page, m.len)

----------------------------------------------------------------------------
(* GapCalculate, the gap; m is the page count after this step               *)

Keep(m) == remain' = m.remain /\ page' = m.page /\ labelLen' = m.len

Shifted == IF Adc < threshold' THEN (countGap * 2 + 1) % 256 ELSE countGap \div 2

\* Mutant: one dark sample is a gap.
GapBeginsAtOnce == countGap' = 1 /\ ~gapIn

GapBegins == countGap' = 7 /\ ~gapIn
GapEnds == countGap' = 1 /\ gapIn

\* Three dark samples: the length is known from the second gap on.
BeginGap(m) ==
  /\ GapBegins
  /\ Keep([m EXCEPT !.len = IF gapPos # 0 THEN steps' - gapPos ELSE @])
  /\ gapPos' = steps' /\ gapIn' = TRUE /\ inGap' = 1 /\ lockPage' = FALSE
  /\ UNCHANGED <<suspend, seen>>

\* Mutant: CalculateCompensate is not set.
EndGapUncorrected(m) ==
  /\ GapEnds
  /\ Keep(m)
  /\ gapIn' = FALSE /\ lockPage' = FALSE
  /\ suspend' = (suspend \/ steps' - gapPos > 80)
  /\ seen' = seen + 1
  /\ UNCHANGED <<gapPos, inGap>>

\* A gap above 10 mm: labels are missing.
EndGap(m) ==
  /\ GapEnds
  /\ Keep(PageCompensationByGap(m))
  /\ gapIn' = FALSE /\ lockPage' = FALSE
  /\ suspend' = (suspend \/ steps' - gapPos > 80)
  /\ seen' = seen + 1
  /\ UNCHANGED <<gapPos, inGap>>

\* Mutant: the steps in the gap are not counted.
StayInGapUncounted(m) ==
  /\ gapIn /\ ~GapEnds
  /\ Keep(m)
  /\ UNCHANGED <<gapPos, gapIn, inGap, lockPage, suspend, seen>>

\* HandleLastAuthenticPageGap: a gap without an end.
StayInGap(m) ==
  /\ gapIn /\ ~GapEnds
  /\ Keep(m)
  /\ inGap' = inGap + 1
  /\ LET lost == steps' - gapPos > 80 /\ inGap' > 270 /\ ~lockPage
     IN lockPage' = (lockPage \/ lost) /\ suspend' = (suspend \/ lost)
  /\ UNCHANGED <<gapPos, gapIn, seen>>

StayOnLabel(m) ==
  /\ ~gapIn /\ ~GapBegins
  /\ Keep(m)
  /\ UNCHANGED <<gapPos, gapIn, inGap, lockPage, suspend, seen>>

----------------------------------------------------------------------------
(* One step of a print run: Timer4CallBackMotor                             *)

Uncounted == [remain |-> remain, page |-> page, len |-> labelLen]

\* Behind a page turn some steps may go by that remove redundant lines and do not
\* count the step (DataBehind of PrintEngine); a locked page does not count either.
Step(m) ==
  /\ ~suspend /\ pos < Backing + MaxBacking
  /\ pos' = pos + 1 /\ steps' = steps + 1
  /\ Learn
  /\ countGap' = Shifted
  /\ BeginGap(m) \/ EndGap(m) \/ StayInGap(m) \/ StayOnLabel(m)
  /\ turn' = IF page' = page THEN turn ELSE pos
  /\ UNCHANGED <<paper, stops, past>>

StepCounts ==
  /\ Step(IF lockPage THEN Uncounted ELSE Counted(remain, page, labelLen))
  /\ behind' = 0

StepBehind ==
  /\ ~lockPage /\ behind < paper.late /\ turn > 0 /\ pos <= turn + paper.late
  /\ Step(Uncounted)
  /\ behind' = behind + 1

\* Too few lines: the motor stops, and StepMotorStart goes on with ContinuePrint.
StopAndContinue ==
  /\ ~suspend /\ stops < paper.stops
  /\ stops' = stops + 1
  /\ gapIn' = FALSE /\ lockPage' = FALSE
  /\ steps' = 0 /\ gapPos' = 0
  /\ seen' = 0 /\ past' = (past \/ pos > Backing + 2)
  /\ UNCHANGED <<paper, pos, pageVars, labelLen, countGap, inGap, suspend, learnVars, behind, turn>>

Next == StepCounts \/ StepBehind \/ StopAndContinue

Spec == Init /\ [][Next]_vars

----------------------------------------------------------------------------
(* Properties                                                              *)

\* The measured length is "total length of one label include the gap height" (812),
\* less the gap when the run stopped with a gap under the sensor (its start is then
\* seen at its end), less a few steps when the head was over a gap (638).  The papers
\* stop once at most: each stop delays the next measurement, and 638 may shorten again.
LabelMeasured ==
  labelLen # 0 => labelLen \in paper.len - paper.gap - 2 .. paper.len

\* However often the run stops, no length comes from anything but two gaps: it only changes
\* to what lies between two of their edges (812), or by less than 20 steps when the head is
\* over a gap (633-638).  A spot is never taken for a gap.
NewLength ==
  labelLen' # labelLen =>
    \/ labelLen' \in {paper.len, paper.len - paper.gap - 2}
    \/ labelLen - 20 < labelLen' /\ labelLen' < labelLen
LengthMeasured == [][NewLength]_vars

\* The threshold learned from the first gaps keeps a quarter of the signal's range
\* to either side, although both sides' samples go through one ring (716-752).
ThresholdApart ==
  learned => /\ 4 * (threshold - Dark) >= Light - Dark
             /\ 4 * (Light - threshold) >= Light - Dark

\* The bare backing, a gap without an end, suspends the run 270 steps behind the third
\* one (HandleLastAuthenticPageGap, 698), whatever was counted in the gaps before and
\* wherever on the labels the run stopped.  Not so when it stops over the backing:
\* ContinuePrint clears GapIn but not CountGap, which never passes 7 again, and the run
\* goes on without labels.
EndOfLabelsSeen == pos >= Backing + 273 /\ ~past => suspend

Settled == seen > Settling

\* The head is within a millimetre of where a gap ends and a label begins.
HeadAtLabel ==
  \E k \in 0..Labels + 3 : pos - Distance - (k * paper.len + paper.gap) \in -8..8

\* However many gaps lie between the sensor and the head, and although a stop spoils a
\* measurement: a page turns where a label begins (PageCompensationByGap,
\* AuthenticPageMangement).  That is for the lengths and the Settling of a run: with a
\* stop the labels of 42 to 56 steps, and with uncounted steps those of 105 to 111, come
\* right later or not at all.
TurnsAtLabel == [][page' # page /\ Settled => HeadAtLabel]_vars

\* A label gets one page, "one page only execuate once!" (595): the page never turns
\* twice for one label (for those of the lengths in Doubtful see run GapTurns), ...
OneTurnPerLabel ==
  [][page' # page /\ Settled /\ turn # 0 /\ paper.len \notin Doubtful
       => pos - turn >= paper.len - 8]_vars

\* ... and no label passes without a turn: once settled the head goes no further than a label
\* and a millimetre from the last turn, or from where the first label begins.
LastTurn == IF turn = 0 THEN Distance + paper.gap ELSE turn
EveryLabelTurns == Settled /\ ~lockPage => pos - LastTurn <= paper.len + 8
=============================================================================
