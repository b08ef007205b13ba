---------------------------- MODULE GapSensorProofs ----------------------------
(***************************************************************************)
(* GapSensor keeps its types for every paper, distance and signal.  What   *)
(* takes the work is the count of remaining steps: an int that is          *)
(* decremented before it is compared with 0 must be positive behind each   *)
(* branch of the correction, most of which are differences.  On every      *)
(* readable paper the threshold is learned right, the end of the labels is *)
(* seen, and a label's length only comes from the edges of two gaps; until *)
(* a stop, and on long labels after one too, it misses no more than a gap. *)
(***************************************************************************)
EXTENDS GapSensor, FiniteSetTheorems, SequenceTheorems, TLAPS

\* The step a gap was seen at has gone by; the ring holds 16 samples.
IInv == TypeOK /\ gapPos <= steps /\ Len(window) <= 16

\* Where the head is: steps that remain on a page, and the length of its label.
Place == [remain : Nat \ {0}, page : Nat, len : Nat]

----------------------------------------------------------------------------
(* The count of steps                                                      *)

LEMMA AheadPositive == Ahead \in Nat \ {0}
  BY GapSensorAssumption DEF Ahead

\* AuthenticPageMangement never leaves a label without steps.
LEMMA CountedTyped ==
  ASSUME NEW r \in Nat \ {0}, NEW p \in Nat, NEW len \in Nat
  PROVE  Counted(r, p, len) \in Place
  BY GapSensorAssumption DEF Counted, Place

LEMMA OverTheGapTyped ==
  ASSUME NEW r \in Nat \ {0}, NEW p \in Nat, NEW len \in Nat
  PROVE  OverTheGap(r, p, len) \in Place
  <1>1. CASE len > r /\ r < 20
    <2>1. len - r \in Nat
      BY <1>1
    <2>2. Counted(1, p, len - r) \in Place
      BY <2>1, CountedTyped
    <2> QED
      BY <1>1, <2>2 DEF OverTheGap
  <1>2. CASE ~(len > r /\ r < 20)
    BY <1>2, AheadPositive DEF OverTheGap, Place
  <1> QED
    BY <1>1, <1>2

\* The label that is begun is the first one that ends behind the sensor's sight.
LEMMA DraggedTyped ==
  ASSUME NEW r \in Nat \ {0}, NEW len \in Nat
  PROVE  Dragged(r, len) \in Nat \ {0}
  <1> DEFINE Past(k) == Ahead < k * len /\ \A i \in 1..k - 1 : Ahead >= i * len
  <1>1. CASE \E j \in 1..4 : Ahead < j * len
    <2>1. \E k \in 1..4 : Past(k)
      <3>1. CASE Ahead < len
        <4>1. Past(1)
          BY <3>1, AheadPositive
        <4> QED
          BY <4>1
      <3>2. CASE len <= Ahead /\ Ahead < 2 * len
        <4>1. 1..(2 - 1) = {1}
          OBVIOUS
        <4>2. Past(2)
          BY <3>2, <4>1, AheadPositive
        <4> QED
          BY <4>2
      <3>3. CASE 2 * len <= Ahead /\ Ahead < 3 * len
        <4>1. 1..(3 - 1) = {1, 2}
          OBVIOUS
        <4>2. Past(3)
          BY <3>3, <4>1, AheadPositive
        <4> QED
          BY <4>2
      <3>4. CASE 3 * len <= Ahead /\ Ahead < 4 * len
        <4>1. 1..(4 - 1) = {1, 2, 3}
          OBVIOUS
        <4>2. Past(4)
          BY <3>4, <4>1, AheadPositive
        <4> QED
          BY <4>2
      <3>5. Ahead < 4 * len
        <4>1. PICK j \in 1..4 : Ahead < j * len
          BY <1>1
        <4>2. j = 1 \/ j = 2 \/ j = 3 \/ j = 4
          BY <4>1
        <4> QED
          BY <4>1, <4>2, AheadPositive
      <3> QED
        BY <3>1, <3>2, <3>3, <3>4, <3>5, AheadPositive
    <2> DEFINE j == CHOOSE k \in 1..4 : Past(k)
    <2>2. j \in 1..4 /\ Past(j)
      BY <2>1
    <2>3. Dragged(r, len) = IF j = 1 THEN 1 ELSE AtLeast1(Ahead - (j - 1) * len)
      BY <1>1 DEF Dragged
    <2> HIDE DEF j
    <2>4. CASE j = 1
      BY <2>3, <2>4
    <2>5. CASE j # 1
      <3>1. j - 1 \in 1..j - 1
        BY <2>2, <2>5
      <3>2. Ahead >= (j - 1) * len
        BY <2>2, <3>1
      <3>3. j = 2 \/ j = 3 \/ j = 4
        BY <2>2, <2>5
      <3>4. Ahead - (j - 1) * len \in Nat
        BY <3>2, <3>3, AheadPositive
      <3> HIDE DEF Past
      <3> QED
        BY <2>3, <2>5, <3>4 DEF AtLeast1
    <2> QED
      BY <2>4, <2>5
  <1>2. CASE ~ \E j \in 1..4 : Ahead < j * len
    BY <1>2 DEF Dragged
  <1> QED
    BY <1>1, <1>2

LEMMA ShortLabelTyped ==
  ASSUME NEW r \in Nat \ {0}, NEW p \in Nat, NEW len \in Nat
  PROVE  ShortLabel(r, p, len) \in Place
  <1>1. CASE \E i \in 1..4 : Fits(i, r, len)
    <2> DEFINE i == CHOOSE k \in 1..4 : Fits(k, r, len)
               a == Ahead - i * len
    <2>1. i \in 1..4
      BY <1>1
    <2>2. ShortLabel(r, p, len) =
            IF Ahead > i * len
            THEN [remain |-> IF r < 20 /\ r < a THEN r ELSE a, page |-> p, len |-> len]
            ELSE IF Near(-a, r) THEN OverTheGap(r, p, len)
            ELSE [remain |-> Dragged(r, len), page |-> p, len |-> len]
      BY <1>1 DEF ShortLabel
    <2> HIDE DEF i
    <2>3. i * len \in Nat
      BY <2>1
    <2>4. CASE Ahead > i * len
      <3>1. a \in Nat \ {0}
        BY <2>3, <2>4, AheadPositive
      <3> QED
        BY <2>2, <2>4, <3>1 DEF Place
    <2>5. CASE ~(Ahead > i * len)
      BY <2>2, <2>5, OverTheGapTyped, DraggedTyped DEF Place
    <2> QED
      BY <2>4, <2>5
  <1>2. CASE ~ \E i \in 1..4 : Fits(i, r, len)
    BY <1>2 DEF ShortLabel, Place
  <1> QED
    BY <1>1, <1>2

LEMMA LongLabelTyped ==
  ASSUME NEW r \in Nat \ {0}, NEW p \in Nat, NEW len \in Nat
  PROVE  LongLabel(r, p, len) \in Place
  BY GapSensorAssumption DEF LongLabel, Place

\* Every branch of the correction leaves steps on the label.
LEMMA CompensationTyped ==
  ASSUME NEW m \in Place
  PROVE  PageCompensationByGap(m) \in Place
  <1>1. m.remain \in Nat \ {0} /\ m.page \in Nat /\ m.len \in Nat
    BY DEF Place
  <1> QED
    BY <1>1, ShortLabelTyped, LongLabelTyped DEF PageCompensationByGap

----------------------------------------------------------------------------
(* The threshold                                                           *)

LEMMA CountOfTyped ==
  ASSUME NEW w \in Seq(BOOLEAN), Len(w) <= 16, NEW b
  PROVE  CountOf(w, b) \in 0..16
  <1> DEFINE S == {i \in DOMAIN w : w[i] = b}
  <1>1. S \subseteq 1..Len(w) /\ Len(w) \in Nat
    OBVIOUS
  <1>2. IsFiniteSet(1..Len(w)) /\ Cardinality(1..Len(w)) = Len(w)
    <2> DEFINE n == Len(w)
    <2>1. n \in Nat
      BY <1>1
    <2> HIDE DEF n
    <2>2. 1 \in Int /\ n \in Int
      BY <2>1
    <2>3. IsFiniteSet(1..n) /\ Cardinality(1..n) = IF 1 > n THEN 0 ELSE n - 1 + 1
      BY <2>2, FS_Interval
    <2>4. Cardinality(1..n) = n
      BY <2>1, <2>3
    <2> QED
      BY <2>3, <2>4 DEF n
  <1>3. IsFiniteSet(S) /\ Cardinality(S) <= Cardinality(1..Len(w))
    BY <1>1, <1>2, FS_Subset
  <1>4. Cardinality(S) \in Nat
    BY <1>3, FS_CardinalityType
  <1> QED
    BY <1>1, <1>2, <1>3, <1>4, SMTT(20) DEF CountOf

LEMMA Longer ==
  ASSUME NEW S, NEW w \in Seq(S), NEW x \in S
  PROVE  Append(w, x) \in Seq(S) /\ Len(Append(w, x)) = Len(w) + 1 /\ Len(w) \in Nat
  BY AppendProperties, LenProperties

LEMMA Shorter ==
  ASSUME NEW S, NEW w \in Seq(S), NEW n \in Nat, Len(w) = n + 1
  PROVE  Tail(w) \in Seq(S) /\ Len(Tail(w)) = n
  <1>1. w # <<>>
    OBVIOUS
  <1> QED
    BY <1>1, HeadTailProperties

\* A ring of 16 samples, of whatever kind.
LEMMA RingTyped ==
  ASSUME NEW S, NEW w \in Seq(S), Len(w) <= 16, NEW x \in S
  PROVE  /\ Len(w) = 16 => Append(Tail(w), x) \in Seq(S) /\ Len(Append(Tail(w), x)) <= 16
         /\ Len(w) # 16 => Append(w, x) \in Seq(S) /\ Len(Append(w, x)) <= 16
  <1>1. ASSUME Len(w) = 16
        PROVE  Append(Tail(w), x) \in Seq(S) /\ Len(Append(Tail(w), x)) <= 16
    <2>1. Len(w) = 15 + 1
      BY <1>1
    <2>2. Tail(w) \in Seq(S) /\ Len(Tail(w)) = 15
      BY <2>1, Shorter
    <2> QED
      BY <2>2, Longer
  <1>2. ASSUME Len(w) # 16
        PROVE  Append(w, x) \in Seq(S) /\ Len(Append(w, x)) <= 16
    <2>1. Append(w, x) \in Seq(S) /\ Len(Append(w, x)) = Len(w) + 1 /\ Len(w) \in Nat
      BY Longer
    <2> DEFINE n == Len(w)
    <2>2. n \in Nat /\ n <= 16 /\ n # 16
      BY <1>2, <2>1
    <2> HIDE DEF n
    <2>3. n + 1 <= 16
      BY <2>2
    <2> QED
      BY <2>1, <2>3 DEF n
  <1> QED
    BY <1>1, <1>2

LEMMA SampledTyped ==
  ASSUME window \in Seq(BOOLEAN), Len(window) <= 16, NEW dark \in BOOLEAN
  PROVE  Sampled(dark) \in Seq(BOOLEAN) /\ Len(Sampled(dark)) <= 16
  BY RingTyped, Zenon DEF Sampled

LEMMA Product == ASSUME NEW a \in Nat, NEW b \in Nat PROVE a * b \in Nat
  OBVIOUS

LEMMA MiddleTyped ==
  ASSUME NEW d \in 0..16, NEW l \in 0..16
  PROVE  Middle(d, l) \in Nat
  <1> DEFINE x == Clamp(d - 3)
             y == Clamp(l - 3)
  <1>1. x \in Nat /\ 12 - x \in Nat /\ y \in Nat /\ 12 - y \in Nat
    BY DEF Clamp
  <1> HIDE DEF x, y
  <1>2. x * Dark \in Nat /\ (12 - x) * Light \in Nat
    BY <1>1, Product, GapSensorAssumption
  <1>3. y * Light \in Nat /\ (12 - y) * Dark \in Nat
    BY <1>1, Product, GapSensorAssumption
  <1>4. Middle(d, l) = (x * Dark + (12 - x) * Light + y * Light + (12 - y) * Dark) \div 24
    BY DEF Middle, x, y
  <1> DEFINE sum == x * Dark + (12 - x) * Light + y * Light + (12 - y) * Dark
  <1>5. sum \in Nat
    BY <1>2, <1>3
  <1> HIDE DEF sum
  <1>6. sum \div 24 \in Nat
    BY <1>5
  <1> QED
    BY <1>4, <1>6 DEF sum

LearnTypes ==
  /\ threshold \in Nat /\ learned \in BOOLEAN
  /\ window \in Seq(BOOLEAN) /\ Len(window) <= 16 /\ darks \in 0..16 /\ lights \in 0..16
  /\ minCount \in 0..16 /\ maxCount \in 0..16

LEMMA LearnTyped == IInv /\ Learn => LearnTypes'
  <1> SUFFICES ASSUME IInv, Learn PROVE LearnTypes'
    OBVIOUS
  <1>1. LearnTypes
    BY DEF IInv, TypeOK, LearnTypes
  <1>2. CASE learned
    BY <1>1, <1>2 DEF Learn, learnVars, LearnTypes
  <1>3. CASE ~learned
    <2> DEFINE dark == Adc < threshold
    <2>1. /\ window' = Sampled(dark)
          /\ darks' = IF dark THEN CountOf(window', TRUE) ELSE darks
          /\ lights' = IF dark THEN lights ELSE CountOf(window', FALSE)
          /\ minCount' = IF dark THEN AtMost16(minCount + 1) ELSE minCount
          /\ maxCount' = IF dark THEN maxCount ELSE AtMost16(maxCount + 1)
          /\ learned' = (minCount' = 16 /\ maxCount' = 16)
          /\ threshold' = IF learned' THEN Middle(darks', lights') ELSE threshold
      BY <1>3 DEF Learn
    <2> HIDE DEF dark
    <2>2. dark \in BOOLEAN
      BY DEF dark
    <2>3. window' \in Seq(BOOLEAN) /\ Len(window') <= 16
      BY <1>1, <2>1, <2>2, SampledTyped DEF LearnTypes
    <2>4. darks' \in 0..16 /\ lights' \in 0..16
      BY <1>1, <2>1, <2>3, CountOfTyped DEF LearnTypes
    <2>5. minCount' \in 0..16 /\ maxCount' \in 0..16
      BY <1>1, <2>1 DEF LearnTypes, AtMost16
    <2>6. learned' \in BOOLEAN
      BY <2>1
    <2>7. threshold' \in Nat
      BY <1>1, <2>1, <2>4, MiddleTyped DEF LearnTypes
    <2> QED
      BY <2>3, <2>4, <2>5, <2>6, <2>7 DEF LearnTypes
  <1> QED
    BY <1>2, <1>3

----------------------------------------------------------------------------
(* The steps                                                               *)

GapTypes ==
  /\ remain \in Nat \ {0} /\ page \in Nat /\ labelLen \in Nat
  /\ gapPos \in Nat /\ gapPos <= steps /\ gapIn \in BOOLEAN /\ inGap \in Nat
  /\ lockPage \in BOOLEAN /\ suspend \in BOOLEAN /\ seen \in Nat

LEMMA StepTyped ==
  ASSUME NEW m \in Place
  PROVE  IInv /\ Step(m) /\ behind' \in Nat => IInv'
  <1> SUFFICES ASSUME IInv, Step(m), behind' \in Nat PROVE IInv'
    OBVIOUS
  <1>1. m.remain \in Nat \ {0} /\ m.page \in Nat /\ m.len \in Nat
    BY DEF Place
  <1>2. steps' = steps + 1 /\ steps \in Nat /\ gapPos \in Nat /\ gapPos <= steps
    BY DEF Step, IInv, TypeOK
  <1>3. /\ gapIn \in BOOLEAN /\ inGap \in Nat /\ lockPage \in BOOLEAN /\ suspend \in BOOLEAN
        /\ seen \in Nat
    BY DEF IInv, TypeOK
  <1>4. GapTypes'
    <2>1. CASE BeginGap(m)
      <3>1. steps' - gapPos \in Nat
        BY <1>2
      <3>2. remain' = m.remain /\ page' = m.page
        BY <2>1 DEF BeginGap, Keep, Place
      <3>3. labelLen' = IF gapPos # 0 THEN steps' - gapPos ELSE m.len
        BY <2>1 DEF BeginGap, Keep, Place
      <3>4. gapPos' = steps' /\ steps' \in Nat
        BY <1>2, <2>1 DEF BeginGap
      <3>5. /\ gapIn' \in BOOLEAN /\ inGap' \in Nat /\ lockPage' \in BOOLEAN
            /\ suspend' \in BOOLEAN /\ seen' \in Nat
        BY <1>3, <2>1 DEF BeginGap
      <3> QED
        BY <1>1, <3>1, <3>2, <3>3, <3>4, <3>5 DEF GapTypes
    <2>2. CASE EndGap(m)
      <3>1. PageCompensationByGap(m) \in Place
        BY CompensationTyped
      <3>2. remain' \in Nat \ {0} /\ page' \in Nat /\ labelLen' \in Nat
        BY <2>2, <3>1 DEF EndGap, Keep, Place
      <3>3. gapPos' \in Nat /\ gapPos' <= steps' /\ inGap' \in Nat /\ seen' \in Nat
        BY <1>2, <1>3, <2>2 DEF EndGap
      <3>4. gapIn' \in BOOLEAN /\ lockPage' \in BOOLEAN
        BY <2>2 DEF EndGap
      <3>5. suspend' \in BOOLEAN
        BY <2>2 DEF EndGap
      <3> QED
        BY <3>2, <3>3, <3>4, <3>5 DEF GapTypes
    <2>3. CASE StayInGap(m)
      BY <1>1, <1>2, <1>3, <2>3 DEF StayInGap, Keep, GapTypes
    <2>4. CASE StayOnLabel(m)
      BY <1>1, <1>2, <1>3, <2>4 DEF StayOnLabel, Keep, GapTypes
    <2> QED
      BY <2>1, <2>2, <2>3, <2>4 DEF Step
  <1>5. LearnTypes'
    BY LearnTyped DEF Step
  <1>6. countGap' \in 0..255
    <2>1. countGap \in 0..255
      BY DEF IInv, TypeOK
    <2> QED
      BY <2>1 DEF Step, Shifted
  <1>7. /\ paper' \in Papers /\ pos' \in Nat /\ steps' \in Nat /\ stops' \in Nat
        /\ turn' \in Nat
    BY <1>2 DEF Step, IInv, TypeOK
  <1>8. past' \in BOOLEAN
    BY DEF Step, IInv, TypeOK
  <1> QED
    BY <1>4, <1>5, <1>6, <1>7, <1>8 DEF GapTypes, LearnTypes, IInv, TypeOK

LEMMA InvInit == Init => IInv
  <1> SUFFICES ASSUME Init PROVE IInv
    OBVIOUS
  <1>1. window \in Seq(BOOLEAN) /\ Len(window) <= 16
    BY DEF Init
  <1>2. paper.start \in Nat /\ FirstThreshold \in Nat /\ MaxHeight \in Nat \ {0}
    BY GapSensorAssumption DEF Init
  <1>3. /\ gapIn \in BOOLEAN /\ lockPage \in BOOLEAN /\ suspend \in BOOLEAN
        /\ learned \in BOOLEAN /\ past \in BOOLEAN
    BY Zenon DEF Init
  <1>4. paper \in Papers /\ pos \in Nat /\ remain \in Nat \ {0} /\ threshold \in Nat
        /\ countGap \in 0..255
    BY <1>2 DEF Init
  <1>5. /\ page = 0 /\ labelLen = 0 /\ steps = 0 /\ gapPos = 0 /\ inGap = 0
        /\ darks = 0 /\ lights = 0 /\ minCount = 0 /\ maxCount = 0
        /\ stops = 0 /\ behind = 0 /\ turn = 0 /\ seen = 0
    BY DEF Init
  <1> QED
    BY <1>1, <1>3, <1>4, <1>5 DEF IInv, TypeOK

LEMMA InvNext == IInv /\ [Next]_vars => IInv'
  <1> SUFFICES ASSUME IInv, [Next]_vars PROVE IInv'
    OBVIOUS
  <1>1. Uncounted \in Place
    BY DEF IInv, TypeOK, Uncounted, Place
  <1>2. Counted(remain, page, labelLen) \in Place
    BY CountedTyped DEF IInv, TypeOK
  <1>3. CASE StepCounts
    <2> DEFINE m == IF lockPage THEN Uncounted ELSE Counted(remain, page, labelLen)
    <2>1. m \in Place
      BY <1>1, <1>2
    <2>2. Step(m) /\ behind' = 0
      BY <1>3 DEF StepCounts
    <2> HIDE DEF m
    <2> QED
      BY <2>1, <2>2, StepTyped
  <1>4. CASE StepBehind
    <2>1. Step(Uncounted) /\ behind' \in Nat
      BY <1>4 DEF StepBehind, IInv, TypeOK
    <2> QED
      BY <1>1, <2>1, StepTyped
  <1>5. CASE StopAndContinue
    <2>1. gapIn' \in BOOLEAN /\ lockPage' \in BOOLEAN /\ past' \in BOOLEAN
      BY <1>5, Zenon DEF StopAndContinue
    <2>2. stops' = stops + 1 /\ steps' = 0 /\ gapPos' = 0 /\ seen' = 0
      BY <1>5 DEF StopAndContinue
    <2>3. UNCHANGED <<paper, pos, remain, page, labelLen, countGap, inGap, suspend, threshold,
                      learned, window, darks, lights, minCount, maxCount, behind, turn>>
      BY <1>5 DEF StopAndContinue, pageVars, learnVars
    <2> QED
      BY <2>1, <2>2, <2>3 DEF IInv, TypeOK
  <1>6. CASE UNCHANGED vars
    BY <1>6 DEF vars, pageVars, gapVars, learnVars, history, IInv, TypeOK
  <1> QED
    BY <1>3, <1>4, <1>5, <1>6 DEF Next

\* The types hold for every paper, distance and signal: whatever the length of the label
\* and wherever the gap is, PageCompensationByGap leaves at least one step on the label,
\* so that AuthenticPageMangement may decrement before it compares.
THEOREM TypeCorrect == Spec => []TypeOK
  <1>1. IInv => TypeOK
    BY DEF IInv
  <1> QED
    BY InvInit, InvNext, <1>1, PTL DEF Spec

----------------------------------------------------------------------------
(* What the threshold is learned from                                      *)

\* Paper the threshold can be learned from: the sensor is on a label at first, with 16 light
\* samples to come besides those of a spot, and a gap has room for 16 samples (2 mm).
Readable ==
  /\ Labels \in Nat \ {0} /\ Light - Dark >= 5
  /\ \A p \in Papers : p.start + 18 <= p.len /\ p.gap >= 16

DarkMap == [x \in Nat |-> IsDark(x)]

\* w holds the last samples before p.
Shown(w, p) == \A i \in 1..Len(w) : w[i] = DarkMap[p - Len(w) + i - 1]
Ring(w, p) == Len(w) = AtMost16(p - paper.start) /\ Shown(w, p)

\* Samples of the spot on the first label.
SpotSample(y, x) == IF paper.spot > 0 /\ paper.start <= y /\ y < x THEN 1 ELSE 0
SpotsBefore(x) == SpotSample(paper.spot, x) + SpotSample(paper.spot + 1, x)

OnFirstLabel ==
  /\ minCount = SpotsBefore(pos)
  /\ maxCount = AtMost16(pos - paper.start - SpotsBefore(pos))
  /\ maxCount = 16 => lights >= 14

InFirstGap ==
  /\ minCount = SpotsBefore(paper.len) + pos - paper.len /\ minCount < 16
  /\ maxCount = 16 /\ lights >= 14

\* The threshold is learned in the first gap, from one ring full of light samples and one
\* full of dark ones, but for those of the spot.
LearnInv ==
  /\ paper.start <= pos
  /\ ~learned => /\ threshold = FirstThreshold /\ Ring(window, pos)
                 /\ pos <= paper.len => OnFirstLabel
                 /\ pos > paper.len => InFirstGap
  /\ ThresholdApart

LEMMA Remainder ==
  ASSUME NEW m \in Nat \ {0}, NEW x \in Nat
  PROVE  /\ x < m => x % m = x
         /\ x >= m /\ x < 2 * m => x % m = x - m
  OBVIOUS

LEMMA PaperTyped ==
  ASSUME Readable, paper \in Papers
  PROVE  /\ paper.len \in Nat /\ paper.gap \in Nat /\ paper.start \in Nat /\ paper.spot \in Nat
         /\ paper.start + 18 <= paper.len /\ 16 <= paper.gap /\ paper.gap < paper.len
         /\ Backing \in Nat /\ paper.len <= Backing
  <1>1. /\ paper.len \in Nat /\ paper.gap \in Nat /\ paper.start \in Nat /\ paper.spot \in Nat
        /\ paper.start + 18 <= paper.len /\ 16 <= paper.gap /\ paper.gap < paper.len
    BY GapSensorAssumption DEF Readable
  <1>2. Labels \in Nat /\ Labels >= 1
    BY DEF Readable
  <1>3. Backing \in Nat /\ paper.len <= Backing
    BY <1>1, <1>2 DEF Backing
  <1> QED
    BY <1>1, <1>3

\* The first label is light but for its spot, and the first gap is dark.
LEMMA FirstSamples ==
  ASSUME Readable, paper \in Papers, NEW x \in Nat
  PROVE  /\ x < paper.len => (IsDark(x) <=> paper.spot > 0 /\ x \in {paper.spot, paper.spot + 1})
         /\ paper.len <= x /\ x < paper.len + 16 => IsDark(x)
  <1>1. /\ paper.len \in Nat /\ paper.gap \in Nat /\ paper.spot \in Nat
        /\ 16 <= paper.gap /\ paper.gap < paper.len /\ Backing \in Nat /\ paper.len <= Backing
    BY PaperTyped
  <1> DEFINE r == x % paper.len
  <1>2. /\ x < paper.len => r = x
        /\ x >= paper.len /\ x < 2 * paper.len => r = x - paper.len
    <2>1. paper.len \in Nat \ {0}
      BY <1>1
    <2> QED
      BY <2>1, Remainder, Zenon
  <1>3. IsDark(x) <=> \/ x >= Backing
                      \/ x >= paper.len /\ r < paper.gap
                      \/ paper.spot > 0 /\ r \in paper.spot .. paper.spot + 1
    BY DEF IsDark
  <1> HIDE DEF r
  <1> QED
    BY <1>1, <1>2, <1>3

\* Until it is learned, the threshold tells dark from light.
LEMMA SampleRight ==
  ASSUME threshold = FirstThreshold
  PROVE  (Adc < threshold) <=> IsDark(pos)
  BY GapSensorAssumption DEF Adc

\* A full ring loses its oldest sample.
LEMMA Oldest ==
  ASSUME NEW S, NEW w \in Seq(S), NEW n \in Nat, Len(w) = n + 1
  PROVE  /\ Tail(w) \in Seq(S) /\ Len(Tail(w)) = n
         /\ \A i \in 1..n : Tail(w)[i] = w[i + 1]
  <1>1. w # <<>>
    OBVIOUS
  <1>2. \A i \in 1..Len(Tail(w)) : Tail(w)[i] = w[i + 1]
    BY <1>1, HeadTailProperties
  <1> QED
    BY <1>2, Shorter

\* v holds the samples of w behind its first k, and a last one.
Takes(v, w, last, k, m) ==
  Len(v) = m + 1 /\ v[m + 1] = last /\ \A i \in 1..m : v[i] = w[i + k]

LEMMA NewestTaken ==
  ASSUME NEW S, NEW w \in Seq(S), NEW x \in S, NEW n \in Nat, Len(w) = n
  PROVE  Takes(Append(w, x), w, x, 0, n)
  <1>1. Len(Append(w, x)) = n + 1 /\ Append(w, x)[n + 1] = x
    BY AppendProperties
  <1>2. \A i \in 1..n : Append(w, x)[i] = w[i] /\ i + 0 = i
    BY AppendProperties
  <1> QED
    BY <1>1, <1>2 DEF Takes

LEMMA TurnedTaken ==
  ASSUME NEW S, NEW w \in Seq(S), NEW x \in S, NEW n \in Nat, Len(w) = n + 1
  PROVE  Takes(Append(Tail(w), x), w, x, 1, n)
  <1> DEFINE t == Tail(w)
  <1>1. t \in Seq(S) /\ Len(t) = n /\ \A i \in 1..n : t[i] = w[i + 1]
    BY Oldest
  <1> HIDE DEF t
  <1>2. Len(Append(t, x)) = n + 1 /\ Append(t, x)[n + 1] = x
    BY <1>1, AppendProperties
  <1>3. \A i \in 1..n : Append(t, x)[i] = t[i]
    BY <1>1, AppendProperties
  <1>4. Takes(Append(t, x), w, x, 1, n)
    BY <1>1, <1>2, <1>3 DEF Takes
  <1> QED
    BY <1>4 DEF t

\* Of 16 samples, all but those at x and y are b.
AllBut(w, b, x, y) == \A i \in 1..16 : i # x /\ i # y => w[i] = b

LEMMA AllButTwo ==
  ASSUME NEW w, DOMAIN w = 1..16, NEW b, NEW x, NEW y, AllBut(w, b, x, y)
  PROVE  CountOf(w, b) >= 14
  <1> DEFINE S == {i \in DOMAIN w : w[i] = b}
             T == 1..16
  <1>1. IsFiniteSet(T) /\ Cardinality(T) = 16
    <2>1. 1 \in Int /\ 16 \in Int
      OBVIOUS
    <2>2. IsFiniteSet(T) /\ Cardinality(T) = IF 1 > 16 THEN 0 ELSE 16 - 1 + 1
      BY <2>1, FS_Interval, Zenon
    <2> QED
      BY <2>2
  <1>2. IsFiniteSet(T \ {x}) /\ Cardinality(T \ {x}) \in {15, 16}
    BY <1>1, FS_RemoveElement
  <1>3. IsFiniteSet((T \ {x}) \ {y}) /\ Cardinality((T \ {x}) \ {y}) \in {14, 15, 16}
    BY <1>2, FS_RemoveElement
  <1>4. (T \ {x}) \ {y} \subseteq S /\ S \subseteq T
    BY DEF AllBut
  <1>5. IsFiniteSet(S)
    BY <1>1, <1>4, FS_Subset
  <1>6. Cardinality((T \ {x}) \ {y}) <= Cardinality(S)
    BY <1>4, <1>5, FS_Subset
  <1>7. Cardinality(S) \in Nat
    BY <1>5, FS_CardinalityType
  <1> HIDE DEF S
  <1>8. Cardinality(S) >= 14
    BY <1>3, <1>6, <1>7
  <1> QED
    BY <1>8 DEF CountOf, S

\* With 14 samples of 16 on either side the threshold is close to the middle.
LEMMA MiddleApart ==
  ASSUME NEW d \in 14..16, NEW l \in 14..16, Light - Dark >= 5
  PROVE  LET t == Middle(d, l)
         IN  4 * (t - Dark) >= Light - Dark /\ 4 * (Light - t) >= Light - Dark
  <1> DEFINE x == Clamp(d - 3)
             y == Clamp(l - 3)
             sum == x * Dark + (12 - x) * Light + y * Light + (12 - y) * Dark
             range == Light - Dark
  <1>1. x \in {11, 12} /\ y \in {11, 12}
    BY DEF Clamp
  <1>2. Dark \in Nat /\ Light \in Nat /\ range \in Nat /\ range >= 5
    BY GapSensorAssumption
  <1>3. Middle(d, l) = sum \div 24
    BY DEF Middle
  <1> HIDE DEF x, y
  <1>4. sum \in Nat /\ sum >= 24 * Dark + 11 * range /\ sum <= 24 * Dark + 13 * range
    <2>1. CASE x = 11 /\ y = 11
      BY <1>2, <2>1
    <2>2. CASE x = 11 /\ y = 12
      BY <1>2, <2>2
    <2>3. CASE x = 12 /\ y = 11
      BY <1>2, <2>3
    <2>4. CASE x = 12 /\ y = 12
      BY <1>2, <2>4
    <2> QED
      BY <1>1, <2>1, <2>2, <2>3, <2>4
  <1> DEFINE t == sum \div 24
  <1> HIDE DEF sum
  <1>5. t \in Nat /\ 24 * t <= sum /\ sum < 24 * t + 24
    BY <1>4
  <1> HIDE DEF t
  <1>6. 4 * (t - Dark) >= Light - Dark /\ 4 * (Light - t) >= Light - Dark
    BY <1>2, <1>4, <1>5
  <1> QED
    BY <1>3, <1>6 DEF t

\* The ring takes a sample; its oldest one leaves it when it is full.
LEMMA RingNext ==
  ASSUME window \in Seq(BOOLEAN), paper.start \in Nat, pos \in Nat, paper.start <= pos,
         NEW dark \in BOOLEAN, dark = DarkMap[pos], Ring(window, pos)
  PROVE  Ring(Sampled(dark), pos + 1)
  <1> DEFINE n == Len(window)
             start == paper.start
             v == Sampled(dark)
  <1>1. n \in Nat /\ Len(window) = n
    OBVIOUS
  <1>2. n = AtMost16(pos - start)
    BY DEF Ring, Shown
  <1>3. \A i \in 1..n : window[i] = DarkMap[pos - n + i - 1]
    BY DEF Ring, Shown
  <1>4. n = 16 => v = Append(Tail(window), dark)
    BY DEF Sampled
  <1>5. n # 16 => v = Append(window, dark)
    BY DEF Sampled
  <1>6. start \in Nat /\ start <= pos
    OBVIOUS
  <1> HIDE DEF n, start, v
  <1>7. ASSUME NEW k \in {0, 1}, NEW m \in Nat, m + k = n,
               Takes(v, window, dark, k, m)
        PROVE  Shown(v, pos + 1)
    <2>3. Len(v) = m + 1 /\ v[m + 1] = dark /\ \A i \in 1..m : v[i] = window[i + k]
      BY <1>7 DEF Takes
    <2> SUFFICES ASSUME NEW i \in 1..Len(v)
                 PROVE  v[i] = DarkMap[pos + 1 - Len(v) + i - 1]
      BY DEF Shown
    <2>1. CASE i = m + 1
      <3>1. pos + 1 - Len(v) + i - 1 = pos
        BY <1>7, <2>1, <2>3
      <3> QED
        BY <2>1, <2>3, <3>1, Zenon
    <2>2. CASE i # m + 1
      <3>1. i \in 1..m /\ i + k \in 1..n
        BY <1>7, <2>2, <2>3
      <3>2. v[i] = window[i + k] /\ window[i + k] = DarkMap[pos - n + (i + k) - 1]
        BY <1>3, <2>3, <3>1, Zenon
      <3>3. pos - n + (i + k) - 1 = pos + 1 - Len(v) + i - 1
        BY <1>1, <1>7, <2>3, <3>1
      <3> QED
        BY <3>2, <3>3, Zenon
    <2> QED
      BY <2>1, <2>2
  <1>8. Shown(v, pos + 1) /\ Len(v) = AtMost16(pos + 1 - start) => Ring(Sampled(dark), pos + 1)
    BY DEF Ring, start, v
  <1>9. CASE n = 16
    <2> DEFINE m == 15
    <2>1. m \in Nat /\ m + 1 = n /\ 1 \in {0, 1}
      BY <1>9
    <2> HIDE DEF m
    <2>8. Len(window) = m + 1
      BY <1>1, <2>1
    <2>2. Takes(Append(Tail(window), dark), window, dark, 1, m)
      BY <2>1, <2>8, TurnedTaken, Zenon
    <2>3. v = Append(Tail(window), dark)
      BY <1>4, <1>9
    <2>4. Takes(v, window, dark, 1, m)
      BY <2>2, <2>3, Zenon
    <2>5. Shown(v, pos + 1)
      BY <1>7, <2>1, <2>4, Zenon
    <2>6. Len(v) = m + 1
      BY <2>4 DEF Takes
    <2>7. Len(v) = AtMost16(pos + 1 - start)
      BY <1>2, <1>6, <1>9, <2>1, <2>6 DEF AtMost16
    <2> QED
      BY <1>8, <2>5, <2>7
  <1>10. CASE n # 16
    <2>1. n + 0 = n /\ 0 \in {0, 1}
      BY <1>1
    <2>2. Takes(Append(window, dark), window, dark, 0, n)
      BY <1>1, NewestTaken, Zenon
    <2>3. v = Append(window, dark)
      BY <1>5, <1>10
    <2>4. Takes(v, window, dark, 0, n)
      BY <2>2, <2>3, Zenon
    <2>5. Shown(v, pos + 1)
      BY <1>1, <1>7, <2>1, <2>4, Zenon
    <2>6. Len(v) = n + 1
      BY <2>4 DEF Takes
    <2>7. Len(v) = AtMost16(pos + 1 - start)
      BY <1>1, <1>2, <1>6, <1>10, <2>6 DEF AtMost16
    <2> QED
      BY <1>8, <2>5, <2>7
  <1> QED
    BY <1>9, <1>10

\* A full ring behind the first light samples has no dark ones but those of the spot.
LEMMA LightRing ==
  ASSUME Readable, paper \in Papers, NEW w, DOMAIN w = 1..16, Len(w) = 16,
         NEW p \in Nat, paper.start + 16 <= p, p <= paper.len, Ring(w, p)
  PROVE  CountOf(w, FALSE) >= 14
  <1> DEFINE x == paper.spot - p + 17
             z == x + 1
  <1>1. paper.start \in Nat /\ paper.len \in Nat /\ paper.spot \in Nat
    BY PaperTyped
  <1>2. ASSUME NEW i \in 1..16, i # x, i # z
        PROVE  w[i] = FALSE
    <2> DEFINE y == p - 16 + i - 1
    <2>1. y \in Nat /\ y < paper.len /\ y # paper.spot /\ y # paper.spot + 1
      BY <1>1, <1>2
    <2>2. w[i] = DarkMap[y]
      BY DEF Ring, Shown
    <2> HIDE DEF y
    <2>3. ~IsDark(y)
      BY <2>1, FirstSamples
    <2>4. DarkMap[y] = IsDark(y)
      BY <2>1 DEF DarkMap
    <2>5. IsDark(y) = FALSE
      BY <2>3 DEF IsDark
    <2> QED
      BY <2>2, <2>4, <2>5
  <1> HIDE DEF x, z
  <1>3. AllBut(w, FALSE, x, z)
    BY <1>2 DEF AllBut
  <1> QED
    BY <1>3, AllButTwo, Zenon

\* So is one that took 14 samples of the first gap, the other way round.
LEMMA DarkRing ==
  ASSUME Readable, paper \in Papers, NEW w, DOMAIN w = 1..16, Len(w) = 16,
         NEW p \in Nat, paper.len + 14 <= p, p <= paper.len + 16, Ring(w, p)
  PROVE  CountOf(w, TRUE) >= 14
  <1>1. paper.len \in Nat
    BY PaperTyped
  <1> DEFINE x == 1
             y == 2
  <1>2. ASSUME NEW i \in 1..16, i # x, i # y
        PROVE  w[i] = TRUE
    <2> DEFINE z == p - 16 + i - 1
    <2>1. z \in Nat /\ paper.len <= z /\ z < paper.len + 16
      BY <1>1, <1>2
    <2>2. w[i] = DarkMap[z]
      BY DEF Ring, Shown
    <2> HIDE DEF z
    <2>3. IsDark(z)
      BY <2>1, FirstSamples
    <2>4. DarkMap[z] = IsDark(z)
      BY <2>1 DEF DarkMap
    <2>5. IsDark(z) = TRUE
      BY <2>3 DEF IsDark
    <2> QED
      BY <2>2, <2>4, <2>5
  <1> HIDE DEF x, y
  <1>3. AllBut(w, TRUE, x, y)
    BY <1>2 DEF AllBut
  <1> QED
    BY <1>3, AllButTwo, Zenon

LEMMA SpotsCounted ==
  ASSUME Readable, paper \in Papers, NEW x \in Nat, paper.start <= x, x < paper.len
  PROVE  /\ SpotsBefore(x) \in 0..2 /\ SpotsBefore(x + 1) \in 0..2
         /\ IsDark(x) => SpotsBefore(x + 1) = SpotsBefore(x) + 1
         /\ ~IsDark(x) => SpotsBefore(x + 1) = SpotsBefore(x)
  <1> DEFINE spot == paper.spot
             start == paper.start
  <1>1. spot \in Nat /\ start \in Nat
    BY PaperTyped
  <1>2. IsDark(x) <=> spot > 0 /\ x \in {spot, spot + 1}
    BY FirstSamples
  <1>3. \A y \in Nat : SpotsBefore(y) =
          (IF spot > 0 /\ start <= spot /\ spot < y THEN 1 ELSE 0)
            + (IF spot > 0 /\ start <= spot + 1 /\ spot + 1 < y THEN 1 ELSE 0)
    BY DEF SpotsBefore, SpotSample
  <1>4. start <= x
    OBVIOUS
  <1> HIDE DEF spot, start
  <1> DEFINE here == SpotsBefore(x)
             next == SpotsBefore(x + 1)
  <1>5. /\ here = (IF spot > 0 /\ start <= spot /\ spot < x THEN 1 ELSE 0)
                   + (IF spot > 0 /\ start <= spot + 1 /\ spot + 1 < x THEN 1 ELSE 0)
        /\ next = (IF spot > 0 /\ start <= spot /\ spot < x + 1 THEN 1 ELSE 0)
                   + (IF spot > 0 /\ start <= spot + 1 /\ spot + 1 < x + 1 THEN 1 ELSE 0)
    BY <1>3
  <1> HIDE DEF here, next
  <1>6. here \in 0..2 /\ next \in 0..2
    BY <1>5
  <1>7. spot > 0 /\ x \in {spot, spot + 1} => next = here + 1
    BY <1>1, <1>4, <1>5
  <1>8. ~(spot > 0 /\ x \in {spot, spot + 1}) => next = here
    BY <1>1, <1>4, <1>5
  <1> QED
    BY <1>2, <1>6, <1>7, <1>8 DEF here, next

\* What Learn does with a sample until the threshold is learned.
Taken(dark) ==
  /\ window' = Sampled(dark) /\ Ring(window', pos + 1)
  /\ darks' = IF dark THEN CountOf(window', TRUE) ELSE darks
  /\ lights' = IF dark THEN lights ELSE CountOf(window', FALSE)
  /\ minCount' = IF dark THEN AtMost16(minCount + 1) ELSE minCount
  /\ maxCount' = IF dark THEN maxCount ELSE AtMost16(maxCount + 1)
  /\ learned' = (minCount' = 16 /\ maxCount' = 16)
  /\ threshold' = IF learned' THEN Middle(darks', lights') ELSE threshold

LEMMA SampleTaken ==
  ASSUME Readable, IInv, LearnInv, Learn, ~learned
  PROVE  Taken(IsDark(pos)) /\ IsDark(pos) \in BOOLEAN
  <1>1. threshold = FirstThreshold /\ Ring(window, pos) /\ paper.start <= pos
    BY DEF LearnInv
  <1>2. (Adc < threshold) = IsDark(pos) /\ IsDark(pos) \in BOOLEAN
    <2>1. IsDark(pos) \in BOOLEAN
      BY DEF IsDark
    <2>2. (Adc < threshold) <=> IsDark(pos)
      BY <1>1, SampleRight
    <2> QED
      BY <2>1, <2>2
  <1>3. window \in Seq(BOOLEAN) /\ paper.start \in Nat /\ pos \in Nat
    BY PaperTyped DEF IInv, TypeOK
  <1>4. IsDark(pos) = DarkMap[pos]
    BY <1>3 DEF DarkMap
  <1>5. Ring(Sampled(IsDark(pos)), pos + 1)
    BY <1>1, <1>2, <1>3, <1>4, RingNext, Zenon
  <1> DEFINE dark == Adc < threshold
  <1>6. /\ window' = Sampled(dark)
        /\ darks' = IF dark THEN CountOf(window', TRUE) ELSE darks
        /\ lights' = IF dark THEN lights ELSE CountOf(window', FALSE)
        /\ minCount' = IF dark THEN AtMost16(minCount + 1) ELSE minCount
        /\ maxCount' = IF dark THEN maxCount ELSE AtMost16(maxCount + 1)
        /\ learned' = (minCount' = 16 /\ maxCount' = 16)
        /\ threshold' = IF learned' THEN Middle(darks', lights') ELSE threshold
    BY DEF Learn
  <1>7. dark = IsDark(pos)
    BY <1>2
  <1> HIDE DEF dark
  <1> QED
    BY <1>2, <1>5, <1>6, <1>7, Zenon DEF Taken

\* On the first label.
LEMMA LabelSample ==
  ASSUME Readable, IInv, LearnInv, LearnTypes', ~learned, pos < paper.len,
         Taken(IsDark(pos)), pos' = pos + 1, paper' = paper
  PROVE  ~learned' /\ threshold' = threshold /\ OnFirstLabel'
  <1>1. /\ paper \in Papers /\ pos \in Nat /\ paper.start \in Nat /\ paper.len \in Nat
        /\ paper.start <= pos /\ lights \in Nat
    BY PaperTyped DEF IInv, TypeOK, LearnInv
  <1>2. OnFirstLabel
    BY <1>1 DEF LearnInv
  <1> DEFINE c == SpotsBefore(pos)
             d == SpotsBefore(pos + 1)
             len == Len(window')
  <1>3. c \in 0..2 /\ d \in 0..2 /\ (IsDark(pos) => d = c + 1) /\ (~IsDark(pos) => d = c)
    BY <1>1, SpotsCounted
  <1>4. minCount = c /\ maxCount = AtMost16(pos - paper.start - c) /\ (maxCount = 16 => lights >= 14)
    BY <1>2 DEF OnFirstLabel
  <1>5. (SpotsBefore(pos))' = d
    BY DEF SpotsBefore, SpotSample
  <1> HIDE DEF c, d
  <1>6. minCount' = d /\ maxCount' = AtMost16(pos + 1 - paper.start - d)
    <2>1. CASE IsDark(pos)
      BY <1>1, <1>3, <1>4, <2>1 DEF Taken, AtMost16
    <2>2. CASE ~IsDark(pos)
      BY <1>1, <1>3, <1>4, <2>2 DEF Taken, AtMost16
    <2> QED
      BY <2>1, <2>2
  <1>7. ~learned' /\ threshold' = threshold
    <2>1. minCount' # 16
      BY <1>3, <1>6
    <2>2. /\ learned' = (minCount' = 16 /\ maxCount' = 16)
          /\ threshold' = IF learned' THEN Middle(darks', lights') ELSE threshold
      BY Zenon DEF Taken
    <2> QED
      BY <2>1, <2>2, Zenon
  <1>8. ASSUME maxCount' = 16 PROVE lights' >= 14
    <2>1. CASE IsDark(pos)
      BY <1>4, <1>8, <2>1 DEF Taken
    <2>2. CASE ~IsDark(pos)
      <3>1. pos + 1 - paper.start >= 16
        BY <1>1, <1>3, <1>6, <1>8 DEF AtMost16
      <3>2. Ring(window', pos + 1)
        BY DEF Taken
      <3>3. Len(window') = 16
        BY <1>1, <3>1, <3>2 DEF Ring, Shown, AtMost16
      <3>4. DOMAIN window' = 1..16
        BY <3>3 DEF LearnTypes
      <3>5. CountOf(window', FALSE) >= 14
        <4>1. pos + 1 \in Nat /\ paper.start + 16 <= pos + 1 /\ pos + 1 <= paper.len
          BY <1>1, <3>1
        <4> QED
          BY <1>1, <3>2, <3>3, <3>4, <4>1, LightRing
      <3> QED
        BY <2>2, <3>5 DEF Taken
    <2> QED
      BY <2>1, <2>2
  <1>9. OnFirstLabel'
    <2>1. minCount' = (SpotsBefore(pos))'
      BY <1>5, <1>6
    <2>2. maxCount' = AtMost16(pos' - paper'.start - (SpotsBefore(pos))')
      <3>1. pos' - paper'.start - d = pos + 1 - paper.start - d
        BY <1>1, <1>3
      <3> QED
        BY <1>5, <1>6, <3>1, Zenon
    <2> QED
      BY <2>1, <2>2, <1>8 DEF OnFirstLabel
  <1> QED
    BY <1>7, <1>9

\* In the first gap, up to the sample the threshold is learned with.
LEMMA GapSample ==
  ASSUME Readable, IInv, LearnInv, LearnTypes', ~learned, pos >= paper.len,
         Taken(IsDark(pos)), pos' = pos + 1, paper' = paper
  PROVE  /\ ~learned' => threshold' = threshold /\ InFirstGap'
         /\ learned' => ThresholdApart'
  <1>1. /\ paper \in Papers /\ pos \in Nat /\ paper.start \in Nat /\ paper.len \in Nat
        /\ paper.start + 18 <= paper.len /\ lights \in 0..16
    BY PaperTyped DEF IInv, TypeOK
  <1> DEFINE c == SpotsBefore(paper.len)
  <1>2. c \in 0..2
    <2>1. paper.len - 1 \in Nat /\ paper.start <= paper.len - 1 /\ paper.len - 1 < paper.len
          /\ (paper.len - 1) + 1 = paper.len
      BY <1>1
    <2>2. SpotsBefore((paper.len - 1) + 1) \in 0..2
      BY <1>1, <2>1, SpotsCounted
    <2> QED
      BY <2>1, <2>2
  <1>3. minCount = c + pos - paper.len /\ minCount < 16 /\ maxCount = 16 /\ lights >= 14
    <2>1. CASE pos = paper.len
      <3>1. /\ minCount = SpotsBefore(pos) /\ maxCount = AtMost16(pos - paper.start - SpotsBefore(pos))
            /\ maxCount = 16 => lights >= 14
        BY <1>1, <2>1 DEF LearnInv, OnFirstLabel
      <3> HIDE DEF c
      <3>2. SpotsBefore(pos) = c
        BY <2>1 DEF c
      <3> QED
        BY <1>1, <1>2, <2>1, <3>1, <3>2 DEF AtMost16
    <2>2. CASE pos > paper.len
      BY <2>2 DEF LearnInv, InFirstGap
    <2> QED
      BY <1>1, <2>1, <2>2
  <1>4. (SpotsBefore(paper.len))' = c
    BY DEF SpotsBefore, SpotSample
  <1> HIDE DEF c
  <1>5. IsDark(pos)
    <2>1. paper.len <= pos /\ pos < paper.len + 16
      BY <1>1, <1>2, <1>3
    <2> QED
      BY <1>1, <2>1, FirstSamples
  <1>6. /\ minCount' = minCount + 1 /\ maxCount' = 16 /\ lights' = lights
        /\ darks' = CountOf(window', TRUE)
    BY <1>1, <1>2, <1>3, <1>5 DEF Taken, AtMost16
  <1>7. learned' <=> minCount' = 16
    BY <1>6 DEF Taken
  <1>8. ASSUME ~learned' PROVE threshold' = threshold /\ InFirstGap'
    <2>1. minCount' # 16 /\ minCount' < 16 /\ minCount' = c + (pos + 1) - paper.len
      BY <1>1, <1>2, <1>3, <1>6, <1>7, <1>8
    <2>2. threshold' = threshold
      BY <1>8 DEF Taken
    <2> QED
      BY <1>3, <1>4, <1>6, <2>1, <2>2 DEF InFirstGap
  <1>9. ASSUME learned' PROVE ThresholdApart'
    <2>1. minCount' = 16
      BY <1>7, <1>9
    <2>2. paper.len + 14 <= pos + 1 /\ pos + 1 <= paper.len + 16 /\ pos + 1 \in Nat
      BY <1>1, <1>2, <1>3, <1>6, <2>1
    <2>3. Ring(window', pos + 1)
      BY DEF Taken
    <2>4. Len(window') = 16
      BY <1>1, <2>2, <2>3 DEF Ring, Shown, AtMost16
    <2>5. DOMAIN window' = 1..16
      BY <2>4 DEF LearnTypes
    <2>6. CountOf(window', TRUE) >= 14
      BY <1>1, <2>2, <2>3, <2>4, <2>5, DarkRing
    <2>7. darks' \in 14..16 /\ lights' \in 14..16
      <3>1. darks' \in 0..16
        BY DEF LearnTypes
      <3>2. darks' >= 14
        BY <1>6, <2>6
      <3>3. lights' = lights /\ lights \in 0..16 /\ lights >= 14
        BY <1>1, <1>3, <1>6
      <3> QED
        BY <3>1, <3>2, <3>3
    <2>8. threshold' = Middle(darks', lights') /\ Light - Dark >= 5
      BY <1>9 DEF Taken, Readable
    <2> QED
      BY <2>7, <2>8, MiddleApart DEF ThresholdApart
  <1> QED
    BY <1>8, <1>9

LEMMA LearnInit == ASSUME Readable PROVE Init => LearnInv
  <1> SUFFICES ASSUME Init PROVE LearnInv
    OBVIOUS
  <1>1. paper \in Papers /\ pos = paper.start /\ window = <<>> /\ ~learned
        /\ threshold = FirstThreshold /\ minCount = 0 /\ maxCount = 0
    BY DEF Init
  <1>2. paper.start \in Nat /\ paper.len \in Nat /\ paper.spot \in Nat /\ pos <= paper.len
    BY <1>1, PaperTyped
  <1>3. Ring(window, pos)
    BY <1>1, <1>2 DEF Ring, Shown, AtMost16
  <1>4. SpotsBefore(pos) = 0
    BY <1>1, <1>2 DEF SpotsBefore, SpotSample
  <1>5. OnFirstLabel
    BY <1>1, <1>2, <1>4 DEF OnFirstLabel, AtMost16
  <1>6. ThresholdApart
    BY <1>1 DEF ThresholdApart
  <1>7. paper.start <= pos /\ ~(pos > paper.len)
    BY <1>1, <1>2
  <1> QED
    BY <1>1, <1>3, <1>5, <1>6, <1>7 DEF LearnInv

LEMMA LearnStep ==
  ASSUME Readable, IInv, LearnInv, Learn, pos' = pos + 1, paper' = paper
  PROVE  LearnInv'
  <1>1. paper \in Papers /\ pos \in Nat /\ paper.start \in Nat /\ paper.len \in Nat
        /\ paper.start <= pos
    BY PaperTyped DEF IInv, TypeOK, LearnInv
  <1>2. paper'.start <= pos'
    BY <1>1
  <1>3. CASE learned
    <2>1. learned' /\ threshold' = threshold
      BY <1>3 DEF Learn, learnVars
    <2>2. ThresholdApart'
      BY <1>3, <2>1 DEF LearnInv, ThresholdApart
    <2> QED
      BY <1>2, <2>1, <2>2 DEF LearnInv
  <1>4. CASE ~learned
    <2>1. Taken(IsDark(pos)) /\ LearnTypes'
      BY <1>4, SampleTaken, LearnTyped
    <2>2. (Ring(window, pos))'
      <3>1. Ring(window', pos + 1)
        BY <2>1, Zenon DEF Taken
      <3> QED
        BY <3>1 DEF Ring, Shown, DarkMap, IsDark, Backing
    <2>3. threshold = FirstThreshold
      BY <1>4 DEF LearnInv
    <2>4. CASE pos < paper.len
      <3>1. ~learned' /\ threshold' = threshold /\ OnFirstLabel'
        BY <1>4, <2>1, <2>4, LabelSample
      <3>2. ~(pos' > paper'.len)
        BY <1>1, <2>4
      <3>3. ThresholdApart'
        BY <3>1 DEF ThresholdApart
      <3> QED
        BY <1>2, <2>2, <2>3, <3>1, <3>2, <3>3 DEF LearnInv
    <2>5. CASE pos >= paper.len
      <3>1. /\ ~learned' => threshold' = threshold /\ InFirstGap'
            /\ learned' => ThresholdApart'
        BY <1>4, <2>1, <2>5, GapSample
      <3>2. ~(pos' <= paper'.len)
        BY <1>1, <2>5
      <3>3. ThresholdApart'
        BY <3>1 DEF ThresholdApart
      <3> QED
        BY <1>2, <2>2, <2>3, <3>1, <3>2, <3>3 DEF LearnInv
    <2> QED
      BY <1>1, <2>4, <2>5
  <1> QED
    BY <1>3, <1>4

LEMMA LearnNext == ASSUME Readable PROVE IInv /\ LearnInv /\ [Next]_vars => LearnInv'
  <1> SUFFICES ASSUME IInv, LearnInv, [Next]_vars PROVE LearnInv'
    OBVIOUS
  <1>1. ASSUME NEW m, Step(m) PROVE LearnInv'
    <2>1. Learn /\ pos' = pos + 1 /\ paper' = paper
      BY <1>1 DEF Step
    <2> QED
      BY <2>1, LearnStep
  <1>2. ASSUME UNCHANGED <<paper, pos, learnVars>> PROVE LearnInv'
    <2>1. /\ paper' = paper /\ pos' = pos /\ threshold' = threshold /\ learned' = learned
          /\ window' = window /\ lights' = lights /\ minCount' = minCount /\ maxCount' = maxCount
      BY <1>2 DEF learnVars
    <2> QED
      BY <2>1 DEF LearnInv, ThresholdApart, Ring, Shown, DarkMap, IsDark, Backing, OnFirstLabel,
        InFirstGap, SpotsBefore, SpotSample
  <1>3. CASE StepCounts
    BY <1>1, <1>3 DEF StepCounts
  <1>4. CASE StepBehind
    BY <1>1, <1>4 DEF StepBehind
  <1>5. CASE StopAndContinue
    BY <1>2, <1>5 DEF StopAndContinue
  <1>6. CASE UNCHANGED vars
    BY <1>2, <1>6 DEF vars
  <1> QED
    BY <1>3, <1>4, <1>5, <1>6 DEF Next

\* The learned threshold keeps a quarter of the range to the reading of a gap and to that
\* of a label, on every readable paper: insertSorted copies the one ring for both sides,
\* but dark samples and light ones are mixed in it only where the first gap begins, and
\* by then the light side has been full, the dark side is when the last light sample left.
THEOREM ThresholdApartAlways == ASSUME Readable PROVE Spec => []ThresholdApart
  <1>1. Init => IInv /\ LearnInv
    BY InvInit, LearnInit
  <1>2. IInv /\ LearnInv /\ [Next]_vars => (IInv /\ LearnInv)'
    BY InvNext, LearnNext
  <1>3. IInv /\ LearnInv => ThresholdApart
    BY DEF LearnInv
  <1> QED
    BY <1>1, <1>2, <1>3, PTL DEF Spec

----------------------------------------------------------------------------
(* What the sensor reads                                                   *)

LEMMA Quarter ==
  ASSUME NEW t \in Nat, NEW d \in Nat, NEW l \in Nat, l - d >= 5,
         4 * (t - d) >= l - d, 4 * (l - t) >= l - d
  PROVE  d < t /\ t <= l
  OBVIOUS

\* The shift register takes what is under the sensor.
LEMMA ShiftedRight ==
  ASSUME Readable, IInv', LearnInv'
  PROVE  Shifted = IF IsDark(pos) THEN (countGap * 2 + 1) % 256 ELSE countGap \div 2
  <1>1. threshold' \in Nat /\ Dark \in Nat /\ Light \in Nat /\ Light - Dark >= 5
        /\ Dark < FirstThreshold /\ FirstThreshold <= Light
    BY GapSensorAssumption DEF IInv, TypeOK, Readable
  <1>2. Dark < threshold' /\ threshold' <= Light
    <2>1. CASE learned'
      <3>1. 4 * (threshold' - Dark) >= Light - Dark /\ 4 * (Light - threshold') >= Light - Dark
        BY <2>1 DEF LearnInv, ThresholdApart
      <3> QED
        BY <1>1, <3>1, Quarter
    <2>2. CASE ~learned'
      <3>1. threshold' = FirstThreshold
        BY <2>2, Zenon DEF LearnInv
      <3> QED
        BY <1>1, <3>1
    <2> QED
      BY <2>1, <2>2
  <1> QED
    BY <1>1, <1>2 DEF Shifted, Adc

----------------------------------------------------------------------------
(* The length of a label                                                   *)

\* Paper whose spot is clear of the gaps: on a label the shift register runs empty before the
\* spot and behind it.
Plain ==
  \A p \in Papers : /\ p.gap + 8 <= p.len
                    /\ p.spot > 0 => p.gap + 8 <= p.spot /\ p.spot + 4 <= p.len

\* The shift register with k dark samples.
Register(k) ==
  CASE k = 0 -> 0 [] k = 1 -> 1 [] k = 2 -> 3 [] k = 3 -> 7 [] k = 4 -> 15
    [] k = 5 -> 31 [] k = 6 -> 63 [] k = 7 -> 127 [] k = 8 -> 255

Full(n) == IF n > 8 THEN 8 ELSE n
Shift(k, dark) == IF dark THEN Full(k + 1) ELSE IF k = 0 THEN 0 ELSE k - 1

\* How far the sensor is along the label, or on the backing.
Along == IF pos >= Backing THEN pos - Backing ELSE pos % paper.len

\* Where the sensor is decides how full the register is, whatever the run did.
FillAt(k) ==
  IF pos >= Backing THEN k = Full(Along)
  ELSE IF pos >= paper.len /\ Along < paper.gap + 8
       THEN k = IF Along <= paper.gap THEN Full(Along) ELSE paper.gap + 8 - Along
       ELSE k > 0 => /\ k <= 2 /\ paper.spot > 0 /\ Along - paper.spot \in 1..3
                     /\ k = 2 => Along = paper.spot + 2

FillInv == \E k \in 0..8 : countGap = Register(k) /\ FillAt(k)

\* Since an edge was noted the steps count the way from there: from the third dark sample of a
\* gap, or, when the run stopped in the gap, from the fifth light one behind it.
MeasureInv ==
  /\ gapIn => gapPos # 0 /\ Along >= 3 /\ (pos < Backing => Along <= paper.gap + 6)
  /\ gapPos # 0 => pos >= paper.len
  /\ gapPos # 0 /\ Along < 3 =>
       steps - gapPos \in {Along + paper.len - 3, Along + paper.len - paper.gap - 5}
  /\ gapPos # 0 /\ Along >= 3 /\ pos < Backing =>
       /\ \/ steps - gapPos = Along - 3
          \/ Along >= paper.gap + 5 /\ steps - gapPos = Along - paper.gap - 5
       /\ Along <= paper.gap + 6 => gapIn

LEMMA NoMultipleBetween ==
  ASSUME NEW m \in Nat \ {0}, NEW d \in Int, -m < m * d, m * d < m
  PROVE  d = 0
  <1>1. ~(d >= 1)
    <2> SUFFICES ASSUME d >= 1 PROVE FALSE
      OBVIOUS
    <2>1. m * (d - 1) >= 0
      OBVIOUS
    <2> QED
      BY <2>1
  <1>2. ~(d <= -1)
    <2> SUFFICES ASSUME d <= -1 PROVE FALSE
      OBVIOUS
    <2>1. m * (-1 - d) >= 0
      OBVIOUS
    <2> QED
      BY <2>1
  <1> QED
    BY <1>1, <1>2

LEMMA MultipleModulo ==
  ASSUME NEW m \in Nat \ {0}, NEW n \in Nat
  PROVE  (n * m) % m = 0
  <1> DEFINE x == n * m
             q == x \div m
             r == x % m
  <1>1. x \in Nat /\ x = m * n
    OBVIOUS
  <1> HIDE DEF x
  <1>2. x = m * q + r /\ q \in Int /\ r \in 0 .. m - 1
    BY <1>1
  <1> HIDE DEF q, r
  <1>3. m * (n - q) = r /\ n - q \in Int
    BY <1>1, <1>2
  <1>4. n - q = 0
    BY <1>2, <1>3, NoMultipleBetween
  <1>5. r = 0
    BY <1>3, <1>4
  <1> QED
    BY <1>5 DEF r, x

LEMMA ModuloNext ==
  ASSUME NEW m \in Nat \ {0}, NEW x \in Nat
  PROVE  (x + 1) % m = IF (x % m) + 1 = m THEN 0 ELSE (x % m) + 1
  <1> DEFINE q == x \div m
             r == x % m
             q2 == (x + 1) \div m
             r2 == (x + 1) % m
  <1>1. x = m * q + r /\ q \in Int /\ r \in 0 .. m - 1
    OBVIOUS
  <1>2. x + 1 = m * q2 + r2 /\ q2 \in Int /\ r2 \in 0 .. m - 1
    OBVIOUS
  <1> HIDE DEF q, r, q2, r2
  <1>3. CASE r + 1 = m
    <2> DEFINE d == q2 - q - 1
    <2>1. m * d = 0 - r2 /\ d \in Int
      BY <1>1, <1>2, <1>3
    <2> HIDE DEF d
    <2>2. d = 0
      BY <1>2, <2>1, NoMultipleBetween
    <2>3. r2 = 0
      BY <1>2, <2>1, <2>2
    <2> QED
      BY <1>3, <2>3 DEF r, r2
  <1>4. CASE r + 1 # m
    <2>1. m * (q2 - q) = r + 1 - r2 /\ q2 - q \in Int
      BY <1>1, <1>2
    <2>2. q2 - q = 0
      BY <1>1, <1>2, <1>4, <2>1, NoMultipleBetween
    <2>3. r2 = r + 1
      BY <1>1, <1>2, <2>1, <2>2
    <2> QED
      BY <1>4, <2>3 DEF r, r2
  <1> QED
    BY <1>3, <1>4

LEMMA RegisterNext ==
  ASSUME NEW k \in 0..8
  PROVE  /\ (Register(k) * 2 + 1) % 256 = Register(Full(k + 1))
         /\ Register(k) \div 2 = Register(IF k = 0 THEN 0 ELSE k - 1)
         /\ Register(k) = 7 <=> k = 3
         /\ Register(k) = 1 <=> k = 1
  <1>1. k \in {0, 1, 2, 3, 4, 5, 6, 7, 8}
    OBVIOUS
  <1>2. (Register(k) * 2 + 1) % 256 = Register(Full(k + 1))
    BY <1>1 DEF Register, Full
  <1>3. Register(k) \div 2 = Register(IF k = 0 THEN 0 ELSE k - 1)
    BY <1>1 DEF Register
  <1>4. Register(3) = 7 /\ Register(1) = 1
    BY DEF Register
  <1>5. ASSUME Register(k) = 7 PROVE k = 3
    BY <1>1, <1>5 DEF Register
  <1>6. ASSUME Register(k) = 1 PROVE k = 1
    BY <1>1, <1>6 DEF Register
  <1> QED
    BY <1>2, <1>3, <1>4, <1>5, <1>6

LEMMA PlainPaper ==
  ASSUME Plain, paper \in Papers
  PROVE  /\ paper.gap + 8 <= paper.len
         /\ paper.spot > 0 => paper.gap + 8 <= paper.spot /\ paper.spot + 4 <= paper.len
  BY DEF Plain

\* The sensor goes along the label and on to the next one.
LEMMA AlongNext ==
  ASSUME Readable, paper \in Papers, pos \in Nat, pos' = pos + 1, paper' = paper
  PROVE  /\ Along \in Nat /\ Along' \in Nat
         /\ pos >= Backing => Along' = Along + 1
         /\ pos < Backing => Along < paper.len
         /\ pos < Backing => Along' = IF Along + 1 = paper.len THEN 0 ELSE Along + 1
         /\ pos < Backing /\ pos + 1 >= Backing => Along + 1 = paper.len
         /\ pos < paper.len => Along = pos
  <1> DEFINE len == paper.len
             edge == Backing
             r == pos % len
             r2 == (pos + 1) % len
  <1>1. len \in Nat \ {0} /\ edge \in Nat /\ len <= edge
    BY PaperTyped
  <1>2. Along = IF pos >= edge THEN pos - edge ELSE r
    BY DEF Along
  <1>3. Along' = IF pos + 1 >= edge THEN pos + 1 - edge ELSE r2
    <2>1. Backing' = edge /\ paper'.len = len /\ pos' = pos + 1
      BY DEF Backing
    <2>2. Along' = IF pos' >= Backing' THEN pos' - Backing' ELSE pos' % paper'.len
      BY DEF Along
    <2> HIDE DEF edge, len
    <2>3. CASE pos + 1 >= edge
      BY <1>1, <2>1, <2>2, <2>3
    <2>4. CASE ~(pos + 1 >= edge)
      BY <2>1, <2>2, <2>4
    <2> QED
      BY <2>3, <2>4
  <1>4. r2 = IF r + 1 = len THEN 0 ELSE r + 1
    BY <1>1, ModuloNext
  <1>5. r \in Nat /\ r < len /\ r2 \in Nat
    BY <1>1
  <1>6. edge % len = 0
    <2>1. Labels \in Nat /\ edge = Labels * len
      BY DEF Readable, Backing
    <2> HIDE DEF edge
    <2> QED
      BY <1>1, <2>1, MultipleModulo
  <1>7. pos + 1 = edge => r2 = 0
    BY <1>6
  <1>8. pos < len => r = pos
    BY <1>1, Remainder
  <1> HIDE DEF len, edge, r, r2
  <1>9. /\ Along \in Nat /\ Along' \in Nat
        /\ pos >= edge => Along' = Along + 1
        /\ pos < edge => Along < len
        /\ pos < edge => Along' = IF Along + 1 = len THEN 0 ELSE Along + 1
        /\ pos < edge /\ pos + 1 >= edge => Along + 1 = len
        /\ pos < len => Along = pos
    BY <1>1, <1>2, <1>3, <1>4, <1>5, <1>7, <1>8
  <1> QED
    BY <1>9 DEF len, edge

LEMMA DarkAlong ==
  ASSUME Readable, paper \in Papers, pos \in Nat
  PROVE  IsDark(pos) <=> \/ pos >= Backing
                         \/ pos >= paper.len /\ Along < paper.gap
                         \/ paper.spot > 0 /\ Along \in paper.spot .. paper.spot + 1
  <1>1. CASE pos >= Backing
    BY <1>1 DEF IsDark
  <1>2. CASE ~(pos >= Backing)
    BY <1>2 DEF IsDark, Along
  <1> QED
    BY <1>1, <1>2

LEMMA FillNext ==
  ASSUME Readable, Plain, paper \in Papers, pos \in Nat, pos' = pos + 1, paper' = paper,
         NEW k \in 0..8, NEW n, n = Shift(k, IsDark(pos)), FillAt(k)
  PROVE  n \in 0..8 /\ FillAt(n)'
  <1> DEFINE edge == Backing
             len == paper.len
             gap == paper.gap
             spot == paper.spot
             dark == IsDark(pos)
             a == Along
             b == Along'
  <1>1. /\ len \in Nat /\ gap \in Nat /\ spot \in Nat /\ edge \in Nat
        /\ 16 <= gap /\ len <= edge
    BY PaperTyped
  <1>2. gap + 8 <= len /\ (spot > 0 => gap + 8 <= spot /\ spot + 4 <= len)
    BY PlainPaper
  <1>3. /\ a \in Nat /\ b \in Nat
        /\ pos >= edge => b = a + 1 
        /\ pos < edge => a < len
        /\ pos < edge => b = IF a + 1 = len THEN 0 ELSE a + 1
        /\ pos < edge /\ pos + 1 >= edge => a + 1 = len
        /\ pos < len => a = pos
    BY AlongNext
  <1>4. dark <=> \/ pos >= edge
                 \/ pos >= len /\ a < gap
                 \/ spot > 0 /\ a \in spot .. spot + 1
    BY DarkAlong
  <1>5. /\ dark => n = Full(k + 1)
        /\ ~dark => n = IF k = 0 THEN 0 ELSE k - 1
    BY DEF Shift
  <1>6. /\ pos >= edge => k = Full(a)
        /\ pos < edge /\ pos >= len /\ a < gap + 8 =>
             k = IF a <= gap THEN Full(a) ELSE gap + 8 - a
        /\ pos < edge /\ ~(pos >= len /\ a < gap + 8) /\ k > 0 =>
             k <= 2 /\ spot > 0 /\ a - spot \in 1..3 /\ (k = 2 => a = spot + 2)
    BY <1>1 DEF FillAt
  <1>7. pos' = pos + 1 /\ Backing' = edge /\ paper'.len = len /\ paper'.gap = gap
        /\ paper'.spot = spot
    BY DEF Backing
  <1>8. pos + 1 = edge => b = 0
    BY <1>1, <1>3
  <1> HIDE DEF edge, len, gap, spot, dark, a, b
  <1>9. n \in 0..8
    BY <1>5 DEF Full
  <1>10. pos + 1 >= edge => n = Full(b)
    <2>1. CASE pos >= edge
      BY <1>1, <1>3, <1>4, <1>5, <1>6, <2>1 DEF Full
    <2>2. CASE pos < edge /\ pos + 1 >= edge
      BY <1>1, <1>2, <1>3, <1>4, <1>5, <1>6, <1>8, <2>2 DEF Full
    <2> QED
      BY <1>1, <2>1, <2>2
  <1>11. pos + 1 < edge /\ pos + 1 >= len /\ b < gap + 8 =>
           n = IF b <= gap THEN Full(b) ELSE gap + 8 - b
    <2> SUFFICES ASSUME pos + 1 < edge, pos + 1 >= len, b < gap + 8
                 PROVE  n = IF b <= gap THEN Full(b) ELSE gap + 8 - b
      OBVIOUS
    <2>1. CASE a + 1 = len
      BY <1>1, <1>2, <1>3, <1>4, <1>5, <1>6, <2>1 DEF Full
    <2>2. CASE a + 1 # len
      BY <1>1, <1>2, <1>3, <1>4, <1>5, <1>6, <2>2 DEF Full
    <2> QED
      BY <2>1, <2>2
  <1>12. pos + 1 < edge /\ ~(pos + 1 >= len /\ b < gap + 8) /\ n > 0 =>
           n <= 2 /\ spot > 0 /\ b - spot \in 1..3 /\ (n = 2 => b = spot + 2)
    <2> SUFFICES ASSUME pos + 1 < edge, ~(pos + 1 >= len /\ b < gap + 8), n > 0
                 PROVE  n <= 2 /\ spot > 0 /\ b - spot \in 1..3 /\ (n = 2 => b = spot + 2)
      OBVIOUS
    <2>1. CASE pos >= len /\ a < gap + 8
      BY <1>1, <1>2, <1>3, <1>4, <1>5, <1>6, <2>1 DEF Full
    <2>2. CASE ~(pos >= len /\ a < gap + 8)
      BY <1>1, <1>2, <1>3, <1>4, <1>5, <1>6, <2>2 DEF Full
    <2> QED
      BY <2>1, <2>2
  <1>13. FillAt(n)'
    <2>1. /\ pos' >= Backing' => n = Full(b)
          /\ ~(pos' >= Backing') /\ pos' >= paper'.len /\ b < paper'.gap + 8 =>
               n = IF b <= paper'.gap THEN Full(b) ELSE paper'.gap + 8 - b
          /\ ~(pos' >= Backing') /\ ~(pos' >= paper'.len /\ b < paper'.gap + 8) /\ n > 0 =>
               n <= 2 /\ paper'.spot > 0 /\ b - paper'.spot \in 1..3
               /\ (n = 2 => b = paper'.spot + 2)
      BY <1>1, <1>3, <1>7, <1>10, <1>11, <1>12
    <2> QED
      BY <2>1 DEF FillAt, b
  <1> QED
    BY <1>9, <1>13

LEMMA FillStep ==
  ASSUME Readable, Plain, IInv, IInv', LearnInv', FillInv, countGap' = Shifted,
         pos' = pos + 1, paper' = paper
  PROVE  FillInv'
  <1>1. PICK k \in 0..8 : countGap = Register(k) /\ FillAt(k)
    BY DEF FillInv
  <1>2. PICK n : n = Shift(k, IsDark(pos))
    OBVIOUS
  <1>3. paper \in Papers /\ pos \in Nat
    BY DEF IInv, TypeOK
  <1>4. n \in 0..8 /\ FillAt(n)'
    BY <1>1, <1>2, <1>3, FillNext
  <1>5. countGap' = IF IsDark(pos) THEN (countGap * 2 + 1) % 256 ELSE countGap \div 2
    BY <1>3, ShiftedRight
  <1>6. countGap' = Register(n)
    <2>1. CASE IsDark(pos)
      <3>1. n = Full(k + 1)
        BY <1>2, <2>1 DEF Shift
      <3> QED
        BY <1>1, <1>5, <2>1, <3>1, RegisterNext
    <2>2. CASE ~IsDark(pos)
      <3>1. n = IF k = 0 THEN 0 ELSE k - 1
        BY <1>2, <2>2 DEF Shift
      <3> QED
        BY <1>1, <1>5, <2>2, <3>1, RegisterNext
    <2> QED
      BY <2>1, <2>2
  <1> QED
    BY <1>4, <1>6 DEF FillInv

\* What the register shows: a gap after three samples of it, its end seven steps behind it.
LEMMA EdgeShown ==
  ASSUME Readable, Plain, IInv, FillInv', pos' = pos + 1, paper' = paper
  PROVE  /\ countGap' = 7 => \/ Along' = 3 
                             \/ Along' = paper.gap + 5 /\ pos + 1 < Backing
         /\ countGap' = 7 => pos + 1 >= paper.len
         /\ Along' = 3 /\ pos + 1 >= paper.len => countGap' = 7
         /\ pos + 1 < Backing /\ pos + 1 >= paper.len /\ Along' = paper.gap + 7 => countGap' = 1
         /\ countGap' = 1 /\ pos + 1 >= Backing => Along' = 1
         /\ countGap' = 1 /\ pos + 1 < Backing /\ pos + 1 >= paper.len /\ Along' < paper.gap + 8 =>
              Along' \in {1, paper.gap + 7}
  <1> DEFINE edge == Backing
             len == paper.len
             gap == paper.gap
             b == Along'
  <1>1. PICK n \in 0..8 : countGap' = Register(n) /\ FillAt(n)'
    BY DEF FillInv
  <1>2. (countGap' = 7 <=> n = 3) /\ (countGap' = 1 <=> n = 1)
    BY <1>1, RegisterNext
  <1>3. paper \in Papers /\ pos \in Nat
    BY DEF IInv, TypeOK
  <1>4. len \in Nat /\ gap \in Nat /\ edge \in Nat /\ 16 <= gap /\ len <= edge /\ gap + 8 <= len
    BY <1>3, PaperTyped, PlainPaper
  <1>5. b \in Nat
    BY <1>3, AlongNext
  <1>6. /\ pos + 1 >= edge => n = Full(b)
        /\ pos + 1 < edge /\ pos + 1 >= len /\ b < gap + 8 =>
             n = IF b <= gap THEN Full(b) ELSE gap + 8 - b
        /\ pos + 1 < edge /\ ~(pos + 1 >= len /\ b < gap + 8) => n <= 2
    <2>1. pos' = pos + 1 /\ Backing' = edge /\ paper'.len = len /\ paper'.gap = gap
      BY DEF Backing
    <2>2. /\ pos' >= Backing' => n = Full(b)
          /\ ~(pos' >= Backing') /\ pos' >= paper'.len /\ b < paper'.gap + 8 =>
               n = IF b <= paper'.gap THEN Full(b) ELSE paper'.gap + 8 - b
          /\ ~(pos' >= Backing') /\ ~(pos' >= paper'.len /\ b < paper'.gap + 8) => (n > 0 => n <= 2)
      BY <1>1 DEF FillAt
    <2> HIDE DEF edge, len, gap, b
    <2> QED
      BY <1>1, <1>3, <1>4, <1>5, <2>1, <2>2
  <1> HIDE DEF edge, len, gap, b
  <1>7. ASSUME n = 3 PROVE b = 3 \/ (b = gap + 5 /\ pos + 1 < edge)
    <2>1. CASE pos + 1 >= edge
      BY <1>3, <1>4, <1>5, <1>6, <1>7, <2>1 DEF Full
    <2>2. CASE pos + 1 < edge
      <3>1. pos + 1 >= len /\ b < gap + 8
        BY <1>3, <1>4, <1>5, <1>6, <1>7, <2>2
      <3> QED
        BY <1>3, <1>4, <1>5, <1>6, <1>7, <2>2, <3>1 DEF Full
    <2> QED
      BY <1>3, <1>4, <2>1, <2>2
  <1>8. n = 3 => pos + 1 >= len
    BY <1>3, <1>4, <1>5, <1>6 DEF Full
  <1>9. b = 3 /\ pos + 1 >= len => n = 3
    BY <1>3, <1>4, <1>5, <1>6 DEF Full
  <1>10. pos + 1 < edge /\ pos + 1 >= len /\ b = gap + 7 => n = 1
    BY <1>3, <1>4, <1>5, <1>6 DEF Full
  <1>11. n = 1 /\ pos + 1 >= edge => b = 1
    BY <1>3, <1>4, <1>5, <1>6 DEF Full
  <1>12. n = 1 /\ pos + 1 < edge /\ pos + 1 >= len /\ b < gap + 8 => b \in {1, gap + 7}
    BY <1>3, <1>4, <1>5, <1>6 DEF Full
  <1> QED
    BY <1>2, <1>7, <1>8, <1>9, <1>10, <1>11, <1>12 DEF edge, len, gap, b

\* From edge to edge it is one label, or one without its gap.
LEMMA MeasureStep ==
  ASSUME Readable, Plain, IInv, FillInv', MeasureInv, NEW m, Step(m)
  PROVE  /\ MeasureInv'
         /\ GapBegins /\ gapPos # 0 => steps' - gapPos \in {paper.len, paper.len - paper.gap - 2}
  <1> DEFINE edge == Backing
             len == paper.len
             gap == paper.gap
             a == Along
             b == Along'
             way == steps - gapPos
             way2 == steps' - gapPos'
  <1>1. /\ pos' = pos + 1 /\ steps' = steps + 1 /\ paper' = paper
        /\ pos \in Nat /\ steps \in Nat /\ gapPos \in Nat /\ gapPos <= steps /\ paper \in Papers
    BY DEF Step, IInv, TypeOK
  <1>2. len \in Nat /\ gap \in Nat /\ edge \in Nat /\ 16 <= gap /\ len <= edge /\ gap + 8 <= len
    BY <1>1, PaperTyped, PlainPaper
  <1>3. /\ a \in Nat /\ b \in Nat
        /\ pos >= edge => b = a + 1
        /\ pos < edge => a < len
        /\ pos < edge => b = IF a + 1 = len THEN 0 ELSE a + 1
        /\ pos < edge /\ pos + 1 >= edge => a + 1 = len
    BY <1>1, AlongNext
  <1>4. /\ countGap' = 7 => b = 3 \/ (b = gap + 5 /\ pos + 1 < edge)
        /\ countGap' = 7 => pos + 1 >= len
        /\ b = 3 /\ pos + 1 >= len => countGap' = 7
        /\ pos + 1 < edge /\ pos + 1 >= len /\ b = gap + 7 => countGap' = 1
        /\ countGap' = 1 /\ pos + 1 >= edge => b = 1
        /\ countGap' = 1 /\ pos + 1 < edge /\ pos + 1 >= len /\ b < gap + 8 => b \in {1, gap + 7}
    BY <1>1, EdgeShown
  <1>5. /\ gapIn => gapPos # 0 /\ a >= 3 /\ (pos < edge => a <= gap + 6)
        /\ gapPos # 0 => pos >= len
        /\ gapPos # 0 /\ a < 3 => way \in {a + len - 3, a + len - gap - 5}
        /\ gapPos # 0 /\ a >= 3 /\ pos < edge =>
             /\ way = a - 3 \/ (a >= gap + 5 /\ way = a - gap - 5)
             /\ a <= gap + 6 => gapIn
    BY DEF MeasureInv
  <1>6. way \in Int
    BY <1>1
  <1>7. ASSUME /\ gapIn' => gapPos' # 0 /\ b >= 3 /\ (pos + 1 < edge => b <= gap + 6)
               /\ gapPos' # 0 => pos + 1 >= len
               /\ gapPos' # 0 /\ b < 3 => way2 \in {b + len - 3, b + len - gap - 5}
               /\ gapPos' # 0 /\ b >= 3 /\ pos + 1 < edge =>
                    /\ way2 = b - 3 \/ (b >= gap + 5 /\ way2 = b - gap - 5)
                    /\ b <= gap + 6 => gapIn'
        PROVE  MeasureInv'
    <2>1. pos' = pos + 1 /\ Backing' = edge /\ paper'.len = len /\ paper'.gap = gap
      BY <1>1 DEF Backing
    <2> HIDE DEF edge, len, gap
    <2> QED
      BY <1>7, <2>1 DEF MeasureInv
  <1>8. gapPos' = gapPos => way2 = way + 1
    BY <1>1
  <1> HIDE DEF edge, len, gap, a, b, way, way2
  <1>9. CASE BeginGap(m)
    <2>1. countGap' = 7 /\ ~gapIn /\ gapIn' /\ gapPos' = steps'
      BY <1>9 DEF BeginGap, GapBegins
    <2>2. gapPos' # 0 /\ way2 = 0
      BY <1>1, <2>1 DEF way2
    <2>3. (b = 3 \/ (b = gap + 5 /\ pos + 1 < edge)) /\ pos + 1 >= len
      BY <1>4, <2>1
    <2>4. MeasureInv'
      BY <1>1, <1>2, <1>3, <1>7, <2>1, <2>2, <2>3
    <2>5. gapPos # 0 => way + 1 \in {len, len - gap - 2}
      <3>1. CASE b = 3
        BY <1>1, <1>2, <1>3, <1>5, <1>6, <3>1
      <3>2. CASE b = gap + 5 /\ pos + 1 < edge
        <4>1. a = gap + 4 /\ pos < edge
          BY <1>1, <1>2, <1>3, <3>2
        <4> QED
          BY <1>1, <1>2, <1>5, <2>1, <4>1
      <3> QED
        BY <2>3, <3>1, <3>2
    <2>6. steps' - gapPos = way + 1
      BY <1>1 DEF way
    <2> QED
      BY <2>4, <2>5, <2>6 DEF len, gap
  <1>10. CASE EndGap(m)
    <2>1. countGap' = 1 /\ gapIn /\ ~gapIn' /\ gapPos' = gapPos
      BY <1>10 DEF EndGap, GapEnds
    <2>2. a >= 3 /\ gapPos # 0 /\ pos >= len
      BY <1>5, <2>1
    <2>3. pos + 1 < edge
      BY <1>1, <1>2, <1>3, <1>4, <1>5, <2>1, <2>2
    <2>4. a = gap + 6 /\ b = gap + 7
      BY <1>1, <1>2, <1>3, <1>4, <1>5, <2>1, <2>2, <2>3
    <2>5. MeasureInv'
      BY <1>1, <1>2, <1>5, <1>6, <1>7, <1>8, <2>1, <2>2, <2>3, <2>4
    <2> QED
      BY <2>1, <2>5 DEF GapBegins
  <1>11. CASE StayInGap(m)
    <2>1. countGap' # 1 /\ gapIn /\ gapIn' /\ gapPos' = gapPos
      BY <1>11 DEF StayInGap, GapEnds
    <2>2. a >= 3 /\ gapPos # 0 /\ pos >= len
      BY <1>5, <2>1
    <2>3. b = a + 1 /\ (pos + 1 < edge => b <= gap + 6)
      BY <1>1, <1>2, <1>3, <1>4, <1>5, <2>1, <2>2
    <2>4. MeasureInv'
      BY <1>1, <1>2, <1>3, <1>5, <1>6, <1>7, <1>8, <2>1, <2>2, <2>3
    <2> QED
      BY <2>1, <2>4 DEF GapBegins
  <1>12. CASE StayOnLabel(m)
    <2>1. countGap' # 7 /\ ~gapIn /\ ~gapIn' /\ gapPos' = gapPos
      BY <1>12 DEF StayOnLabel, GapBegins
    <2>2. ASSUME gapPos # 0, b < 3 PROVE way + 1 \in {b + len - 3, b + len - gap - 5}
      <3>1. CASE b = a + 1
        BY <1>2, <1>3, <1>5, <1>6, <2>2, <3>1
      <3>2. CASE b # a + 1
        <4>1. pos < edge /\ b = 0 /\ a = len - 1
          BY <1>1, <1>2, <1>3, <3>2
        <4> QED
          BY <1>2, <1>5, <1>6, <2>2, <4>1
      <3> QED
        BY <3>1, <3>2
    <2>3. ASSUME gapPos # 0, b >= 3, pos + 1 < edge
          PROVE  /\ way + 1 = b - 3 \/ (b >= gap + 5 /\ way + 1 = b - gap - 5)
                 /\ ~(b <= gap + 6)
      <3>1. b = a + 1 /\ pos < edge /\ pos >= len
        BY <1>1, <1>2, <1>3, <1>5, <2>3
      <3>2. a # 2
        BY <1>1, <1>2, <1>4, <2>1, <3>1
      <3>3. a >= 3 /\ ~(a <= gap + 6)
        BY <1>3, <1>5, <2>1, <2>3, <3>1, <3>2
      <3> QED
        BY <1>2, <1>3, <1>5, <1>6, <2>3, <3>1, <3>3
    <2>4. gapPos # 0 => pos + 1 >= len
      BY <1>1, <1>2, <1>5
    <2>5. MeasureInv'
      BY <1>7, <1>8, <2>1, <2>2, <2>3, <2>4
    <2> QED
      BY <2>1, <2>5 DEF GapBegins
  <1> QED
    BY <1>9, <1>10, <1>11, <1>12 DEF Step

\* The correction keeps the length, or shortens it when the head is over a gap.
LEMMA CompensationLen ==
  ASSUME NEW m \in Place
  PROVE  LET len == PageCompensationByGap(m).len
         IN  len = m.len \/ (m.len - 20 < len /\ len < m.len)
  <1> DEFINE r == m.remain
             p == m.page
             n == m.len
             Fine(len) == len = n \/ (n - 20 < len /\ len < n)
  <1>1. r \in Nat \ {0} /\ p \in Nat /\ n \in Nat
    BY DEF Place
  <1> HIDE DEF r, p, n
  <1>2. Fine(n)
    OBVIOUS
  <1>3. Fine(OverTheGap(r, p, n).len)
    <2>1. CASE n > r /\ r < 20
      <3>1. OverTheGap(r, p, n).len = n - r
        BY <2>1 DEF OverTheGap, Counted
      <3> QED
        BY <1>1, <2>1, <3>1
    <2>2. CASE ~(n > r /\ r < 20)
      BY <1>2, <2>2 DEF OverTheGap
    <2> QED
      BY <2>1, <2>2
  <1>4. Fine(ShortLabel(r, p, n).len)
    <2>1. CASE \E i \in 1..4 : Fits(i, r, n)
      <3> DEFINE i == CHOOSE k \in 1..4 : Fits(k, r, n)
                 a == Ahead - i * n
      <3>1. ShortLabel(r, p, n) =
              IF Ahead > i * n
              THEN [remain |-> IF r < 20 /\ r < a THEN r ELSE a, page |-> p, len |-> n]
              ELSE IF Near(-a, r) THEN OverTheGap(r, p, n)
              ELSE [remain |-> Dragged(r, n), page |-> p, len |-> n]
        BY <2>1 DEF ShortLabel
      <3> HIDE DEF i, a
      <3>2. ShortLabel(r, p, n) = OverTheGap(r, p, n) \/ ShortLabel(r, p, n).len = n
        BY <3>1
      <3> HIDE DEF Fine
      <3> QED
        BY <1>2, <1>3, <3>2
    <2>2. CASE ~ \E i \in 1..4 : Fits(i, r, n)
      <3>1. ShortLabel(r, p, n).len = n
        BY <2>2 DEF ShortLabel
      <3> QED
        BY <1>2, <3>1
    <2> QED
      BY <2>1, <2>2
  <1>5. LongLabel(r, p, n).len = n
    BY DEF LongLabel
  <1> HIDE DEF Fine
  <1>6. Fine(PageCompensationByGap(m).len)
    BY <1>2, <1>4, <1>5 DEF PageCompensationByGap, r, p, n
  <1> QED
    BY <1>6 DEF Fine, n

LEMMA LengthStep ==
  ASSUME Readable, Plain, IInv, FillInv', MeasureInv, NEW m \in Place, m.len = labelLen, Step(m)
  PROVE  MeasureInv' /\ NewLength
  <1>1. /\ MeasureInv'
        /\ GapBegins /\ gapPos # 0 => steps' - gapPos \in {paper.len, paper.len - paper.gap - 2}
    BY MeasureStep
  <1>2. CASE BeginGap(m)
    <2>1. GapBegins /\ labelLen' = IF gapPos # 0 THEN steps' - gapPos ELSE m.len
      BY <1>2 DEF BeginGap, Keep, Place
    <2> QED
      BY <1>1, <2>1 DEF NewLength
  <1>3. CASE EndGap(m)
    <2>1. labelLen' = PageCompensationByGap(m).len
      BY <1>3 DEF EndGap, Keep
    <2>2. labelLen' = labelLen \/ (labelLen - 20 < labelLen' /\ labelLen' < labelLen)
      BY <2>1, CompensationLen
    <2> QED
      BY <1>1, <2>2 DEF NewLength
  <1>4. CASE StayInGap(m) \/ StayOnLabel(m)
    <2>1. labelLen' = labelLen
      BY <1>4 DEF StayInGap, StayOnLabel, Keep
    <2> QED
      BY <1>1, <2>1 DEF NewLength
  <1> QED
    BY <1>2, <1>3, <1>4 DEF Step

LengthInv == FillInv /\ MeasureInv

LEMMA LengthInit == ASSUME Readable, Plain PROVE Init => LengthInv
  <1> SUFFICES ASSUME Init PROVE LengthInv
    OBVIOUS
  <1>1. paper \in Papers /\ pos = paper.start /\ countGap = 0 /\ ~gapIn /\ gapPos = 0
    BY DEF Init
  <1>2. pos \in Nat /\ pos < paper.len /\ pos < Backing /\ Backing \in Nat /\ paper.len \in Nat
    BY <1>1, PaperTyped
  <1>3. countGap = Register(0) /\ FillAt(0) /\ 0 \in 0..8
    BY <1>1, <1>2 DEF Register, FillAt
  <1>4. MeasureInv
    BY <1>1 DEF MeasureInv
  <1> QED
    BY <1>3, <1>4 DEF LengthInv, FillInv

\* A step that counts and one that does not: both keep the length.
LEMMA StepPlaces ==
  ASSUME IInv, StepCounts \/ StepBehind
  PROVE  \E m \in Place : m.len = labelLen /\ Step(m)
  <1>1. Uncounted \in Place /\ Uncounted.len = labelLen
    BY DEF Uncounted, Place, IInv, TypeOK
  <1>2. /\ Counted(remain, page, labelLen) \in Place
        /\ Counted(remain, page, labelLen).len = labelLen
    <2>1. remain \in Nat \ {0} /\ page \in Nat /\ labelLen \in Nat
      BY DEF IInv, TypeOK
    <2> QED
      BY <2>1, CountedTyped DEF Counted
  <1>3. CASE StepCounts
    <2> DEFINE m == IF lockPage THEN Uncounted ELSE Counted(remain, page, labelLen)
    <2>1. m \in Place /\ m.len = labelLen
      BY <1>1, <1>2
    <2>2. Step(m)
      BY <1>3 DEF StepCounts
    <2> HIDE DEF m
    <2> QED
      BY <2>1, <2>2
  <1>4. CASE StepBehind
    <2>1. Step(Uncounted)
      BY <1>4 DEF StepBehind
    <2> QED
      BY <1>1, <2>1
  <1> QED
    BY <1>3, <1>4

LEMMA LengthNext ==
  ASSUME Readable, Plain
  PROVE  IInv /\ LearnInv /\ LengthInv /\ [Next]_vars => LengthInv' /\ (NewLength \/ UNCHANGED vars)
  <1> SUFFICES ASSUME IInv, LearnInv, LengthInv, [Next]_vars
               PROVE  LengthInv' /\ (NewLength \/ UNCHANGED vars)
    OBVIOUS
  <1>1. IInv' /\ LearnInv'
    BY InvNext, LearnNext
  <1>2. ASSUME NEW m \in Place, m.len = labelLen, Step(m)
        PROVE  LengthInv' /\ NewLength
    <2>1. FillInv'
      <3>1. countGap' = Shifted /\ pos' = pos + 1 /\ paper' = paper
        BY <1>2 DEF Step
      <3> QED
        BY <1>1, <3>1, FillStep DEF LengthInv
    <2>2. MeasureInv' /\ NewLength
      BY <1>2, <2>1, LengthStep DEF LengthInv
    <2> QED
      BY <2>1, <2>2 DEF LengthInv
  <1>3. CASE StepCounts \/ StepBehind
    <2>1. PICK m \in Place : m.len = labelLen /\ Step(m)
      BY <1>3, StepPlaces
    <2> QED
      BY <1>2, <2>1
  <1>4. ASSUME UNCHANGED <<paper, pos, countGap, labelLen>>,
               (gapPos' = 0 /\ ~gapIn') \/ UNCHANGED <<gapIn, gapPos, steps>>
        PROVE  LengthInv' /\ NewLength
    <2>1. NewLength
      BY <1>4 DEF NewLength
    <2>2. Along' = Along /\ Backing' = Backing
      BY <1>4 DEF Along, Backing
    <2>3. FillInv'
      BY <1>4, <2>2 DEF LengthInv, FillInv, FillAt
    <2>4. MeasureInv'
      BY <1>4, <2>2 DEF LengthInv, MeasureInv
    <2> QED
      BY <2>1, <2>3, <2>4 DEF LengthInv
  <1>5. CASE StopAndContinue
    <2>1. UNCHANGED <<paper, pos, countGap, labelLen>> /\ gapPos' = 0 /\ ~gapIn'
      BY <1>5 DEF StopAndContinue
    <2> QED
      BY <1>4, <2>1
  <1>6. CASE UNCHANGED vars
    <2>1. UNCHANGED <<paper, pos, countGap, labelLen>> /\ UNCHANGED <<gapIn, gapPos, steps>>
      BY <1>6 DEF vars, gapVars
    <2> QED
      BY <1>4, <2>1
  <1> QED
    BY <1>3, <1>5, <1>6 DEF Next

\* For every length of labels and gaps, place of the spot, number of stops and of steps that
\* are not counted: GapCalculate measures a label from one gap's edge to the next (812), or
\* without the gap when a stop made it note the end of one, and nothing else.
THEOREM LengthMeasuredAlways == ASSUME Readable, Plain PROVE Spec => LengthMeasured
  <1>1. Init => IInv /\ LearnInv /\ LengthInv
    BY InvInit, LearnInit, LengthInit
  <1>2. IInv /\ LearnInv /\ LengthInv /\ [Next]_vars
          => (IInv /\ LearnInv /\ LengthInv)' /\ [NewLength]_vars
    BY InvNext, LearnNext, LengthNext
  <1> QED
    BY <1>1, <1>2, PTL DEF Spec, LengthMeasured
----------------------------------------------------------------------------
(* The end of the labels                                                   *)

\* The third step of the backing begins a gap, and each further one counts in it, unless the
\* run stops there.
EndInv ==
  /\ lockPage => suspend
  /\ pos >= Backing + 3 /\ ~past =>
       suspend \/ (gapIn /\ inGap = pos - Backing - 2 /\ steps - gapPos = inGap - 1 /\ inGap <= 270)

\* Where the backing is under the sensor: no gap before the third step, none ends behind it.
LEMMA OnBacking ==
  ASSUME Readable, Plain, IInv, FillInv', MeasureInv, pos' = pos + 1, paper' = paper,
         pos' >= Backing + 3
  PROVE  /\ pos' = Backing + 3 => countGap' = 7 /\ ~gapIn
         /\ pos' # Backing + 3 => countGap' # 1
  <1> DEFINE edge == Backing
  <1>1. paper \in Papers /\ pos \in Nat /\ edge \in Nat /\ paper.len \in Nat /\ paper.len <= edge
    BY PaperTyped DEF IInv, TypeOK
  <1>2. Along' = pos + 1 - edge /\ Along = pos - edge
    <2>1. Backing' = edge
      BY DEF Backing
    <2>2. pos + 1 >= edge + 3
      OBVIOUS
    <2>3. Along' = IF pos' >= Backing' THEN pos' - Backing' ELSE pos' % paper'.len
      BY DEF Along
    <2>4. Along = IF pos >= edge THEN pos - edge ELSE pos % paper.len
      BY DEF Along
    <2> HIDE DEF edge
    <2> QED
      BY <1>1, <2>1, <2>2, <2>3, <2>4
  <1>3. /\ Along' = 3 /\ pos + 1 >= paper.len => countGap' = 7
        /\ countGap' = 1 /\ pos + 1 >= Backing => Along' = 1
    BY EdgeShown
  <1>4. gapIn => Along >= 3
    BY DEF MeasureInv
  <1> HIDE DEF edge
  <1>5. pos + 1 >= edge + 3
    BY DEF edge
  <1>6. pos + 1 = edge + 3 => countGap' = 7 /\ ~gapIn
    BY <1>1, <1>2, <1>3, <1>4
  <1>7. pos + 1 # edge + 3 => countGap' # 1
    BY <1>1, <1>2, <1>3, <1>5 DEF edge
  <1> QED
    BY <1>6, <1>7 DEF edge

LEMMA EndStep ==
  ASSUME Readable, Plain, IInv, FillInv', MeasureInv, EndInv, NEW m, Step(m)
  PROVE  EndInv'
  <1> DEFINE edge == Backing
             Inside(i) == gapIn' /\ inGap' = i /\ steps' - gapPos' = i - 1
  <1>1. /\ pos' = pos + 1 /\ steps' = steps + 1 /\ paper' = paper /\ past' = past /\ ~suspend
        /\ pos \in Nat /\ steps \in Nat /\ gapPos \in Nat /\ edge \in Nat /\ Backing' = edge
    BY PaperTyped DEF Step, IInv, TypeOK, Backing
  <1>2. ~lockPage
    BY <1>1, Zenon DEF EndInv
  <1>3. lockPage' => suspend'
    <2>1. BeginGap(m) \/ EndGap(m) => ~lockPage'
      BY DEF BeginGap, EndGap
    <2>2. StayInGap(m) => (lockPage' => suspend')
      <3> DEFINE lost == steps' - gapPos > 80 /\ inGap' > 270 /\ ~lockPage
      <3>1. StayInGap(m) => lockPage' = (lockPage \/ lost) /\ suspend' = (suspend \/ lost)
        BY DEF StayInGap
      <3> HIDE DEF lost
      <3> QED
        BY <1>2, <3>1, Zenon
    <2>3. StayOnLabel(m) => ~lockPage'
      BY <1>2 DEF StayOnLabel
    <2> QED
      BY <2>1, <2>2, <2>3 DEF Step
  <1>4. ASSUME pos' >= Backing + 3, ~past
        PROVE  suspend' \/ (Inside(pos + 1 - edge - 2) /\ pos + 1 - edge - 2 <= 270)
    <2>1. /\ pos' = edge + 3 => countGap' = 7 /\ ~gapIn
          /\ pos' # edge + 3 => countGap' # 1
      BY <1>1, <1>4, OnBacking
    <2>2. CASE pos' = edge + 3
      <3>1. GapBegins /\ ~gapIn
        BY <2>1, <2>2 DEF GapBegins
      <3>2. BeginGap(m)
        BY <3>1 DEF Step, EndGap, GapEnds, StayInGap, StayOnLabel
      <3> HIDE DEF edge
      <3> QED
        BY <1>1, <2>2, <3>2 DEF BeginGap
    <2>3. CASE pos' # edge + 3
      <3>1. pos >= edge + 3
        BY <1>1, <1>4, <2>3
      <3>2. gapIn /\ inGap = pos - edge - 2 /\ steps - gapPos = inGap - 1 /\ inGap <= 270
        BY <1>1, <1>4, <3>1 DEF EndInv
      <3>3. StayInGap(m)
        BY <2>1, <2>3, <3>2 DEF Step, BeginGap, GapBegins, EndGap, GapEnds, StayOnLabel
      <3> DEFINE lost == steps' - gapPos > 80 /\ inGap' > 270 /\ ~lockPage
      <3>4. gapIn' /\ inGap' = inGap + 1 /\ gapPos' = gapPos /\ suspend' = (suspend \/ lost)
        BY <3>2, <3>3 DEF StayInGap
      <3> HIDE DEF edge
      <3>5. Inside(pos + 1 - edge - 2)
        BY <1>1, <3>2, <3>4
      <3>6. pos + 1 - edge - 2 > 270 => lost
        BY <1>1, <1>2, <3>2, <3>4
      <3> HIDE DEF lost, Inside
      <3>7. lost => suspend'
        BY <3>4, Zenon
      <3> QED
        BY <1>1, <3>5, <3>6, <3>7
    <2> QED
      BY <2>2, <2>3
  <1> HIDE DEF edge
  <1>5. pos' >= Backing' + 3 /\ ~past' =>
          suspend' \/ (Inside(pos' - Backing' - 2) /\ pos' - Backing' - 2 <= 270)
    BY <1>1, <1>4 DEF edge
  <1>6. Inside(pos' - Backing' - 2) /\ pos' - Backing' - 2 <= 270 =>
          /\ gapIn' /\ inGap' = pos' - Backing' - 2
          /\ steps' - gapPos' = inGap' - 1 /\ inGap' <= 270
    OBVIOUS
  <1> HIDE DEF Inside
  <1> QED
    BY <1>3, <1>5, <1>6, Zenon DEF EndInv

LEMMA EndInit == ASSUME Readable PROVE Init => EndInv
  <1> SUFFICES ASSUME Init PROVE EndInv
    OBVIOUS
  <1>1. paper \in Papers /\ pos = paper.start /\ ~lockPage
    BY DEF Init
  <1>2. pos \in Nat /\ Backing \in Nat /\ pos <= Backing
    BY <1>1, PaperTyped
  <1> QED
    BY <1>1, <1>2 DEF EndInv

LEMMA EndNext ==
  ASSUME Readable, Plain
  PROVE  IInv /\ LearnInv /\ LengthInv /\ EndInv /\ [Next]_vars => EndInv'
  <1> SUFFICES ASSUME IInv, LearnInv, LengthInv, EndInv, [Next]_vars PROVE EndInv'
    OBVIOUS
  <1>1. FillInv' /\ MeasureInv
    BY LengthNext DEF LengthInv
  <1>2. CASE StepCounts
    BY <1>1, <1>2, EndStep DEF StepCounts
  <1>3. CASE StepBehind
    BY <1>1, <1>3, EndStep DEF StepBehind
  <1>4. CASE StopAndContinue
    <2>1. ~lockPage' /\ past' = (past \/ pos > Backing + 2) /\ UNCHANGED <<paper, pos>>
      BY <1>4 DEF StopAndContinue
    <2>2. pos \in Nat /\ Backing \in Nat /\ Backing' = Backing
      BY <2>1, PaperTyped DEF IInv, TypeOK, Backing
    <2>3. pos' >= Backing' + 3 => pos > Backing + 2
      BY <2>1, <2>2
    <2>4. pos' >= Backing' + 3 => past'
      BY <2>1, <2>3, Zenon
    <2> QED
      BY <2>1, <2>4, Zenon DEF EndInv
  <1>5. CASE UNCHANGED vars
    <2>1. UNCHANGED <<paper, pos, gapIn, inGap, lockPage, suspend, steps, gapPos, past>>
      BY <1>5 DEF vars, gapVars, history
    <2> QED
      BY <2>1 DEF EndInv, Backing
  <1> QED
    BY <1>2, <1>3, <1>4, <1>5 DEF Next

\* The run is suspended 270 steps behind the third one of the bare backing, wherever labels,
\* stops and threshold left the counters (HandleLastAuthenticPageGap, 698), as long as it
\* does not stop over the backing.
THEOREM EndOfLabelsSeenAlways == ASSUME Readable, Plain PROVE Spec => []EndOfLabelsSeen
  <1>1. Init => IInv /\ LearnInv /\ LengthInv /\ EndInv
    BY InvInit, LearnInit, LengthInit, EndInit
  <1>2. IInv /\ LearnInv /\ LengthInv /\ EndInv /\ [Next]_vars
          => (IInv /\ LearnInv /\ LengthInv /\ EndInv)'
    BY InvNext, LearnNext, LengthNext, EndNext
  <1>3. ASSUME IInv, EndInv PROVE EndOfLabelsSeen
    <2>1. pos \in Nat /\ Backing \in Nat
      BY <1>3, PaperTyped DEF IInv, TypeOK
    <2> DEFINE edge == Backing
    <2>2. pos >= edge + 3 /\ ~past => suspend \/ (inGap = pos - edge - 2 /\ inGap <= 270)
      BY <1>3 DEF EndInv
    <2> HIDE DEF edge
    <2>3. pos >= edge + 273 /\ ~past => suspend
      BY <2>1, <2>2 DEF edge
    <2> QED
      BY <2>3 DEF edge, EndOfLabelsSeen
  <1> QED
    BY <1>1, <1>2, <1>3, PTL DEF Spec

----------------------------------------------------------------------------
(* The measured length                                                     *)

\* Until the run stops for the first time each edge is the third sample of a gap, so the
\* length is that of a label, shortened at most once before it is measured again.
EdgeInv ==
  stops = 0 =>
    /\ gapPos = 0 => labelLen = 0 /\ (pos >= paper.len => Along < 3)
    /\ gapPos # 0 /\ Along < 3 => steps - gapPos = Along + paper.len - 3
    /\ gapPos # 0 /\ Along >= 3 /\ pos < Backing => steps - gapPos = Along - 3
    /\ gapIn => labelLen \in {0, paper.len}
    /\ labelLen # 0 => paper.len - 20 < labelLen /\ labelLen <= paper.len

\* A label that is longer than the way to the head, even without its gap.
Long == Distance + paper.gap + 2 <= paper.len

\* The head is never over a gap while its end is at the sensor: nothing is shortened.
LongInv ==
  Long => /\ labelLen \in {0, paper.len, paper.len - paper.gap - 2}
          /\ stops = 0 => labelLen \in {0, paper.len}

\* While no stop has spoiled a measurement, or whatever the stops on a long label.
Unspoiled == (stops = 0 /\ paper.gap >= 17) \/ Long

\* The first edge is seen three samples behind the first label.
LEMMA FirstEdge ==
  ASSUME Readable, Plain, IInv, FillInv', EdgeInv, NEW m, Step(m), stops = 0, gapPos = 0
  PROVE  /\ countGap' = 7 => Along' = 3
         /\ countGap' # 7 => (pos' >= paper'.len => Along' < 3)
  <1> DEFINE len == paper.len
             gap == paper.gap
             a == Along
             b == Along'
  <1>1. /\ pos' = pos + 1 /\ paper' = paper /\ pos \in Nat /\ paper \in Papers
        /\ pos >= len => a < 3
    BY DEF Step, IInv, TypeOK, EdgeInv
  <1>2. len \in Nat /\ gap \in Nat /\ Backing \in Nat /\ 16 <= gap /\ len <= Backing /\ gap + 8 <= len
    BY <1>1, PaperTyped, PlainPaper
  <1>3. /\ countGap' = 7 => b = 3 \/ b = gap + 5
        /\ countGap' = 7 => pos + 1 >= len
        /\ b = 3 /\ pos + 1 >= len => countGap' = 7
    BY <1>1, EdgeShown
  <1>4. /\ a \in Nat /\ b \in Nat
        /\ pos >= Backing => b = a + 1
        /\ pos < Backing => b = IF a + 1 = len THEN 0 ELSE a + 1
        /\ pos < len => a = pos
    BY <1>1, AlongNext
  <1>5. pos' >= paper'.len <=> pos + 1 >= len
    BY <1>1
  <1> HIDE DEF len, gap, a, b
  <1>6. pos + 1 >= len => b <= 3
    BY <1>1, <1>2, <1>4
  <1> QED
    BY <1>2, <1>3, <1>4, <1>5, <1>6 DEF b

\* Without a stop an edge is the third sample of its gap, and the way between two is a label.
LEMMA WholeLabel ==
  ASSUME Readable, Plain, IInv, FillInv', MeasureInv, EdgeInv, NEW m, Step(m), stops = 0
  PROVE  /\ gapPos' # 0 /\ Along' < 3 => steps' - gapPos' = Along' + paper'.len - 3
         /\ gapPos' # 0 /\ Along' >= 3 /\ pos' < Backing' => steps' - gapPos' = Along' - 3
         /\ BeginGap(m) /\ gapPos # 0 => steps' - gapPos = paper.len
  <1> DEFINE edge == Backing
             len == paper.len
             gap == paper.gap
             a == Along
             b == Along'
             way == steps - gapPos
             way2 == steps' - gapPos'
             Whole == /\ gapPos' # 0 /\ b < 3 => way2 = b + len - 3
                      /\ gapPos' # 0 /\ b >= 3 /\ pos + 1 < edge => way2 = b - 3
  <1>1. /\ pos' = pos + 1 /\ steps' = steps + 1 /\ paper' = paper
        /\ pos \in Nat /\ steps \in Nat /\ gapPos \in Nat /\ gapPos <= steps /\ paper \in Papers
    BY DEF Step, IInv, TypeOK
  <1>2. len \in Nat /\ gap \in Nat /\ edge \in Nat /\ 16 <= gap /\ len <= edge /\ gap + 8 <= len
    BY <1>1, PaperTyped, PlainPaper
  <1>3. /\ a \in Nat /\ b \in Nat
        /\ pos >= edge => b = a + 1
        /\ pos < edge => b = IF a + 1 = len THEN 0 ELSE a + 1
        /\ pos < edge /\ pos + 1 >= edge => a + 1 = len
    BY <1>1, AlongNext
  <1>4. /\ countGap' = 7 => b = 3 \/ (b = gap + 5 /\ pos + 1 < edge)
        /\ b = 3 /\ pos + 1 >= len => countGap' = 7
    BY <1>1, EdgeShown
  <1>5. /\ gapPos # 0 => pos >= len
        /\ gapPos # 0 /\ a >= 3 /\ pos < edge => (a <= gap + 6 => gapIn)
    BY DEF MeasureInv
  <1>6. /\ gapPos # 0 /\ a < 3 => way = a + len - 3
        /\ gapPos # 0 /\ a >= 3 /\ pos < edge => way = a - 3
    BY DEF EdgeInv
  <1>7. way \in Int /\ (gapPos' = gapPos => way2 = way + 1)
    BY <1>1
  <1>8. pos' < Backing' <=> pos + 1 < edge
    BY <1>1 DEF Backing
  <1>9. gapPos = 0 /\ countGap' = 7 => b = 3
    BY FirstEdge
  <1> HIDE DEF edge, len, gap, a, b, way, way2
  <1>10. CASE BeginGap(m)
    <2>1. countGap' = 7 /\ ~gapIn /\ gapPos' = steps'
      BY <1>10 DEF BeginGap, GapBegins
    <2>2. way2 = 0
      BY <1>1, <2>1 DEF way2
    <2>3. b = 3
      BY <1>1, <1>2, <1>3, <1>4, <1>5, <1>9, <2>1
    <2>4. gapPos # 0 => way + 1 = len
      BY <1>1, <1>2, <1>3, <1>5, <1>6, <2>1, <2>3
    <2>5. steps' - gapPos = way + 1
      BY <1>1 DEF way
    <2>6. Whole
      BY <2>2, <2>3
    <2> QED
      BY <1>1, <1>8, <2>4, <2>5, <2>6 DEF len, b, way2
  <1>11. CASE EndGap(m) \/ StayInGap(m) \/ StayOnLabel(m)
    <2>1. gapPos' = gapPos
      BY <1>11 DEF EndGap, StayInGap, StayOnLabel
    <2>2. gapPos # 0 /\ b = 3 => gapIn
      <3>1. gapIn \/ countGap' # 7
        BY <1>11 DEF EndGap, StayInGap, StayOnLabel, GapEnds, GapBegins
      <3>2. gapPos # 0 => pos + 1 >= len
        BY <1>1, <1>2, <1>5
      <3> QED
        BY <1>4, <3>1, <3>2
    <2>3. gapIn => a >= 3
      BY DEF MeasureInv, a
    <2>4. ASSUME gapPos # 0, b < 3 PROVE way + 1 = b + len - 3
      BY <1>1, <1>2, <1>3, <1>5, <1>6, <1>7, <2>4
    <2>5. ASSUME gapPos # 0, b >= 3, pos + 1 < edge PROVE way + 1 = b - 3
      BY <1>1, <1>2, <1>3, <1>5, <1>6, <1>7, <2>2, <2>3, <2>5
    <2>6. Whole
      BY <1>7, <2>1, <2>4, <2>5
    <2>7. ~BeginGap(m)
      <3>1. ~GapBegins
        BY <1>11 DEF EndGap, StayInGap, StayOnLabel, GapBegins, GapEnds
      <3> QED
        BY <3>1 DEF BeginGap
    <2> QED
      BY <1>1, <1>8, <2>6, <2>7 DEF len, b, way2
  <1> QED
    BY <1>10, <1>11 DEF Step

\* EdgeInv through a step: the length is noted at an edge, and shortened at the gap's end.
LEMMA EdgeStep ==
  ASSUME Readable, Plain, IInv, IInv', FillInv', MeasureInv, EdgeInv,
         NEW m \in Place, m.len = labelLen, Step(m)
  PROVE  EdgeInv'
  <1> SUFFICES ASSUME stops = 0 PROVE EdgeInv'
    BY DEF EdgeInv, Step
  <1>1. /\ gapPos' # 0 /\ Along' < 3 => steps' - gapPos' = Along' + paper'.len - 3
        /\ gapPos' # 0 /\ Along' >= 3 /\ pos' < Backing' => steps' - gapPos' = Along' - 3
        /\ BeginGap(m) /\ gapPos # 0 => steps' - gapPos = paper.len
    BY WholeLabel
  <1>2. gapPos = 0 /\ countGap' # 7 => (pos' >= paper'.len => Along' < 3)
    BY FirstEdge
  <1>3. /\ gapPos = 0 => labelLen = 0 /\ ~gapIn
        /\ gapIn => labelLen \in {0, paper.len}
        /\ labelLen # 0 => paper.len - 20 < labelLen /\ labelLen <= paper.len
    BY DEF EdgeInv, MeasureInv
  <1>4. /\ paper' = paper /\ paper.len \in Nat \ {0} /\ labelLen \in Nat /\ labelLen' \in Nat
        /\ steps' # 0
    <2>1. paper \in Papers /\ labelLen \in Nat /\ steps \in Nat
      BY DEF IInv, TypeOK
    <2>2. labelLen' \in Nat
      BY DEF IInv, TypeOK
    <2>3. paper' = paper /\ steps' = steps + 1
      BY DEF Step
    <2> QED
      BY <2>1, <2>2, <2>3, PaperTyped
  <1>5. ASSUME gapPos' = 0 => labelLen' = 0 /\ (pos' >= paper'.len => Along' < 3),
               gapIn' => labelLen' \in {0, paper.len},
               labelLen' # 0 => paper.len - 20 < labelLen' /\ labelLen' <= paper.len
        PROVE  EdgeInv'
    <2>1. /\ gapIn' => labelLen' \in {0, paper'.len}
          /\ labelLen' # 0 => paper'.len - 20 < labelLen' /\ labelLen' <= paper'.len
      BY <1>4, <1>5
    <2> QED
      BY <1>1, <1>5, <2>1 DEF EdgeInv
  <1>6. CASE BeginGap(m)
    <2>1. gapPos' # 0 /\ labelLen' = IF gapPos # 0 THEN steps' - gapPos ELSE labelLen
      BY <1>4, <1>6 DEF BeginGap, Keep, Place
    <2>2. labelLen' \in {0, paper.len}
      BY <1>1, <1>3, <1>6, <2>1
    <2> QED
      BY <1>4, <1>5, <2>1, <2>2
  <1>7. CASE EndGap(m)
    <2>1. gapIn /\ ~gapIn' /\ gapPos' = gapPos /\ labelLen' = PageCompensationByGap(m).len
      BY <1>7 DEF EndGap, GapEnds, Keep
    <2>2. labelLen' = labelLen \/ (labelLen - 20 < labelLen' /\ labelLen' < labelLen)
      BY <2>1, CompensationLen
    <2>3. labelLen' # 0 => paper.len - 20 < labelLen' /\ labelLen' <= paper.len
      BY <1>3, <1>4, <2>1, <2>2
    <2> QED
      BY <1>3, <1>5, <2>1, <2>3
  <1>8. CASE StayInGap(m) \/ StayOnLabel(m)
    <2>1. gapPos' = gapPos /\ gapIn' = gapIn /\ labelLen' = labelLen
      BY <1>8 DEF StayInGap, StayOnLabel, Keep
    <2>2. gapPos = 0 => countGap' # 7
      BY <1>3, <1>8 DEF StayInGap, StayOnLabel, GapBegins
    <2> QED
      BY <1>2, <1>3, <1>4, <1>5, <2>1, <2>2
  <1> QED
    BY <1>6, <1>7, <1>8 DEF Step

\* Its page is corrected as that of a long label, which keeps the length.
LEMMA LongKept ==
  ASSUME Long, paper.len \in Nat, paper.gap \in Nat, NEW m,
         m.len \in {0, paper.len, paper.len - paper.gap - 2}
  PROVE  /\ PageCompensationByGap(m) = LongLabel(m.remain, m.page, m.len)
         /\ PageCompensationByGap(m).len = m.len
  <1>1. ~(m.len # 0 /\ m.len < Distance)
    BY GapSensorAssumption DEF Long
  <1>2. PageCompensationByGap(m) = LongLabel(m.remain, m.page, m.len)
    BY <1>1 DEF PageCompensationByGap
  <1> QED
    BY <1>2 DEF LongLabel

\* A long label's length is never corrected.
LEMMA LongStep ==
  ASSUME Readable, Plain, IInv, FillInv', MeasureInv, EdgeInv, LongInv,
         NEW m \in Place, m.len = labelLen, Step(m)
  PROVE  LongInv'
  <1>1. /\ paper' = paper /\ stops' = stops
        /\ paper.len \in Nat /\ paper.gap \in Nat /\ labelLen \in Nat
    BY PaperTyped DEF IInv, TypeOK, Step
  <1> SUFFICES ASSUME Long
               PROVE  /\ labelLen' \in {0, paper.len, paper.len - paper.gap - 2}
                      /\ stops = 0 => labelLen' \in {0, paper.len}
    BY <1>1 DEF LongInv, Long
  <1>2. /\ labelLen \in {0, paper.len, paper.len - paper.gap - 2}
        /\ stops = 0 => labelLen \in {0, paper.len}
    BY DEF LongInv
  <1>3. CASE BeginGap(m)
    <2>1. GapBegins /\ labelLen' = IF gapPos # 0 THEN steps' - gapPos ELSE labelLen
      BY <1>3 DEF BeginGap, Keep, Place
    <2>2. gapPos # 0 => steps' - gapPos \in {paper.len, paper.len - paper.gap - 2}
      BY <2>1, MeasureStep
    <2>3. stops = 0 /\ gapPos # 0 => steps' - gapPos = paper.len
      BY <1>3, WholeLabel
    <2> QED
      BY <1>2, <2>1, <2>2, <2>3
  <1>4. CASE EndGap(m)
    <2>1. PageCompensationByGap(m).len = m.len
      BY <1>1, <1>2, LongKept
    <2> QED
      BY <1>2, <1>4, <2>1 DEF EndGap, Keep
  <1>5. CASE StayInGap(m) \/ StayOnLabel(m)
    BY <1>2, <1>5 DEF StayInGap, StayOnLabel, Keep
  <1> QED
    BY <1>3, <1>4, <1>5 DEF Step

MeasuredInv == EdgeInv /\ LongInv

LEMMA MeasuredInit == ASSUME Readable PROVE Init => MeasuredInv
  <1> SUFFICES ASSUME Init PROVE MeasuredInv
    OBVIOUS
  <1>1. /\ paper \in Papers /\ pos = paper.start /\ labelLen = 0 /\ gapPos = 0 /\ ~gapIn
    BY DEF Init
  <1>2. pos < paper.len /\ pos \in Nat /\ paper.len \in Nat
    BY <1>1, PaperTyped
  <1>3. EdgeInv
    BY <1>1, <1>2 DEF EdgeInv
  <1>4. LongInv
    BY <1>1 DEF LongInv
  <1> QED
    BY <1>3, <1>4 DEF MeasuredInv

LEMMA MeasuredNext ==
  ASSUME Readable, Plain
  PROVE  IInv /\ LearnInv /\ LengthInv /\ MeasuredInv /\ [Next]_vars => MeasuredInv'
  <1> SUFFICES ASSUME IInv, LearnInv, LengthInv, MeasuredInv, [Next]_vars
               PROVE  MeasuredInv'
    OBVIOUS
  <1>1. IInv' /\ LengthInv'
    BY InvNext, LengthNext
  <1>2. ASSUME NEW m \in Place, m.len = labelLen, Step(m)
        PROVE  MeasuredInv'
    <2>1. EdgeInv'
      BY <1>1, <1>2, EdgeStep DEF LengthInv, MeasuredInv
    <2>2. LongInv'
      BY <1>1, <1>2, LongStep DEF LengthInv, MeasuredInv
    <2> QED
      BY <2>1, <2>2 DEF MeasuredInv
  <1>3. CASE StepCounts \/ StepBehind
    <2>1. PICK m \in Place : m.len = labelLen /\ Step(m)
      BY <1>3, StepPlaces
    <2> QED
      BY <1>2, <2>1
  <1>4. CASE StopAndContinue
    <2>1. stops \in Nat /\ stops' = stops + 1 /\ paper' = paper /\ labelLen' = labelLen
      BY <1>4 DEF StopAndContinue, IInv, TypeOK
    <2>2. EdgeInv'
      BY <2>1 DEF EdgeInv
    <2>3. LongInv'
      BY <2>1 DEF MeasuredInv, LongInv, Long
    <2> QED
      BY <2>2, <2>3 DEF MeasuredInv
  <1>5. CASE UNCHANGED vars
    <2>1. UNCHANGED <<paper, pos, stops, gapPos, gapIn, steps, labelLen>>
      BY <1>5 DEF vars, gapVars
    <2>2. Along' = Along /\ Backing' = Backing /\ Long' = Long
      BY <2>1 DEF Along, Backing, Long
    <2> QED
      BY <2>1, <2>2 DEF MeasuredInv, EdgeInv, LongInv
  <1> QED
    BY <1>3, <1>4, <1>5 DEF Next

\* Until a stop spoils a measurement the length is that of a label (812), less than 20 steps
\* short of it when the head was over a gap (638); on labels longer than the way from the
\* sensor to the head it is a label's, or without its gap, however often the run stops.
THEOREM LabelMeasuredUnspoiled ==
  ASSUME Readable, Plain
  PROVE  Spec => [](Unspoiled => LabelMeasured)
  <1>1. Init => IInv /\ LearnInv /\ LengthInv /\ MeasuredInv
    BY InvInit, LearnInit, LengthInit, MeasuredInit
  <1>2. IInv /\ LearnInv /\ LengthInv /\ MeasuredInv /\ [Next]_vars
          => (IInv /\ LearnInv /\ LengthInv /\ MeasuredInv)'
    BY InvNext, LearnNext, LengthNext, MeasuredNext
  <1>3. IInv /\ MeasuredInv => (Unspoiled => LabelMeasured)
    <2> SUFFICES ASSUME IInv, MeasuredInv, Unspoiled, labelLen # 0
                 PROVE  labelLen \in paper.len - paper.gap - 2 .. paper.len
      BY DEF LabelMeasured
    <2>1. paper.len \in Nat /\ paper.gap \in Nat /\ labelLen \in Nat
      BY PaperTyped DEF IInv, TypeOK
    <2>2. CASE stops = 0 /\ paper.gap >= 17
      BY <2>1, <2>2 DEF MeasuredInv, EdgeInv
    <2>3. CASE Long
      BY <2>1, <2>3 DEF MeasuredInv, LongInv
    <2> QED
      BY <2>2, <2>3 DEF Unspoiled
  <1> QED
    BY <1>1, <1>2, <1>3, PTL DEF Spec
=============================================================================
