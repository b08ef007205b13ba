---------------------------- MODULE GapTurnsProofs ----------------------------
(***************************************************************************)
(* The pages stay on labels that are longer than the way from the sensor   *)
(* to the head: while the run does not stop and labels come, a page turns  *)
(* once for each label, where the head passes the end of its gap.  From    *)
(* GapSensorProofs comes where a gap begins and ends in the sensor, and    *)
(* which length has been measured by then.                                 *)
(***************************************************************************)
EXTENDS GapSensorProofs

\* The head has passed a gap's end before the next one reaches the sensor, uncounted steps
\* are over by then, and the length that stands in for an unknown one is not too short.
Roomy ==
  /\ Distance + paper.gap + 8 <= paper.len
  /\ Distance + paper.late <= paper.len
  /\ 2 * paper.len <= MaxHeight

Undisturbed == stops = 0 /\ pos <= Backing /\ Roomy

\* A locked page is a suspended run, which makes no step.
LockInv == lockPage => suspend

\* How far along the label the sensor is when it sees the gap's end.
AtEnd == paper.gap + 7

\* The first gap has not passed the sensor.  The last page turn was at t, the sensor is at p,
\* a steps along its label, and r steps remain.
First(t, p, r, a, len, c) ==
  /\ t = 0 /\ p < len + c
  /\ p >= len => a = p - len
  /\ r + p >= MaxHeight

\* From the gap's end in the sensor to its end under the head the count is exact; behind it
\* the count lasts until the next gap's end, which corrects it.
Running(t, p, r, a, len, c) ==
  /\ p >= len + c
  /\ c <= a /\ a < c + Distance => r = c + Distance - a
  /\ a < c => t # 0 /\ r >= Distance + c - a
  /\ c + Distance <= a => t # 0 /\ r >= Distance + c + len - a
  /\ t = 0 => p = len + a
  /\ t # 0 /\ a < c + Distance => p - t = a + len - c - Distance + 1
  /\ t # 0 /\ c + Distance <= a => p - t = a - c - Distance + 1

HeadInv ==
  /\ seen = 0 => First(turn, pos, remain, Along, paper.len, AtEnd)
  /\ seen # 0 => Running(turn, pos, remain, Along, paper.len, AtEnd)

----------------------------------------------------------------------------
(* The end of a gap                                                        *)

LEMMA LockStep == IInv /\ LockInv /\ [Next]_vars => LockInv'
  <1> SUFFICES ASSUME IInv, LockInv, [Next]_vars PROVE LockInv'
    OBVIOUS
  <1>1. ASSUME NEW m, Step(m) PROVE LockInv'
    <2>1. CASE BeginGap(m)
      BY <2>1 DEF BeginGap, LockInv
    <2>2. CASE EndGap(m)
      BY <2>2 DEF EndGap, LockInv
    <2>3. CASE StayInGap(m)
      BY <2>3 DEF StayInGap, LockInv
    <2>4. CASE StayOnLabel(m)
      BY <2>4 DEF StayOnLabel, LockInv
    <2> QED
      BY <1>1, <2>1, <2>2, <2>3, <2>4 DEF Step
  <1>2. CASE StepCounts \/ StepBehind
    <2>1. PICK m \in Place : m.len = labelLen /\ Step(m)
      BY <1>2, StepPlaces
    <2> QED
      BY <1>1, <2>1
  <1>3. CASE StopAndContinue
    BY <1>3 DEF StopAndContinue, LockInv
  <1>4. CASE UNCHANGED vars
    BY <1>4 DEF vars, gapVars, LockInv
  <1> QED
    BY <1>2, <1>3, <1>4 DEF Next

\* While labels come the end of each gap is seen, seven steps behind it.
LEMMA EndSeen ==
  ASSUME Readable, Plain, IInv, FillInv', MeasureInv, EdgeInv, NEW m, Step(m),
         stops = 0, pos + 1 <= Backing
  PROVE  EndGap(m) <=> pos + 1 >= paper.len /\ Along' = AtEnd
  <1> DEFINE edge == Backing
             len == paper.len
             gap == paper.gap
             a == Along
             b == Along'
  <1>1. /\ pos' = pos + 1 /\ paper' = paper /\ pos \in Nat /\ paper \in Papers
        /\ gapPos \in Nat
    BY DEF Step, IInv, TypeOK
  <1>2. len \in Nat /\ gap \in Nat /\ edge \in Nat /\ 16 <= gap /\ len <= edge /\ gap + 8 <= len
    BY <1>1, PaperTyped, PlainPaper
  <1>3. /\ a \in Nat /\ b \in Nat
        /\ b = IF a + 1 = len THEN 0 ELSE a + 1
        /\ pos + 1 >= edge => a + 1 = len
        /\ pos < len => a = pos
    <2>1. pos < edge
      BY <1>1, <1>2
    <2> QED
      BY <1>1, <2>1, AlongNext
  <1>4. /\ pos + 1 < edge /\ pos + 1 >= len /\ b = gap + 7 => countGap' = 1
        /\ countGap' = 1 /\ pos + 1 >= edge => b = 1
        /\ countGap' = 1 /\ pos + 1 < edge /\ pos + 1 >= len /\ b < gap + 8 => b \in {1, gap + 7}
    BY <1>1, EdgeShown
  <1>5. /\ gapIn => gapPos # 0 /\ a >= 3 /\ (pos < edge => a <= gap + 6)
        /\ gapPos # 0 => pos >= len
        /\ gapPos # 0 /\ a >= 3 /\ pos < edge => (a <= gap + 6 => gapIn)
    BY DEF MeasureInv
  <1>6. gapPos = 0 => (pos >= len => a < 3)
    BY DEF EdgeInv
  <1>7. pos + 1 <= edge
    OBVIOUS
  <1> HIDE DEF edge, len, gap, a, b
  <1>8. ASSUME EndGap(m) PROVE pos + 1 >= len /\ b = gap + 7
    <2>1. countGap' = 1 /\ gapIn
      BY <1>8 DEF EndGap, GapEnds
    <2> QED
      BY <1>1, <1>2, <1>3, <1>4, <1>5, <1>7, <2>1
  <1>9. ASSUME pos + 1 >= len, b = gap + 7 PROVE EndGap(m)
    <2>1. a = gap + 6 /\ pos >= len /\ pos + 1 < edge
      BY <1>1, <1>2, <1>3, <1>7, <1>9
    <2>2. gapIn /\ countGap' = 1
      BY <1>1, <1>2, <1>4, <1>5, <1>6, <1>9, <2>1
    <2>3. ~BeginGap(m) /\ ~StayInGap(m) /\ ~StayOnLabel(m)
      <3>1. ~GapBegins /\ GapEnds
        BY <2>2 DEF GapBegins, GapEnds
      <3>2. ~BeginGap(m)
        BY <3>1 DEF BeginGap
      <3> QED
        BY <2>2, <3>1, <3>2 DEF StayInGap, StayOnLabel
    <2> QED
      BY <2>3 DEF Step
  <1> QED
    BY <1>8, <1>9 DEF len, gap, b, AtEnd

\* What a step does to the count of a long label, and to the counters behind it.
LEMMA CountStep ==
  ASSUME Readable, Plain, IInv, LongInv, Undisturbed, NEW m \in Place, m.len = labelLen, Step(m)
  PROVE  /\ EndGap(m) => /\ seen' = seen + 1 /\ page' = m.page
                         /\ m.remain >= Distance => remain' = Distance
         /\ ~EndGap(m) => seen' = seen /\ page' = m.page /\ remain' = m.remain
  <1>1. paper \in Papers /\ stops = 0
    BY DEF IInv, TypeOK, Undisturbed
  <1>2. paper.len \in Nat /\ paper.gap \in Nat
    BY <1>1, PaperTyped
  <1>3. Long
    BY <1>2, GapSensorAssumption DEF Undisturbed, Roomy, Long
  <1>4. CASE EndGap(m)
    <2>1. m.len \in {0, paper.len, paper.len - paper.gap - 2}
      BY <1>3 DEF LongInv
    <2>2. PageCompensationByGap(m) = LongLabel(m.remain, m.page, m.len)
      BY <1>2, <1>3, <2>1, LongKept
    <2>3. seen' = seen + 1 /\ Keep(LongLabel(m.remain, m.page, m.len))
      BY <1>4, <2>2 DEF EndGap
    <2>4. page' = m.page
      BY <2>3 DEF Keep, LongLabel
    <2>5. ASSUME m.remain >= Distance PROVE remain' = Distance
      <3>1. m.remain \in Nat /\ Distance \in Nat /\ 7 < Distance
        BY GapSensorAssumption DEF Place
      <3>2. ~(m.remain <= Distance \div 2)
        BY <2>5, <3>1
      <3> QED
        BY <2>3, <3>2 DEF Keep, LongLabel
    <2> QED
      BY <1>4, <2>3, <2>4, <2>5
  <1>5. CASE ~EndGap(m)
    <2>1. CASE BeginGap(m)
      BY <1>5, <2>1 DEF BeginGap, Keep, Place
    <2>2. CASE StayInGap(m) \/ StayOnLabel(m)
      BY <1>5, <2>2 DEF StayInGap, StayOnLabel, Keep
    <2> QED
      BY <1>5, <2>1, <2>2 DEF Step
  <1> QED
    BY <1>4, <1>5

----------------------------------------------------------------------------
(* The count                                                               *)

\* One step of the count: it turns a page where the head passes the end of a gap, and there only.
LEMMA HeadStep ==
  ASSUME Readable, Plain, IInv, IInv', LearnInv, LengthInv, LengthInv', MeasuredInv, LockInv, HeadInv,
         Undisturbed, Undisturbed', StepCounts \/ StepBehind
  PROVE  /\ HeadInv'
         /\ page' # page /\ seen # 0 => Along = AtEnd + Distance - 1
  <1> DEFINE edge == Backing
             len == paper.len
             c == AtEnd
             D == Distance
             a == Along
             b == Along'
             max == MaxHeight
             late == paper.late
  <1>1. /\ paper \in Papers /\ pos \in Nat /\ remain \in Nat \ {0} /\ page \in Nat
        /\ turn \in Nat /\ seen \in Nat /\ labelLen \in Nat
        /\ D \in Nat /\ 7 < D /\ max \in Nat /\ late \in Nat
    BY GapSensorAssumption DEF IInv, TypeOK
  <1>2. len \in Nat /\ edge \in Nat /\ len <= edge /\ c \in Nat /\ c >= 23
    BY <1>1, PaperTyped DEF AtEnd
  <1>3. c + D + 1 <= len /\ D + late <= len /\ 2 * len <= max
    BY <1>1, PaperTyped DEF Undisturbed, Roomy, AtEnd
  <1>4. PICK m \in Place : /\ m.len = labelLen /\ Step(m)
                           /\ \/ m = Counted(remain, page, labelLen)
                              \/ m = Uncounted /\ turn > 0 /\ pos <= turn + late
    <2>1. CASE StepCounts
      <3>1. Step(IF lockPage THEN Uncounted ELSE Counted(remain, page, labelLen))
        BY <2>1 DEF StepCounts
      <3>2. ~lockPage
        BY <3>1 DEF Step, LockInv
      <3>3. Counted(remain, page, labelLen) \in Place
        BY <1>1, CountedTyped
      <3>4. Counted(remain, page, labelLen).len = labelLen
        BY DEF Counted
      <3> QED
        BY <3>1, <3>2, <3>3, <3>4
    <2>2. CASE StepBehind
      <3>1. Step(Uncounted) /\ turn > 0 /\ pos <= turn + late
        BY <2>2 DEF StepBehind
      <3>2. Uncounted \in Place /\ Uncounted.len = labelLen
        BY <1>1 DEF Uncounted, Place
      <3> QED
        BY <3>1, <3>2
    <2> QED
      BY <2>1, <2>2
  <1>5. /\ pos' = pos + 1 /\ paper' = paper /\ pos + 1 <= edge /\ stops = 0
        /\ turn' = IF page' = page THEN turn ELSE pos
    BY <1>4 DEF Step, Undisturbed, Backing
  <1>6. /\ a \in Nat /\ b \in Nat /\ a < len
        /\ b = IF a + 1 = len THEN 0 ELSE a + 1
        /\ pos < len => a = pos
    <2>1. pos < edge
      BY <1>1, <1>2, <1>5
    <2> QED
      BY <1>1, <1>5, <2>1, AlongNext
  <1>7. EndGap(m) <=> pos + 1 >= len /\ b = c
    BY <1>4, <1>5, EndSeen DEF LengthInv, MeasuredInv
  <1>8. /\ EndGap(m) => /\ seen' = seen + 1 /\ page' = m.page
                        /\ m.remain >= D => remain' = D
        /\ ~EndGap(m) => seen' = seen /\ page' = m.page /\ remain' = m.remain
    BY <1>4, CountStep DEF MeasuredInv
  <1>9. labelLen \in {0, len}
    <2>1. Long
      BY <1>1, PaperTyped DEF Undisturbed, Roomy, Long
    <2> QED
      BY <1>5, <2>1 DEF MeasuredInv, LongInv
  <1>10. m = Counted(remain, page, labelLen) =>
           IF remain > 1 THEN m.remain = remain - 1 /\ m.page = page
           ELSE m.remain >= len /\ m.page = page + 1
    BY <1>1, <1>2, <1>3, <1>9 DEF Counted
  <1>11. m = Uncounted => m.remain = remain /\ m.page = page
    BY DEF Uncounted
  <1>12. m.remain \in Nat \ {0} /\ remain' \in Nat
    BY DEF Place, IInv, TypeOK
  <1>13. /\ seen' = 0 /\ First(turn', pos + 1, remain', b, len, c) => HeadInv'
         /\ seen' # 0 /\ Running(turn', pos + 1, remain', b, len, c) => HeadInv'
    <2>1. pos' = pos + 1 /\ paper'.len = len /\ AtEnd' = c
      BY <1>5 DEF AtEnd
    <2>2. HeadInv' <=> /\ seen' = 0 => First(turn', pos', remain', b, paper'.len, AtEnd')
                       /\ seen' # 0 => Running(turn', pos', remain', b, paper'.len, AtEnd')
      BY DEF HeadInv, First, Running
    <2> HIDE DEF len, c, D, b
    <2> QED
      BY <2>1, <2>2
  <1> DEFINE Good == HeadInv' /\ (page' # page /\ seen # 0 => a = c + D - 1)
  <1>14. CASE seen = 0
    <2>1. /\ turn = 0 /\ pos < len + c /\ (pos >= len => a = pos - len) /\ remain + pos >= max
      BY <1>14 DEF HeadInv, First
    <2> HIDE DEF edge, len, c, D, a, b, max, late
    <2>2. m = Counted(remain, page, labelLen) /\ remain > 1
      BY <1>1, <1>2, <1>3, <1>4, <2>1
    <2>3. m.remain = remain - 1 /\ m.page = page /\ m.remain >= D
      BY <1>1, <1>2, <1>3, <1>10, <2>1, <2>2
    <2>4. page' = page /\ turn' = 0
      BY <1>5, <1>8, <2>1, <2>3
    <2>5. pos + 1 >= len => b = pos + 1 - len
      BY <1>1, <1>2, <1>3, <1>6, <2>1
    <2>6. CASE EndGap(m)
      <3>1. seen' = 1 /\ remain' = D /\ b = c /\ pos + 1 = len + c
        BY <1>1, <1>2, <1>7, <1>8, <1>14, <2>3, <2>5, <2>6
      <3> QED
        <4>1. Running(turn', pos + 1, remain', b, len, c)
          BY <1>1, <1>2, <1>3, <2>4, <3>1 DEF Running, D
        <4> QED
          BY <1>13, <2>4, <3>1, <4>1
    <2>7. CASE ~EndGap(m)
      <3>1. seen' = 0 /\ remain' = remain - 1
        BY <1>8, <1>14, <2>3, <2>7
      <3>2. pos + 1 < len + c
        BY <1>1, <1>2, <1>7, <2>1, <2>5, <2>7
      <3>3. remain' + (pos + 1) >= max
        BY <1>1, <2>1, <3>1
      <3> QED
        <4>1. First(turn', pos + 1, remain', b, len, c)
          BY <1>1, <1>2, <1>6, <2>4, <2>5, <3>2, <3>3 DEF First, max
        <4> QED
          BY <1>13, <2>4, <3>1, <4>1
    <2> QED
      BY <1>14, <2>4, <2>6, <2>7
  <1>15. CASE seen # 0
    <2>1. /\ pos >= len + c
          /\ c <= a /\ a < c + D => remain = c + D - a
          /\ a < c => turn # 0 /\ remain >= D + c - a
          /\ c + D <= a => turn # 0 /\ remain >= D + c + len - a
          /\ turn = 0 => pos = len + a
          /\ turn # 0 /\ a < c + D => pos - turn = a + len - c - D + 1
          /\ turn # 0 /\ c + D <= a => pos - turn = a - c - D + 1
      BY <1>15 DEF HeadInv, Running
    <2>2. seen' # 0 /\ pos + 1 >= len
      BY <1>1, <1>2, <1>8, <1>15, <2>1
    <2> HIDE DEF edge, len, c, D, a, b, max, late
    <2>3. CASE c <= a /\ a < c + D
      <3>1. b = a + 1 /\ ~EndGap(m)
        BY <1>1, <1>2, <1>3, <1>6, <1>7, <2>3
      <3>2. m = Counted(remain, page, labelLen)
        BY <1>1, <1>2, <1>3, <1>4, <1>6, <2>1, <2>3
      <3>3. CASE a < c + D - 1
        <4>1. remain = c + D - a /\ remain > 1
          BY <1>1, <1>2, <1>6, <2>1, <2>3, <3>3
        <4>2. remain' = c + D - b /\ page' = page /\ turn' = turn
          BY <1>1, <1>2, <1>5, <1>6, <1>8, <1>10, <3>1, <3>2, <4>1
        <4>3. b < c + D /\ c <= b
          BY <1>1, <1>2, <1>6, <2>3, <3>1, <3>3
        <4>4. Running(turn', pos + 1, remain', b, len, c)
          BY <1>1, <1>2, <1>3, <1>6, <2>1, <2>3, <3>1, <4>2, <4>3 DEF Running, D
        <4> QED
          BY <1>13, <2>2, <4>2, <4>4
      <3>4. CASE a = c + D - 1
        <4>1. remain = 1
          BY <1>1, <1>2, <1>6, <2>1, <2>3, <3>4
        <4>2. remain' >= len /\ page' = page + 1 /\ turn' = pos
          BY <1>1, <1>5, <1>8, <1>10, <3>1, <3>2, <4>1
        <4>3. b = c + D
          BY <1>1, <1>2, <3>1, <3>4
        <4>4. turn' # 0 /\ pos + 1 - turn' = 1
          BY <1>1, <1>2, <2>1, <4>2
        <4>5. remain' >= D + c + len - b /\ ~(b < c) /\ ~(b < c + D)
          BY <1>1, <1>2, <1>12, <4>2, <4>3
        <4>6. pos + 1 >= len + c /\ pos + 1 - turn' = b - c - D + 1
          BY <1>1, <1>2, <2>1, <4>3, <4>4
        <4>7. Running(turn', pos + 1, remain', b, len, c)
          BY <1>1, <1>2, <1>12, <4>2, <4>3, <4>4, <4>5, <4>6 DEF Running, D
        <4> QED
          BY <1>13, <2>2, <3>4, <4>7 DEF a, c, D
      <3> QED
        BY <1>1, <1>2, <1>6, <2>3, <3>3, <3>4
    <2>4. CASE ~(c <= a /\ a < c + D)
      <3>1. turn # 0 /\ remain > D
        BY <1>1, <1>2, <1>3, <1>6, <2>1, <2>4
      <3>2. m.remain >= remain - 1 /\ m.remain >= D /\ page' = page /\ turn' = turn
        BY <1>1, <1>4, <1>5, <1>8, <1>10, <1>11, <3>1
      <3>3. CASE a < c
        <4>1. b = a + 1 /\ b <= c
          BY <1>1, <1>2, <1>3, <1>6, <3>3
        <4>2. pos + 1 - turn' = b + len - c - D + 1 /\ b < c + D /\ pos + 1 >= len + c
          BY <1>1, <1>2, <1>6, <2>1, <3>1, <3>2, <3>3, <4>1
        <4>3. CASE b = c
          <5>1. remain' = D
            BY <1>7, <1>8, <2>2, <3>2, <4>3
          <5> QED
            <6>1. Running(turn', pos + 1, remain', b, len, c)
              BY <1>1, <1>2, <3>1, <3>2, <4>2, <4>3, <5>1 DEF Running, D
            <6> QED
              BY <1>13, <2>2, <3>2, <6>1
        <4>4. CASE b # c
          <5>1. remain' = m.remain
            BY <1>7, <1>8, <4>4
          <5>2. remain' >= D + c - b
            BY <1>1, <1>2, <1>6, <1>12, <2>1, <3>2, <3>3, <4>1, <5>1
          <5> QED
            <6>1. Running(turn', pos + 1, remain', b, len, c)
              BY <1>1, <1>2, <1>6, <3>1, <3>2, <4>1, <4>2, <4>4, <5>2 DEF Running, D
            <6> QED
              BY <1>13, <2>2, <3>2, <6>1
        <4> QED
          BY <4>3, <4>4
      <3>4. CASE c + D <= a
        <4>1. b # c
          BY <1>1, <1>2, <1>6, <3>4
        <4>2. remain' = m.remain
          BY <1>7, <1>8, <4>1
        <4>3. remain >= D + c + len - a
          BY <2>1, <3>4
        <4>4. pos - turn = a - c - D + 1
          BY <1>1, <1>2, <1>6, <2>1, <3>1, <3>4
        <4>5. CASE a + 1 = len
          <5>1. b = 0 /\ b < c /\ b < c + D /\ ~(c + D <= b) /\ ~(c <= b)
            BY <1>1, <1>2, <1>6, <4>5
          <5>2. remain' >= D + c - b
            BY <1>1, <1>2, <1>6, <1>12, <3>2, <4>2, <4>3, <4>5, <5>1
          <5>3. pos + 1 - turn' = b + len - c - D + 1 /\ pos + 1 >= len + c
            BY <1>1, <1>2, <1>6, <2>1, <3>2, <4>4, <4>5, <5>1
          <5> QED
            <6>1. Running(turn', pos + 1, remain', b, len, c)
              BY <1>1, <1>2, <1>6, <3>1, <3>2, <5>1, <5>2, <5>3 DEF Running, D
            <6> QED
              BY <1>13, <2>2, <3>2, <6>1
        <4>6. CASE a + 1 # len
          <5>1. b = a + 1 /\ ~(b < c) /\ ~(b < c + D)
            BY <1>1, <1>2, <1>6, <3>4, <4>6
          <5>2. remain' >= D + c + len - b
            BY <1>1, <1>2, <1>6, <1>12, <3>2, <4>2, <4>3, <5>1
          <5>3. pos + 1 - turn' = b - c - D + 1 /\ pos + 1 >= len + c
            BY <1>1, <1>2, <1>6, <2>1, <3>2, <4>4, <5>1
          <5> QED
            <6>1. Running(turn', pos + 1, remain', b, len, c)
              BY <1>1, <1>2, <1>6, <3>1, <3>2, <5>1, <5>2, <5>3 DEF Running, D
            <6> QED
              BY <1>13, <2>2, <3>2, <6>1
        <4> QED
          BY <4>5, <4>6
      <3> QED
        BY <1>1, <1>2, <1>6, <2>4, <3>2, <3>3, <3>4
    <2> QED
      BY <2>3, <2>4
  <1> QED
    BY <1>14, <1>15

\* m labels do not end behind x, which lies on one of the first n.
LEMMA LabelsBefore ==
  ASSUME NEW len \in Nat \ {0}, NEW n \in Nat, NEW x \in Nat, x < n * len
  PROVE  \E k \in 0..n : x = k * len + (x % len)
  <1> DEFINE q == x \div len
             r == x % len
  <1>1. x = len * q + r /\ q \in Nat /\ r \in 0 .. len - 1
    OBVIOUS
  <1> HIDE DEF q, r
  <1>2. q <= n
    <2> SUFFICES ASSUME q >= n PROVE q = n
      BY <1>1
    <2> DEFINE d == q - n
    <2>1. d \in Nat /\ q = n + d
      BY <1>1
    <2> HIDE DEF d
    <2>2. len * d \in Nat
      BY <2>1
    <2>3. len * q = n * len + len * d
      BY <2>1
    <2> QED
      BY <1>1, <2>2, <2>3
  <1>3. x = q * len + r
    BY <1>1
  <1>4. q \in 0..n
    BY <1>1, <1>2
  <1>5. \E k \in 0..n : x = k * len + r
    BY <1>3, <1>4, Zenon
  <1> QED
    BY <1>5, Zenon DEF r

TurnInv == IInv /\ LearnInv /\ LengthInv /\ MeasuredInv /\ LockInv /\ HeadInv

LEMMA TurnInit == ASSUME Readable, Plain PROVE Init /\ Undisturbed => TurnInv
  <1> SUFFICES ASSUME Init, Undisturbed PROVE TurnInv
    OBVIOUS
  <1>1. IInv /\ LearnInv /\ LengthInv /\ MeasuredInv
    BY InvInit, LearnInit, LengthInit, MeasuredInit
  <1>2. LockInv
    BY DEF Init, LockInv
  <1>3. HeadInv
    <2>1. /\ paper \in Papers /\ pos = paper.start /\ remain = MaxHeight /\ turn = 0 /\ seen = 0
      BY DEF Init
    <2>2. pos < paper.len /\ pos \in Nat /\ paper.len \in Nat /\ AtEnd \in Nat /\ MaxHeight \in Nat
      BY <2>1, PaperTyped, GapSensorAssumption DEF AtEnd
    <2>3. First(0, pos, MaxHeight, Along, paper.len, AtEnd)
      BY <2>2 DEF First
    <2> QED
      BY <2>1, <2>3 DEF HeadInv
  <1> QED
    BY <1>1, <1>2, <1>3 DEF TurnInv

LEMMA AlongTyped ==
  ASSUME Readable, paper \in Papers, pos \in Nat
  PROVE  Along \in Nat /\ (pos < Backing => Along < paper.len)
  <1>1. paper.len \in Nat \ {0} /\ Backing \in Nat
    BY PaperTyped
  <1>2. pos % paper.len \in Nat /\ pos % paper.len < paper.len
    BY <1>1
  <1> QED
    BY <1>1, <1>2 DEF Along

\* When a page turns behind the first gap, the head is where a label begins, and a label
\* behind the last turn.
PageTurns ==
  page' # page /\ Settled => /\ HeadAtLabel
                             /\ turn # 0 => pos - turn = paper.len

LEMMA TurnsHere ==
  ASSUME Readable, IInv, HeadInv, Undisturbed, pos + 1 <= Backing,
         seen # 0, Along = AtEnd + Distance - 1
  PROVE  HeadAtLabel /\ (turn # 0 => pos - turn = paper.len)
  <1>1. /\ paper \in Papers /\ pos \in Nat /\ Distance \in Nat /\ turn \in Nat /\ 7 < Distance
    BY GapSensorAssumption DEF IInv, TypeOK
  <1>2. /\ paper.len \in Nat \ {0} /\ paper.gap \in Nat /\ Backing \in Nat /\ AtEnd \in Nat
        /\ Labels \in Nat
    BY <1>1, PaperTyped DEF AtEnd, Readable
  <1>3. turn # 0 => pos - turn = paper.len
    <2>1. turn # 0 /\ Along < AtEnd + Distance =>
            pos - turn = Along + paper.len - AtEnd - Distance + 1
      BY DEF HeadInv, Running
    <2> QED
      BY <1>1, <1>2, <2>1
  <1>4. HeadAtLabel
    <2>1. pos < Backing
      BY <1>1, <1>2
    <2>2. Along = pos % paper.len
      BY <1>1, <1>2, <2>1 DEF Along
    <2>3. pos < Labels * paper.len
      BY <2>1 DEF Backing
    <2>4. PICK k \in 0..Labels : pos = k * paper.len + (pos % paper.len)
      BY <1>1, <1>2, <2>3, LabelsBefore
    <2>5. pos - Distance - (k * paper.len + paper.gap) \in -8..8
      <3> DEFINE base == k * paper.len
      <3>1. base \in Nat /\ pos = base + (AtEnd + Distance - 1)
        BY <1>2, <2>2, <2>4
      <3> HIDE DEF base
      <3>2. pos - Distance - (base + paper.gap) \in -8..8
        BY <1>1, <1>2, <3>1 DEF AtEnd
      <3> QED
        BY <3>2 DEF base
    <2>6. k \in 0..Labels + 3
      BY <1>2
    <2> QED
      BY <2>5, <2>6 DEF HeadAtLabel
  <1> QED
    BY <1>3, <1>4

LEMMA TurnNext ==
  ASSUME Readable, Plain
  PROVE  TurnInv /\ Undisturbed /\ Undisturbed' /\ [Next]_vars => TurnInv' /\ [PageTurns]_vars
  <1> SUFFICES ASSUME TurnInv, Undisturbed, Undisturbed', [Next]_vars
               PROVE  TurnInv' /\ [PageTurns]_vars
    OBVIOUS
  <1>1. /\ IInv /\ LearnInv /\ LengthInv /\ MeasuredInv /\ LockInv /\ HeadInv
        /\ IInv' /\ LearnInv' /\ LengthInv' /\ MeasuredInv' /\ LockInv'
    BY InvNext, LearnNext, LengthNext, MeasuredNext, LockStep DEF TurnInv
  <1>2. CASE StepCounts \/ StepBehind
    <2>1. /\ HeadInv'
          /\ page' # page /\ seen # 0 => Along = AtEnd + Distance - 1
      BY <1>1, <1>2, HeadStep
    <2>2. pos + 1 <= Backing
      <3>1. pos' = pos + 1 /\ Backing' = Backing
        BY <1>2 DEF StepCounts, StepBehind, Step, Backing
      <3>2. pos' <= Backing'
        BY DEF Undisturbed
      <3> QED
        BY <3>1, <3>2
    <2>3. Settled => seen # 0
      BY GapSensorAssumption DEF Settled
    <2>4. PageTurns
      BY <1>1, <2>1, <2>2, <2>3, TurnsHere DEF PageTurns
    <2> QED
      BY <1>1, <2>1, <2>4 DEF TurnInv
  <1>3. CASE StopAndContinue
    <2>1. stops' = stops + 1 /\ stops = 0 /\ stops' = 0
      BY <1>3 DEF StopAndContinue, Undisturbed
    <2> QED
      BY <2>1
  <1>4. CASE UNCHANGED vars
    <2>1. UNCHANGED <<seen, turn, pos, remain, paper, page>>
      BY <1>4 DEF vars, pageVars, history
    <2>2. Along' = Along /\ AtEnd' = AtEnd
      BY <2>1 DEF Along, AtEnd, Backing
    <2>3. HeadInv'
      BY <1>1, <2>1, <2>2 DEF HeadInv, First, Running
    <2> QED
      BY <1>1, <1>4, <2>3 DEF TurnInv
  <1> QED
    BY <1>2, <1>3, <1>4 DEF Next

----------------------------------------------------------------------------

\* On every roomy paper, with any number of steps that are not counted, as long as the run
\* does not stop and labels come: a page turns where the head passes a gap's end (597-688).
THEOREM TurnsAtLabelAlways ==
  ASSUME Readable, Plain
  PROVE  Spec /\ []Undisturbed => TurnsAtLabel
  <1>1. PageTurns => (page' # page /\ Settled => HeadAtLabel)
    BY DEF PageTurns
  <1> QED
    BY <1>1, TurnInit, TurnNext, PTL DEF Spec, TurnsAtLabel

\* Two turns are a label apart: "one page only execuate once!" (595).
THEOREM OneTurnPerLabelAlways ==
  ASSUME Readable, Plain
  PROVE  Spec /\ []Undisturbed => OneTurnPerLabel
  <1>1. TurnInv /\ PageTurns =>
          (page' # page /\ Settled /\ turn # 0 /\ paper.len \notin Doubtful
             => pos - turn >= paper.len - 8)
    <2> SUFFICES ASSUME TurnInv, PageTurns, page' # page, Settled, turn # 0
                 PROVE  pos - turn >= paper.len - 8
      OBVIOUS
    <2>1. pos - turn = paper.len
      BY DEF PageTurns
    <2>2. paper.len \in Nat
      BY PaperTyped DEF TurnInv, IInv, TypeOK
    <2> QED
      BY <2>1, <2>2
  <1> QED
    BY <1>1, TurnInit, TurnNext, PTL DEF Spec, OneTurnPerLabel

\* ... and once the count has settled no label goes by without one.
THEOREM EveryLabelTurnsAlways ==
  ASSUME Readable, Plain
  PROVE  Spec /\ []Undisturbed => []EveryLabelTurns
  <1>1. TurnInv /\ Undisturbed => EveryLabelTurns
    <2> SUFFICES ASSUME TurnInv, Undisturbed, Settled PROVE pos - LastTurn <= paper.len + 8
      BY DEF EveryLabelTurns
    <2> DEFINE len == paper.len
               a == Along
    <2>1. /\ IInv /\ paper \in Papers /\ pos \in Nat /\ turn \in Nat /\ seen \in Nat
          /\ Distance \in Nat
      BY GapSensorAssumption DEF TurnInv, IInv, TypeOK
    <2>2. len \in Nat /\ AtEnd \in Nat /\ AtEnd = paper.gap + 7 /\ paper.gap \in Nat
      BY <2>1, PaperTyped DEF AtEnd
    <2>3. Running(turn, pos, remain, a, len, AtEnd)
      BY <2>1, GapSensorAssumption DEF Settled, TurnInv, HeadInv
    <2>4. a \in Nat /\ a <= len
      <3>1. a \in Nat /\ Backing \in Nat /\ (pos < Backing => a < len)
        BY <2>1, PaperTyped, AlongTyped
      <3>2. pos = Backing => a = 0
        BY <2>1 DEF Along
      <3> QED
        BY <2>1, <2>2, <3>1, <3>2 DEF Undisturbed
    <2> HIDE DEF len, a
    <2>5. CASE turn = 0
      <3>1. pos = len + a /\ ~(a < AtEnd) /\ ~(AtEnd + Distance <= a)
        BY <2>3, <2>5 DEF Running
      <3>2. LastTurn = Distance + paper.gap
        BY <2>5 DEF LastTurn
      <3> QED
        BY <2>1, <2>2, <2>4, <3>1, <3>2 DEF len
    <2>6. CASE turn # 0
      <3>1. LastTurn = turn
        BY <2>6 DEF LastTurn
      <3>2. a < AtEnd + Distance => pos - turn = a + len - AtEnd - Distance + 1
        BY <2>3, <2>6 DEF Running
      <3>3. AtEnd + Distance <= a => pos - turn = a - AtEnd - Distance + 1
        BY <2>3, <2>6 DEF Running
      <3>4. pos - turn <= len + 8
        BY <2>1, <2>2, <2>4, <3>2, <3>3
      <3> QED
        BY <3>1, <3>4 DEF len
    <2> QED
      BY <2>5, <2>6
  <1> QED
    BY <1>1, TurnInit, TurnNext, PTL DEF Spec
=============================================================================
