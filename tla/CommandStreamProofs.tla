--------------------------- MODULE CommandStreamProofs ---------------------------
(***************************************************************************)
(* What CommandStream decodes of a legible job is what the host means: the *)
(* effects come one by one and in the host's order, each on its page.  The *)
(* invariant says where in the meaning the stream is, in the middle of a   *)
(* line or of a block, too.                                                *)
(***************************************************************************)
EXTENDS CommandStream, JobReading, SequenceTheorems, TLAPS

FormatTypes ==
  /\ LineDots \in Nat \ {0} /\ Flag \in Nat \ {0} /\ MaxHead \in Nat
  /\ Heads \in [Op -> Seq(Byte)] /\ \A op \in Op : Heads[op] # <<>>
  /\ Width \in [Settings -> Nat]

StreamTypes ==
  /\ stream \in Seq(Byte) /\ status \in Op \cup {"ZipData", "Idle"}
  /\ half \in BOOLEAN /\ dotValue \in BOOLEAN /\ dots \in Nat
  /\ zipSize \in Nat /\ zipData \in Seq(Byte)
  /\ pageNum \in Nat

\* What was decoded is a beginning of the effects.
Begun(effects) ==
  /\ out \in Seq({effects[i] : i \in 1..Len(effects)})
  /\ Len(out) <= Len(effects)
  /\ \A i \in 1..Len(out) : out[i] = effects[i]

\* i bytes of line l are decoded.
InLine(l, i, places, effects) ==
  LET n == Len(l.bytes) - i IN
    /\ i < Len(l.bytes) /\ n <= Len(stream)
    /\ \A x \in 1..n : stream[x] = l.bytes[i + x]
    /\ Due(effects, Len(out), Effect("Line", pageNum, l.row))
    /\ Place(Rest(n), pageNum, Len(out) + 1) \in places
    /\ dots = l.col[i] /\ half = l.due[i]
    /\ half => i > 0 /\ dotValue = (l.bytes[i] > Flag)
    /\ black = {d \in 0 .. dots - 1 : d < LineDots /\ l.row[d + 1] = 1}

\* The rest of a block is there, and its content leads on.
InBlock(places, ends) ==
  LET n == zipSize - Len(zipData)
      z == Inflate(zipData \o First(n))
  IN /\ Len(zipData) < zipSize /\ n <= Len(stream)
     /\ z.ok /\ ~HoldsBlock(z.bytes) /\ Len(stream) - n \in ends
     /\ Place(z.bytes \o Rest(n), pageNum, Len(out)) \in places

Reads(places, lines, effects, ends) ==
  /\ ~broken /\ Begun(effects)
  /\ status = "Idle" => Place(stream, pageNum, Len(out)) \in places
  /\ status \in Op \ {"LineStart"} =>
       \E q \in After(status, stream, pageNum, Len(out), lines, effects, ends) : q \in places
  /\ status = "LineStart" =>
       \E l \in lines : \E i \in 0..Len(l.bytes) : InLine(l, i, places, effects)
  /\ status = "ZipData" => InBlock(places, ends)
  /\ status # "ZipData" => zipData = <<>>

----------------------------------------------------------------------------
(* Bytes and effects                                                       *)

LEMMA Constant ==
  ASSUME FormatTypes
  PROVE  /\ LineDots \in Nat \ {0} /\ Flag \in Nat \ {0} /\ Byte \subseteq Nat
         /\ \A op \in Op : Heads[op] \in Seq(Byte) /\ Len(Heads[op]) \in Nat \ {0}
         /\ \A s \in Settings : Width[s] \in Nat
  BY DEF FormatTypes, Byte

LEMMA ByteAt ==
  ASSUME FormatTypes, NEW s \in Seq(Byte), NEW i \in 1..Len(s)
  PROVE  s[i] \in Nat
  BY DEF FormatTypes, Byte

\* A stream begins with one head at most.
LEMMA OneHead ==
  ASSUME FormatTypes, HeadsApart, NEW b \in Seq(Byte),
         NEW op \in Op, NEW other \in Op, Starts(op, b), Starts(other, b)
  PROVE  op = other
  <1>1. ASSUME NEW o \in Op, NEW h \in Op, Starts(o, b), Starts(h, b), Len(Heads[o]) <= Len(Heads[h])
        PROVE  o = h
    <2>1. /\ Heads[o] \in Seq(Byte) /\ Heads[h] \in Seq(Byte)
          /\ Len(Heads[o]) \in Nat /\ Len(Heads[h]) \in Nat
      BY Constant
    <2>2. \A i \in 1..Len(Heads[o]) : Heads[o][i] = b[i]
      BY <1>1, <2>1, SubSeqProperties DEF Starts
    <2>3. \A i \in 1..Len(Heads[h]) : Heads[h][i] = b[i]
      BY <1>1, <2>1, SubSeqProperties DEF Starts
    <2>4. SubSeq(Heads[h], 1, Len(Heads[o])) = Heads[o]
      <3> DEFINE u == SubSeq(Heads[h], 1, Len(Heads[o]))
      <3>1. /\ u \in Seq(Byte) /\ Len(u) = Len(Heads[o])
            /\ \A i \in 1..Len(Heads[o]) : u[i] = Heads[h][i]
        BY <1>1, <2>1, SubSeqProperties
      <3> HIDE DEF u
      <3>2. u = Heads[o]
        BY <1>1, <2>1, <2>2, <2>3, <3>1
      <3> QED
        BY <3>2 DEF u
    <2>5. Starts(o, Heads[h])
      BY <1>1, <2>4 DEF Starts
    <2> QED
      BY <2>5 DEF HeadsApart
  <1>2. Len(Heads[op]) \in Nat /\ Len(Heads[other]) \in Nat
    BY Constant
  <1> QED
    BY <1>1, <1>2

LEMMA FromTyped ==
  ASSUME NEW s \in Seq(Byte), NEW n \in Nat, n <= Len(s)
  PROVE  /\ From(s, n) \in Seq(Byte) /\ Len(From(s, n)) = Len(s) - n
         /\ \A i \in 1..Len(s) - n : From(s, n)[i] = s[i + n]
  <1>1. Len(s) \in Nat /\ \A i \in n + 1..Len(s) : s[i] \in Byte
    OBVIOUS
  <1>2. /\ From(s, n) \in Seq(Byte)
        /\ Len(From(s, n)) = IF n + 1 <= Len(s) THEN Len(s) - (n + 1) + 1 ELSE 0
        /\ \A i \in 1..Len(s) - (n + 1) + 1 : From(s, n)[i] = s[n + 1 + i - 1]
    BY <1>1, SubSeqProperties DEF From
  <1>3. Len(From(s, n)) = Len(s) - n
    BY <1>1, <1>2
  <1>4. ASSUME NEW i \in 1..Len(s) - n PROVE From(s, n)[i] = s[i + n]
    <2>1. i \in 1..Len(s) - (n + 1) + 1 /\ n + 1 + i - 1 = i + n
      BY <1>1
    <2> QED
      BY <1>2, <2>1
  <1> QED
    BY <1>2, <1>3, <1>4

\* What is taken from the stream in two pieces.
LEMMA RestOfRest ==
  ASSUME NEW s \in Seq(Byte), NEW m \in Nat, NEW n \in Nat, m + n <= Len(s)
  PROVE  From(From(s, m), n) = From(s, m + n)
  <1> DEFINE u == From(s, m)
             v == From(s, m + n)
  <1>1. u \in Seq(Byte) /\ Len(u) = Len(s) - m /\ \A i \in 1..Len(s) - m : u[i] = s[m + i]
    BY SubSeqProperties DEF From
  <1>2. /\ v \in Seq(Byte) /\ Len(v) = Len(s) - (m + n)
        /\ \A i \in 1..Len(s) - (m + n) : v[i] = s[m + n + i]
    BY SubSeqProperties DEF From
  <1> HIDE DEF u, v
  <1> DEFINE w == From(u, n)
  <1>3. w \in Seq(Byte) /\ Len(w) = Len(u) - n /\ \A i \in 1..Len(u) - n : w[i] = u[n + i]
    BY <1>1, SubSeqProperties DEF From
  <1> HIDE DEF w
  <1>4. Len(w) = Len(v) /\ Len(v) \in Nat
    BY <1>1, <1>2, <1>3
  <1>5. ASSUME NEW i \in 1..Len(v) PROVE w[i] = v[i]
    <2>1. w[i] = u[n + i] /\ n + i \in 1..Len(s) - m
      BY <1>1, <1>2, <1>3
    <2>2. u[n + i] = s[m + (n + i)] /\ m + (n + i) = m + n + i
      BY <1>1, <2>1
    <2> QED
      BY <1>2, <2>1, <2>2
  <1>6. w = v
    BY <1>2, <1>3, <1>4, <1>5, SeqEqual
  <1> QED
    BY <1>6 DEF u, v, w

\* The effect that is due is decoded next.
LEMMA EffectDone ==
  ASSUME NEW effects, Len(effects) \in Nat, Begun(effects), NEW e,
         Due(effects, Len(out), e), out' = Append(out, e)
  PROVE  Begun(effects)' /\ Len(out') = Len(out) + 1
  <1> DEFINE S == {effects[i] : i \in 1..Len(effects)}
  <1>1. out \in Seq(S) /\ Len(out) \in Nat /\ Len(out) < Len(effects) /\ e = effects[Len(out) + 1]
    BY DEF Begun, Due
  <1>2. e \in S
    BY <1>1
  <1>3. /\ out' \in Seq(S) /\ Len(out') = Len(out) + 1
        /\ \A i \in 1..Len(out) : out'[i] = out[i]
        /\ out'[Len(out) + 1] = e
    BY <1>1, <1>2, AppendProperties
  <1> QED
    BY <1>1, <1>3 DEF Begun

----------------------------------------------------------------------------
(* Commands                                                                *)

Sound(places, lines, effects, ends) ==
  /\ FormatTypes /\ HeadsApart
  /\ Len(effects) \in Nat
  /\ Reading(places, lines, effects, ends)

\* Between commands a head at the front of the stream is one the host means.
LEMMA CommandHere ==
  ASSUME NEW places, NEW lines, NEW effects, NEW ends,
         Sound(places, lines, effects, ends), StreamTypes,
         Reads(places, lines, effects, ends), status = "Idle",
         NEW op \in Op, Starts(op, stream)
  PROVE  /\ Len(Heads[op]) < MaxHead
         /\ \E q \in After(op, From(stream, Len(Heads[op])), pageNum, Len(out), lines, effects, ends) :
              q \in places
  <1> DEFINE r == Place(stream, pageNum, Len(out))
  <1>1. r.bytes = stream /\ r.page = pageNum /\ r.done = Len(out)
    BY DEF Place
  <1>2. r \in places
    BY DEF Reads
  <1> HIDE DEF r
  <1>3. stream # <<>>
    <2>1. Len(Heads[op]) \in Nat \ {0} /\ Len(Heads[op]) <= Len(stream)
      BY Constant DEF Sound, Starts
    <2> QED
      BY <2>1
  <1>4. PICK o \in Op :
          /\ Starts(o, r.bytes) /\ Len(Heads[o]) < MaxHead
          /\ \E q \in After(o, From(r.bytes, Len(Heads[o])), r.page, r.done, lines, effects, ends) :
               q \in places
    BY <1>1, <1>2, <1>3 DEF Sound, Reading
  <1>5. o = op
    BY <1>1, <1>4, OneHead DEF Sound, StreamTypes
  <1> QED
    BY <1>1, <1>4, <1>5

\* A byte that starts nothing leads on.
LEMMA FillerHere ==
  ASSUME NEW places, NEW lines, NEW effects, NEW ends,
         Sound(places, lines, effects, ends), StreamTypes,
         Reads(places, lines, effects, ends), status = "Idle",
         stream # <<>>, \A op \in Op : Starts(op, stream) => Len(Heads[op]) = MaxHead
  PROVE  Place(From(stream, 1), pageNum, Len(out)) \in places
  <1> DEFINE r == Place(stream, pageNum, Len(out))
  <1>1. r.bytes = stream /\ r.page = pageNum /\ r.done = Len(out)
    BY DEF Place
  <1>2. r \in places
    BY DEF Reads
  <1> HIDE DEF r
  <1>3. \A op \in Op : ~(Starts(op, r.bytes) /\ Len(Heads[op]) < MaxHead)
    BY <1>1, Constant DEF Sound, FormatTypes
  <1> QED
    BY <1>1, <1>2, <1>3 DEF Sound, Reading

LEMMA SkipReads ==
  ASSUME NEW places, NEW lines, NEW effects, NEW ends,
         Sound(places, lines, effects, ends), StreamTypes,
         Reads(places, lines, effects, ends), Skip
  PROVE  Reads(places, lines, effects, ends)'
  <1>1. /\ status = "Idle" /\ status' = "Idle" /\ stream' = Rest(1) /\ 1 <= Len(stream)
        /\ UNCHANGED <<lineVars, zipVars, pageVars>>
    BY DEF Skip, Consume
  <1>2. Place(From(stream, 1), pageNum, Len(out)) \in places
    BY <1>1, FillerHere DEF Skip, Begins, Starts, First
  <1>3. Place(stream, pageNum, Len(out))' \in places
    BY <1>1, <1>2 DEF From, Rest, pageVars, Place
  <1>4. (~broken /\ Begun(effects))' /\ zipData' = <<>>
    BY <1>1 DEF Reads, Begun, zipVars, pageVars
  <1> QED
    BY <1>1, <1>3, <1>4 DEF Reads, Op, Settings

LEMMA FindReads ==
  ASSUME NEW places, NEW lines, NEW effects, NEW ends,
         Sound(places, lines, effects, ends), StreamTypes,
         Reads(places, lines, effects, ends), NEW op \in Op, Find(op)
  PROVE  Reads(places, lines, effects, ends)'
  <1> DEFINE h == Len(Heads[op])
  <1>1. /\ status = "Idle" /\ status' = op /\ Starts(op, stream)
        /\ stream' = From(stream, h) /\ UNCHANGED <<zipVars, pageVars>>
    BY DEF Find, Begins, Starts, Consume, First, Rest, From
  <1>2. PICK q \in After(op, From(stream, h), pageNum, Len(out), lines, effects, ends) : q \in places
    BY <1>1, CommandHere
  <1>3. (~broken /\ Begun(effects))' /\ zipData' = <<>> /\ pageNum' = pageNum /\ out' = out
    BY <1>1 DEF Reads, Begun, zipVars, pageVars
  <1>4. op # "Idle" /\ op # "ZipData"
    BY DEF Op, Settings
  <1> HIDE DEF h
  <1>5. CASE op # "LineStart"
    BY <1>1, <1>2, <1>3, <1>4, <1>5 DEF Reads
  <1>6. CASE op = "LineStart"
    <2>1. half' = FALSE /\ dots' = 0 /\ black' = {}
      BY <1>6 DEF Find
    <2>2. PICK l \in lines :
            /\ Len(l.bytes) <= Len(stream') /\ SubSeq(stream', 1, Len(l.bytes)) = l.bytes
            /\ Due(effects, Len(out), Effect("Line", pageNum, l.row))
            /\ q = Place(From(stream', Len(l.bytes)), pageNum, Len(out) + 1)
      BY <1>1, <1>2, <1>6 DEF After, Settings
    <2>3. Draws(l) /\ l.bytes \in Seq(Byte) /\ Len(l.bytes) \in Nat \ {0}
      BY DEF Sound, Reading, Draws
    <2>4. stream' \in Seq(Byte)
      <3>1. h \in Nat /\ stream \in Seq(Byte) /\ h <= Len(stream)
        BY <1>1, Constant DEF Sound, StreamTypes, Starts, h
      <3> QED
        BY <1>1, <3>1, SubSeqProperties DEF From
    <2>5. \A x \in 1..Len(l.bytes) : stream'[x] = l.bytes[x]
      BY <2>2, <2>3, <2>4, SubSeqProperties
    <2>6. l.col[0] = 0 /\ l.due[0] = FALSE
      <3>1. l.col[0] = 0 /\ ~l.due[0] /\ l.due \in [0..Len(l.bytes) -> BOOLEAN]
        BY <2>3 DEF Draws
      <3>2. l.due[0] \in BOOLEAN
        BY <2>3, <3>1
      <3> QED
        BY <3>1, <3>2
    <2>7. InLine(l, 0, places, effects)'
      <3>1. /\ 0 < Len(l.bytes) /\ Len(l.bytes) - 0 = Len(l.bytes)
            /\ \A x \in 1..Len(l.bytes) : stream'[x] = l.bytes[0 + x]
        BY <2>3, <2>5
      <3>2. Due(effects, Len(out), Effect("Line", pageNum, l.row))'
        BY <1>3, <2>2
      <3>3. Place(Rest(Len(l.bytes)), pageNum, Len(out) + 1)' \in places
        BY <1>2, <1>3, <2>2 DEF From, Rest
      <3>4. half' = l.due[0] /\ dots' = l.col[0]
        BY <2>1, <2>6
      <3>5. black' = {d \in 0 .. dots' - 1 : d < LineDots /\ l.row[d + 1] = 1}
        BY <2>1
      <3> QED
        BY <2>1, <2>2, <3>1, <3>2, <3>3, <3>4, <3>5 DEF InLine
    <2>8. 0 \in 0..Len(l.bytes)
      BY <2>3
    <2> QED
      BY <1>1, <1>3, <1>6, <2>7, <2>8 DEF Reads
  <1> QED
    BY <1>5, <1>6

LEMMA SetReads ==
  ASSUME NEW places, NEW lines, NEW effects, NEW ends,
         Sound(places, lines, effects, ends), StreamTypes,
         Reads(places, lines, effects, ends), NEW s \in Settings, Set(s)
  PROVE  Reads(places, lines, effects, ends)'
  <1> DEFINE w == Width[s]
             e == Effect(s, pageNum, Value(s, First(w)))
  <1>1. /\ status = s /\ status' = "Idle" /\ out' = Append(out, e)
        /\ stream' = From(stream, w) /\ pageNum' = pageNum
        /\ broken' = broken /\ zipData' = zipData
    BY DEF Set, Consume, Rest, From, zipVars
  <1>2. s \in Op \ {"LineStart"}
    BY DEF Op, Settings
  <1>3. PICK q \in After(s, stream, pageNum, Len(out), lines, effects, ends) : q \in places
    BY <1>1, <1>2 DEF Reads
  <1>4. Due(effects, Len(out), e) /\ q = Place(From(stream, w), pageNum, Len(out) + 1)
    BY <1>3 DEF After, First, Settings
  <1> HIDE DEF e, w
  <1>5. Begun(effects)' /\ Len(out') = Len(out) + 1
    BY <1>1, <1>4, EffectDone DEF Reads, Sound
  <1>6. Place(stream, pageNum, Len(out))' \in places
    BY <1>1, <1>3, <1>4, <1>5 DEF Place
  <1> QED
    BY <1>1, <1>5, <1>6 DEF Reads, Op, Settings

LEMMA MarkReads ==
  ASSUME NEW places, NEW lines, NEW effects, NEW ends,
         Sound(places, lines, effects, ends), StreamTypes,
         Reads(places, lines, effects, ends), NEW op \in {"PageStart", "LineEnd", "PageEnd"}, Mark(op)
  PROVE  Reads(places, lines, effects, ends)'
  <1>1. /\ status = op /\ status' = "Idle" /\ stream' = stream
        /\ broken' = broken /\ zipData' = zipData
        /\ pageNum' = (IF op = "PageEnd" THEN pageNum + 1 ELSE pageNum)
        /\ out' = (IF op = "LineEnd" THEN out ELSE Append(out, Effect(op, pageNum', <<>>)))
    BY DEF Mark, zipVars
  <1>2. op \in Op \ {"LineStart"}
    BY DEF Op
  <1>3. PICK q \in After(op, stream, pageNum, Len(out), lines, effects, ends) : q \in places
    BY <1>1, <1>2 DEF Reads
  <1>4. CASE op = "LineEnd"
    <2>1. q = Place(stream, pageNum, Len(out))
      BY <1>3, <1>4 DEF After, Settings
    <2>2. Place(stream, pageNum, Len(out))' \in places /\ Begun(effects)'
      BY <1>1, <1>3, <1>4, <2>1 DEF Place, Reads, Begun
    <2> QED
      BY <1>1, <2>2 DEF Reads, Op, Settings
  <1>5. CASE op # "LineEnd"
    <2>1. /\ Due(effects, Len(out), Effect(op, pageNum', <<>>))
          /\ q = Place(stream, pageNum', Len(out) + 1)
      BY <1>1, <1>3, <1>5 DEF After, Settings
    <2>2. Begun(effects)' /\ Len(out') = Len(out) + 1
      BY <1>1, <1>5, <2>1, EffectDone DEF Reads, Sound
    <2>3. Place(stream, pageNum, Len(out))' \in places
      BY <1>1, <1>3, <2>1, <2>2 DEF Place
    <2> QED
      BY <1>1, <2>2, <2>3 DEF Reads, Op, Settings
  <1> QED
    BY <1>4, <1>5

----------------------------------------------------------------------------
(* Compressed blocks                                                       *)

LEMMA SizeReads ==
  ASSUME NEW places, NEW lines, NEW effects, NEW ends,
         Sound(places, lines, effects, ends), StreamTypes,
         Reads(places, lines, effects, ends), Size
  PROVE  Reads(places, lines, effects, ends)'
  <1> DEFINE n == stream[1] * 2 * Flag + stream[2]
             z == Inflate(SubSeq(stream, 3, n + 2))
  <1>1. /\ status = "ZipStart" /\ status' = "ZipData" /\ stream' = From(stream, 2)
        /\ zipSize' = n /\ zipData' = <<>> /\ 2 <= Len(stream)
        /\ broken' = broken /\ pageNum' = pageNum /\ out' = out
    BY DEF Size, Consume, Rest, From, pageVars, Reads
  <1>2. PICK q \in After("ZipStart", stream, pageNum, Len(out), lines, effects, ends) : q \in places
    BY <1>1 DEF Reads, Op
  <1>3. /\ 0 < n /\ n + 2 <= Len(stream)
        /\ z.ok /\ ~HoldsBlock(z.bytes) /\ Len(stream) - (n + 2) \in ends
        /\ q = Place(z.bytes \o From(stream, n + 2), pageNum, Len(out))
    BY <1>2 DEF After, Settings
  <1>4. n \in Nat /\ stream \in Seq(Byte)
    <2>0. stream \in Seq(Byte) /\ Flag \in Nat /\ Byte \subseteq Nat
      BY Constant DEF Sound, StreamTypes
    <2>1. stream[1] \in Nat /\ stream[2] \in Nat /\ Flag \in Nat
      <3>1. 2 <= Len(stream)
        BY <1>1
      <3>2. Len(stream) \in Nat
        BY <2>0
      <3>3. 1 \in 1..Len(stream) /\ 2 \in 1..Len(stream)
        BY <3>1, <3>2
      <3> QED
        BY <2>0, <3>3, ByteAt DEF Sound
    <2>2. stream[1] * 2 * Flag \in Nat
      BY <2>1, SMTT(20)
    <2> QED
      BY <2>0, <2>1, <2>2
  <1> HIDE DEF n
  <1>5. stream' \in Seq(Byte) /\ Len(stream') = Len(stream) - 2
    BY <1>1, <1>4, FromTyped
  <1>6. <<>> \o SubSeq(stream', 1, n) = SubSeq(stream, 3, n + 2)
    <2> DEFINE u == SubSeq(stream', 1, n)
               v == SubSeq(stream, 3, n + 2)
    <2>1. \A i \in 1..Len(stream) - 2 : stream'[i] = stream[i + 2]
      BY <1>1, <1>4, FromTyped
    <2>2. u \in Seq(Byte) /\ Len(u) = n /\ \A i \in 1..n : u[i] = stream'[i]
      BY <1>3, <1>4, <1>5, SubSeqProperties
    <2>3. v \in Seq(Byte) /\ Len(v) = n /\ \A i \in 1..n : v[i] = stream[i + 2]
      BY <1>3, <1>4, SubSeqProperties
    <2> HIDE DEF u, v
    <2>4. ASSUME NEW i \in 1..n PROVE u[i] = v[i]
      <3>1. i \in 1..Len(stream) - 2
        BY <1>3, <1>4
      <3> QED
        BY <2>1, <2>2, <2>3, <3>1
    <2>5. u = v
      BY <1>4, <2>2, <2>3, <2>4, SeqEqual
    <2>6. <<>> \o u = u
      BY <2>2, ConcatEmptySeq
    <2> QED
      BY <2>5, <2>6 DEF u, v
  <1>7. From(stream', n) = From(stream, n + 2)
    BY <1>1, <1>3, <1>4, RestOfRest
  <1>8. /\ Len(<<>>) = 0 /\ n - 0 = n
    BY <1>4
  <1>9. InBlock(places, ends)'
    <2>1. /\ Len(zipData') < zipSize' /\ zipSize' - Len(zipData') = n
          /\ zipSize' - Len(zipData') <= Len(stream')
          /\ Len(stream') - n = Len(stream) - (n + 2)
      BY <1>1, <1>3, <1>4, <1>5, <1>8
    <2>2. zipData' \o SubSeq(stream', 1, n) = SubSeq(stream, 3, n + 2)
      BY <1>1, <1>6
    <2>3. Place(z.bytes \o From(stream', n), pageNum', Len(out')) \in places
      BY <1>1, <1>2, <1>3, <1>7
    <2> QED
      BY <1>3, <2>1, <2>2, <2>3 DEF InBlock, First, Rest, From
  <1>10. (~broken /\ Begun(effects))'
    BY <1>1 DEF Reads, Begun
  <1> QED
    BY <1>1, <1>9, <1>10 DEF Reads, Op, Settings

\* A front taken in two pieces.
LEMMA FrontOfRest ==
  ASSUME NEW s \in Seq(Byte), NEW m \in Nat, NEW n \in Nat, m + n <= Len(s)
  PROVE  SubSeq(s, 1, m) \o SubSeq(From(s, m), 1, n) = SubSeq(s, 1, m + n)
  <1> DEFINE u == SubSeq(s, 1, m)
             v == SubSeq(From(s, m), 1, n)
             w == SubSeq(s, 1, m + n)
  <1>1. u \in Seq(Byte) /\ Len(u) = m /\ \A i \in 1..m : u[i] = s[i]
    BY SubSeqProperties
  <1>2. v \in Seq(Byte) /\ Len(v) = n /\ \A i \in 1..n : v[i] = s[i + m]
    <2> DEFINE r == From(s, m)
    <2>1. m <= Len(s) /\ n <= Len(s) - m /\ Len(s) \in Nat
      OBVIOUS
    <2>2. r \in Seq(Byte) /\ Len(r) = Len(s) - m /\ \A i \in 1..Len(s) - m : r[i] = s[i + m]
      BY <2>1, FromTyped
    <2> HIDE DEF r
    <2>3. /\ SubSeq(r, 1, n) \in Seq(Byte) /\ Len(SubSeq(r, 1, n)) = n
          /\ \A i \in 1..n : SubSeq(r, 1, n)[i] = r[i]
      BY <2>1, <2>2, SubSeqProperties
    <2>4. \A i \in 1..n : r[i] = s[i + m]
      BY <2>1, <2>2
    <2> QED
      BY <2>3, <2>4 DEF r
  <1>3. w \in Seq(Byte) /\ Len(w) = m + n /\ \A i \in 1..m + n : w[i] = s[i]
    BY SubSeqProperties
  <1> HIDE DEF u, v, w
  <1>4. /\ u \o v \in Seq(Byte) /\ Len(u \o v) = m + n
        /\ \A i \in 1..m + n : (u \o v)[i] = IF i <= m THEN u[i] ELSE v[i - m]
    BY <1>1, <1>2, ConcatProperties
  <1>5. ASSUME NEW i \in 1..m + n PROVE (u \o v)[i] = w[i]
    <2>1. i \in Int /\ w[i] = s[i]
      BY <1>3
    <2>2. CASE i <= m
      BY <1>1, <1>4, <2>1, <2>2
    <2>3. CASE ~(i <= m)
      <3>1. i - m \in 1..n /\ (i - m) + m = i
        BY <2>1, <2>3
      <3>2. (u \o v)[i] = v[i - m]
        BY <1>4, <2>3
      <3>3. v[i - m] = s[(i - m) + m]
        BY <1>2, <3>1
      <3> QED
        BY <2>1, <3>1, <3>2, <3>3
    <2> QED
      BY <2>2, <2>3
  <1>6. u \o v = w
    BY <1>3, <1>4, <1>5, SeqEqual
  <1> QED
    BY <1>6 DEF u, v, w

LEMMA CollectReads ==
  ASSUME NEW places, NEW lines, NEW effects, NEW ends,
         Sound(places, lines, effects, ends), StreamTypes,
         Reads(places, lines, effects, ends), NEW n \in 1..Len(stream), Collect(n)
  PROVE  Reads(places, lines, effects, ends)'
  <1> DEFINE m == zipSize - Len(zipData) - n
             data == zipData \o First(n)
  <1>1. /\ status = "ZipData" /\ status' = status /\ Len(zipData) + n < zipSize
        /\ stream' = From(stream, n) /\ zipData' = data /\ zipSize' = zipSize
        /\ broken' = broken /\ pageNum' = pageNum /\ out' = out
    BY DEF Collect, Consume, Rest, From, pageVars
  <1>2. /\ zipData \in Seq(Byte) /\ Len(zipData) \in Nat /\ stream \in Seq(Byte)
        /\ Len(stream) \in Nat /\ zipSize \in Nat /\ n \in Nat
    BY DEF StreamTypes
  <1>3. /\ zipSize - Len(zipData) <= Len(stream)
        /\ Inflate(zipData \o First(zipSize - Len(zipData))).ok
        /\ ~HoldsBlock(Inflate(zipData \o First(zipSize - Len(zipData))).bytes)
        /\ Len(stream) - (zipSize - Len(zipData)) \in ends
        /\ Place(Inflate(zipData \o First(zipSize - Len(zipData))).bytes
                   \o Rest(zipSize - Len(zipData)), pageNum, Len(out)) \in places
    BY <1>1 DEF Reads, InBlock
  <1>4. First(n) \in Seq(Byte) /\ Len(First(n)) = n
    BY <1>2, SubSeqProperties DEF First
  <1>5. data \in Seq(Byte) /\ Len(data) = Len(zipData) + n
    BY <1>2, <1>4, ConcatProperties
  <1>6. m \in Nat /\ zipSize - Len(zipData) = n + m /\ zipSize - Len(data) = m
    BY <1>1, <1>2, <1>5
  <1> HIDE DEF m, data
  <1>7. /\ stream' \in Seq(Byte) /\ Len(stream') = Len(stream) - n
    BY <1>1, <1>2, FromTyped
  <1>8. data \o SubSeq(stream', 1, m) = zipData \o First(zipSize - Len(zipData))
    <2>1. First(n) \o SubSeq(stream', 1, m) = First(n + m)
      BY <1>1, <1>2, <1>3, <1>6, FrontOfRest DEF First
    <2>2. SubSeq(stream', 1, m) \in Seq(Byte)
      BY <1>2, <1>3, <1>6, <1>7, SubSeqProperties
    <2>3. (zipData \o First(n)) \o SubSeq(stream', 1, m) = zipData \o (First(n) \o SubSeq(stream', 1, m))
      <3> DEFINE a == First(n)
                 b == SubSeq(stream', 1, m)
      <3>1. zipData \in Seq(Byte) /\ a \in Seq(Byte) /\ b \in Seq(Byte)
        BY <1>2, <1>4, <2>2
      <3> HIDE DEF a, b
      <3>2. (zipData \o a) \o b = zipData \o (a \o b)
        BY <3>1, ConcatAssociative
      <3> QED
        BY <3>2 DEF a, b
    <2> QED
      BY <1>6, <2>1, <2>3 DEF data
  <1>9. From(stream', m) = Rest(zipSize - Len(zipData))
    <2>1. n + m <= Len(stream) /\ n \in Nat
      BY <1>2, <1>3, <1>6
    <2>2. From(From(stream, n), m) = From(stream, n + m)
      BY <1>2, <1>6, <2>1, RestOfRest
    <2> QED
      BY <1>1, <1>6, <2>2 DEF Rest, From
  <1>10. InBlock(places, ends)'
    <2>1. /\ Len(zipData') < zipSize' /\ zipSize' - Len(zipData') = m /\ m <= Len(stream')
          /\ Len(stream') - m = Len(stream) - (zipSize - Len(zipData))
      BY <1>1, <1>2, <1>3, <1>5, <1>6, <1>7
    <2>2. zipData' \o SubSeq(stream', 1, m) = zipData \o First(zipSize - Len(zipData))
      BY <1>1, <1>8
    <2> QED
      BY <1>1, <1>3, <1>9, <2>1, <2>2 DEF InBlock, First, Rest, From
  <1>11. (~broken /\ Begun(effects))'
    BY <1>1 DEF Reads, Begun
  <1> QED
    BY <1>1, <1>10, <1>11 DEF Reads, Op, Settings

LEMMA ExpandReads ==
  ASSUME NEW places, NEW lines, NEW effects, NEW ends,
         Sound(places, lines, effects, ends), StreamTypes,
         Reads(places, lines, effects, ends), NEW n \in 1..Len(stream), Expand(n)
  PROVE  Reads(places, lines, effects, ends)'
  <1> DEFINE z == Inflate(zipData \o First(n))
  <1>1. /\ status = "ZipData" /\ status' = "Idle" /\ Len(zipData) + n = zipSize
        /\ stream' = Pieces(z.bytes, z.ok) \o Rest(n) /\ broken' = ~z.ok /\ zipData' = <<>>
        /\ pageNum' = pageNum /\ out' = out
    BY DEF Expand, pageVars
  <1>2. zipSize - Len(zipData) = n
    BY <1>1 DEF StreamTypes
  <1>3. z.ok /\ Place(z.bytes \o Rest(n), pageNum, Len(out)) \in places
    BY <1>1, <1>2 DEF Reads, InBlock
  <1>4. stream' = z.bytes \o Rest(n) /\ ~broken'
    BY <1>1, <1>3 DEF Pieces
  <1> HIDE DEF z
  <1>5. Place(stream, pageNum, Len(out))' \in places
    BY <1>1, <1>3, <1>4 DEF Place
  <1>6. Begun(effects)'
    BY <1>1 DEF Reads, Begun
  <1> QED
    BY <1>1, <1>4, <1>5, <1>6 DEF Reads, Op, Settings

----------------------------------------------------------------------------
(* Lines                                                                   *)

\* The dots of l that are black, among the first n.
Black(l, n) == {d \in 0 .. n - 1 : d < LineDots /\ l.row[d + 1] = 1}

LEMMA NextDot ==
  ASSUME NEW l, NEW n \in Nat, n < LineDots, LineDots \in Nat
  PROVE  Black(l, n + 1) = IF l.row[n + 1] = 1 THEN Black(l, n) \cup {n} ELSE Black(l, n)
  <1>1. 0 .. (n + 1) - 1 = (0 .. n - 1) \cup {n}
    OBVIOUS
  <1> QED
    BY <1>1 DEF Black

\* The row is full with the last byte of its line, and not before.
LEMMA FullAtEnd ==
  ASSUME FormatTypes, NEW l, Draws(l), NEW i \in 0 .. Len(l.bytes) - 1
  PROVE  /\ Len(l.bytes) \in Nat \ {0} /\ i + 1 \in 1..Len(l.bytes)
         /\ l.col[i] \in Nat /\ l.col[i + 1] \in Nat /\ l.due[i] \in BOOLEAN /\ l.due[i + 1] \in BOOLEAN
         /\ l.bytes[i + 1] \in Nat
         /\ l.col[i] < LineDots /\ DrawsByte(l, i + 1)
         /\ l.col[i + 1] >= LineDots <=> i + 1 = Len(l.bytes)
         /\ i + 1 = Len(l.bytes) => ~l.due[i + 1]
  <1>1. /\ l.bytes \in Seq(Byte) /\ Len(l.bytes) \in Nat \ {0}
        /\ l.col \in [0..Len(l.bytes) -> Nat] /\ l.due \in [0..Len(l.bytes) -> BOOLEAN]
        /\ l.col[Len(l.bytes)] >= LineDots /\ ~l.due[Len(l.bytes)]
        /\ \A x \in 1..Len(l.bytes) : l.col[x - 1] < LineDots /\ DrawsByte(l, x)
    BY DEF Draws
  <1>2. i + 1 \in 1..Len(l.bytes) /\ i \in 0..Len(l.bytes) /\ i + 1 \in 0..Len(l.bytes) /\ (i + 1) - 1 = i
    BY <1>1
  <1>3. /\ l.col[i] \in Nat /\ l.col[i + 1] \in Nat /\ l.due[i] \in BOOLEAN /\ l.due[i + 1] \in BOOLEAN
    BY <1>1, <1>2
  <1>4. l.bytes[i + 1] \in Nat
    BY <1>1, <1>2, Constant
  <1>5. l.col[i] < LineDots /\ DrawsByte(l, i + 1)
    BY <1>1, <1>2
  <1>6. i + 1 # Len(l.bytes) => l.col[i + 1] < LineDots
    <2> SUFFICES ASSUME i + 1 # Len(l.bytes) PROVE l.col[i + 1] < LineDots
      OBVIOUS
    <2>1. i + 2 \in 1..Len(l.bytes) /\ (i + 2) - 1 = i + 1
      BY <1>1, <1>2
    <2> QED
      BY <1>1, <2>1
  <1>7. LineDots \in Nat
    BY Constant
  <1>8. i + 1 = Len(l.bytes) => l.col[i + 1] >= LineDots /\ ~l.due[i + 1]
    BY <1>1
  <1>9. l.col[i + 1] >= LineDots <=> i + 1 = Len(l.bytes)
    BY <1>3, <1>6, <1>7, <1>8
  <1> QED
    BY <1>1, <1>2, <1>3, <1>4, <1>5, <1>8, <1>9

\* A full line is the row the host means.
LEMMA RowDrawn ==
  ASSUME FormatTypes, NEW l, Draws(l), NEW n \in Nat, n >= LineDots
  PROVE  Row(Black(l, n)) = l.row
  <1>1. l.row \in [1..LineDots -> {0, 1}] /\ LineDots \in Nat
    BY Constant DEF Draws
  <1>2. ASSUME NEW i \in 1..LineDots
        PROVE  l.row[i] = IF i - 1 \in Black(l, n) THEN 1 ELSE 0
    <2>1. i - 1 \in 0 .. n - 1 /\ i - 1 < LineDots /\ (i - 1) + 1 = i
      BY <1>1
    <2>2. i - 1 \in Black(l, n) <=> l.row[i] = 1
      BY <2>1 DEF Black
    <2> QED
      BY <1>1, <2>2
  <1> QED
    BY <1>1, <1>2 DEF Row

\* A byte of a line is decoded as it is drawn.
LEMMA ByteReads ==
  ASSUME NEW places, NEW lines, NEW effects, NEW ends,
         Sound(places, lines, effects, ends), StreamTypes,
         Reads(places, lines, effects, ends), status = "LineStart",
         NEW l \in lines, NEW i \in 0 .. Len(l.bytes) - 1, InLine(l, i, places, effects),
         stream' = From(stream, 1), UNCHANGED <<broken, zipData>>, pageNum' = pageNum,
         dots' = l.col[i + 1], half' = l.due[i + 1],
         half' => dotValue' = (l.bytes[i + 1] > Flag),
         black' = Black(l, l.col[i + 1]),
         dots' >= LineDots =>
           status' = "Idle" /\ out' = Append(out, Effect("Line", pageNum, Row(black'))),
         dots' < LineDots => UNCHANGED <<status, out>>
  PROVE  Reads(places, lines, effects, ends)'
  <1> DEFINE n == Len(l.bytes) - i
  <1>1. Draws(l) /\ FormatTypes /\ stream \in Seq(Byte)
    BY DEF Sound, Reading, StreamTypes
  <1>2. /\ Len(l.bytes) \in Nat \ {0} /\ l.col[i + 1] \in Nat /\ LineDots \in Nat
        /\ l.col[i + 1] >= LineDots <=> i + 1 = Len(l.bytes)
    BY <1>1, FullAtEnd, Constant
  <1>3. /\ n <= Len(stream) /\ \A x \in 1..n : stream[x] = l.bytes[i + x]
        /\ Due(effects, Len(out), Effect("Line", pageNum, l.row))
        /\ Place(From(stream, n), pageNum, Len(out) + 1) \in places
    BY DEF InLine, Rest, From
  <1>4. n \in Nat \ {0} /\ Len(stream) \in Nat
    BY <1>1, <1>2
  <1> HIDE DEF n
  <1>5. Begun(effects) /\ ~broken /\ zipData = <<>>
    BY DEF Reads
  <1>6. CASE dots' >= LineDots
    <2>1. n = 1
      BY <1>2, <1>6 DEF n
    <2>2. Row(black') = l.row
      BY <1>1, <1>2, <1>6, RowDrawn
    <2>3. Begun(effects)' /\ Len(out') = Len(out) + 1
      BY <1>3, <1>5, <1>6, <2>2, EffectDone DEF Sound
    <2>4. Place(stream, pageNum, Len(out))' \in places
      BY <1>3, <2>1, <2>3 DEF Place
    <2> QED
      BY <1>5, <1>6, <2>3, <2>4 DEF Reads, Op, Settings
  <1>7. CASE dots' < LineDots
    <2> DEFINE m == Len(l.bytes) - (i + 1)
    <2>1. m \in Nat /\ n = m + 1 /\ i + 1 < Len(l.bytes) /\ i + 1 > 0 /\ i + 1 \in 0..Len(l.bytes)
      BY <1>2, <1>7 DEF n
    <2>2. /\ stream' \in Seq(Byte) /\ Len(stream') = Len(stream) - 1
          /\ \A x \in 1..Len(stream) - 1 : stream'[x] = stream[x + 1]
      <3>1. 1 <= Len(stream) /\ 1 \in Nat
        BY <1>3, <1>4
      <3> QED
        BY <1>1, <3>1, FromTyped
    <2>3. m <= Len(stream')
      BY <1>3, <1>4, <2>1, <2>2
    <2>4. ASSUME NEW x \in 1..m PROVE stream'[x] = l.bytes[(i + 1) + x]
      <3>1. x + 1 \in 1..n /\ x \in 1..Len(stream) - 1 /\ i + (x + 1) = (i + 1) + x
        BY <1>3, <1>4, <2>1
      <3> QED
        BY <1>3, <2>2, <3>1
    <2>5. From(stream', m) = From(stream, n)
      <3>1. 1 + m = n /\ 1 + m <= Len(stream)
        BY <1>3, <1>4, <2>1
      <3> QED
        BY <1>1, <2>1, <3>1, RestOfRest
    <2> HIDE DEF m
    <2>6. Due(effects, Len(out), Effect("Line", pageNum, l.row))'
      BY <1>3, <1>7 DEF Due, Effect
    <2>7. Place(Rest(m), pageNum, Len(out) + 1)' \in places
      BY <1>3, <1>7, <2>5 DEF Rest, From
    <2>8. InLine(l, i + 1, places, effects)'
      <3>1. /\ i + 1 < Len(l.bytes) /\ m <= Len(stream')
            /\ \A x \in 1..m : stream'[x] = l.bytes[(i + 1) + x]
        BY <2>1, <2>3, <2>4
      <3>2. half' => i + 1 > 0 /\ dotValue' = (l.bytes[i + 1] > Flag)
        BY <2>1
      <3>3. black' = {d \in 0 .. dots' - 1 : d < LineDots /\ l.row[d + 1] = 1}
        BY DEF Black
      <3> QED
        BY <2>6, <2>7, <3>1, <3>2, <3>3 DEF InLine, m
    <2>9. Begun(effects)'
      BY <1>5, <1>7 DEF Begun
    <2> QED
      BY <1>5, <1>7, <2>1, <2>8, <2>9 DEF Reads
  <1>8. dots' >= LineDots \/ dots' < LineDots
    BY <1>2
  <1> QED
    BY <1>6, <1>7, <1>8

\* Byte i + 1 of line l is next.
AtByte(l, i, places, effects) ==
  /\ Draws(l) /\ InLine(l, i, places, effects)
  /\ Head(stream) = l.bytes[i + 1] /\ black = Black(l, dots)

LEMMA LineHere ==
  ASSUME NEW places, NEW lines, NEW effects, NEW ends,
         Sound(places, lines, effects, ends), StreamTypes,
         Reads(places, lines, effects, ends), status = "LineStart"
  PROVE  \E l \in lines : \E i \in 0 .. Len(l.bytes) - 1 :
           AtByte(l, i, places, effects)
  <1>1. PICK l \in lines : \E i \in 0..Len(l.bytes) : InLine(l, i, places, effects)
    BY DEF Reads
  <1>2. PICK i \in 0..Len(l.bytes) : InLine(l, i, places, effects)
    BY <1>1
  <1>3. Draws(l) /\ Len(l.bytes) \in Nat /\ stream \in Seq(Byte)
    <2>1. Draws(l)
      BY DEF Sound, Reading
    <2>2. l.bytes \in Seq(Byte)
      BY <2>1 DEF Draws
    <2>3. stream \in Seq(Byte)
      BY DEF StreamTypes
    <2> QED
      BY <2>1, <2>2, <2>3
  <1>4. /\ i < Len(l.bytes) /\ Len(l.bytes) - i <= Len(stream)
        /\ \A x \in 1..Len(l.bytes) - i : stream[x] = l.bytes[i + x]
        /\ black = Black(l, dots)
    BY <1>2 DEF InLine, Black
  <1>5. i \in 0 .. Len(l.bytes) - 1 /\ 1 \in 1..Len(l.bytes) - i /\ Len(stream) > 0
    BY <1>3, <1>4
  <1>6. Head(stream) = stream[1]
    BY <1>3, <1>5
  <1>7. AtByte(l, i, places, effects)
    BY <1>2, <1>3, <1>4, <1>5, <1>6 DEF AtByte
  <1> QED
    BY <1>5, <1>7

LEMMA GrowSplit ==
  ASSUME NEW n, Grow(n)
  PROVE  /\ dots' = n /\ pageNum' = pageNum
         /\ n >= LineDots =>
              status' = "Idle" /\ out' = Append(out, Effect("Line", pageNum, Row(black')))
         /\ ~(n >= LineDots) => UNCHANGED <<status, out>>
  BY DEF Grow

LEMMA DotReads ==
  ASSUME NEW places, NEW lines, NEW effects, NEW ends,
         Sound(places, lines, effects, ends), StreamTypes,
         Reads(places, lines, effects, ends), Dot
  PROVE  Reads(places, lines, effects, ends)'
  <1> DEFINE b == Head(stream)
  <1>1. /\ status = "LineStart" /\ half = FALSE /\ half' = FALSE /\ stream' = From(stream, 1) /\ b < Flag
        /\ black' = (IF b > 0 /\ dots < LineDots THEN black \cup {dots} ELSE black)
        /\ Grow(dots + 1) /\ UNCHANGED <<broken, zipData>>
    BY DEF Dot, Consume, Rest, From, zipVars, StreamTypes
  <1>0. PICK l \in lines : \E i \in 0 .. Len(l.bytes) - 1 : AtByte(l, i, places, effects)
    BY <1>1, LineHere
  <1> PICK i \in 0 .. Len(l.bytes) - 1 : AtByte(l, i, places, effects)
    BY <1>0
  <1>2. /\ Draws(l) /\ InLine(l, i, places, effects)
        /\ b = l.bytes[i + 1] /\ black = Black(l, dots)
    BY DEF AtByte
  <1>3. FormatTypes /\ dots = l.col[i] /\ half = l.due[i]
    BY <1>2 DEF InLine, Sound
  <1>4. /\ l.col[i] \in Nat /\ l.col[i + 1] \in Nat /\ l.due[i + 1] \in BOOLEAN
        /\ l.col[i] < LineDots /\ DrawsByte(l, i + 1) /\ LineDots \in Nat /\ Flag \in Nat
        /\ l.bytes[i + 1] \in Nat /\ i \in Int
    BY <1>2, <1>3, FullAtEnd, Constant
  <1>5. (i + 1) - 1 = i
    BY <1>4
  <1>6. l.due[i + 1] = FALSE /\ l.col[i + 1] = dots + 1 /\ l.row[dots + 1] = IF b > 0 THEN 1 ELSE 0
    BY <1>1, <1>2, <1>3, <1>4, <1>5 DEF DrawsByte
  <1> HIDE DEF b
  <1>7. black' = Black(l, l.col[i + 1])
    <2>1. dots \in Nat /\ dots < LineDots /\ (l.row[dots + 1] = 1 <=> b > 0)
      BY <1>3, <1>4, <1>6
    <2>2. black' = IF b > 0 THEN black \cup {dots} ELSE black
      BY <1>1, <2>1
    <2>3. Black(l, dots + 1) = IF b > 0 THEN black \cup {dots} ELSE black
      BY <1>2, <1>4, <2>1, NextDot
    <2> QED
      BY <1>6, <2>2, <2>3
  <1>8. /\ dots' = l.col[i + 1] /\ pageNum' = pageNum /\ half' = l.due[i + 1]
        /\ dots' >= LineDots =>
             status' = "Idle" /\ out' = Append(out, Effect("Line", pageNum, Row(black')))
        /\ dots' < LineDots => UNCHANGED <<status, out>>
    <2>1. dots' = dots + 1 /\ dots' = l.col[i + 1] /\ pageNum' = pageNum
      BY <1>1, <1>6, GrowSplit
    <2>2. half' = l.due[i + 1]
      BY <1>1, <1>6
    <2>3. dots' < LineDots => ~(dots + 1 >= LineDots)
      BY <1>3, <1>4, <2>1
    <2>4. /\ dots + 1 >= LineDots =>
               status' = "Idle" /\ out' = Append(out, Effect("Line", pageNum, Row(black')))
          /\ ~(dots + 1 >= LineDots) => UNCHANGED <<status, out>>
      BY <1>1, GrowSplit
    <2> QED
      BY <2>1, <2>2, <2>3, <2>4
  <1> QED
    BY <1>1, <1>2, <1>7, <1>8, ByteReads

LEMMA ColourReads ==
  ASSUME NEW places, NEW lines, NEW effects, NEW ends,
         Sound(places, lines, effects, ends), StreamTypes,
         Reads(places, lines, effects, ends), Colour
  PROVE  Reads(places, lines, effects, ends)'
  <1> DEFINE b == Head(stream)
  <1>1. /\ status = "LineStart" /\ half = FALSE /\ half' = TRUE /\ stream' = From(stream, 1)
        /\ b >= Flag /\ dotValue' = (b > Flag) /\ black' = black /\ dots' = dots
        /\ UNCHANGED <<broken, zipData, status, out, pageNum>>
    BY DEF Colour, Consume, Rest, From, zipVars, pageVars, StreamTypes
  <1>0. PICK l \in lines : \E i \in 0 .. Len(l.bytes) - 1 : AtByte(l, i, places, effects)
    BY <1>1, LineHere
  <1> PICK i \in 0 .. Len(l.bytes) - 1 : AtByte(l, i, places, effects)
    BY <1>0
  <1>2. /\ Draws(l) /\ InLine(l, i, places, effects)
        /\ b = l.bytes[i + 1] /\ black = Black(l, dots)
    BY DEF AtByte
  <1>3. FormatTypes /\ dots = l.col[i] /\ half = l.due[i]
    BY <1>2 DEF InLine, Sound
  <1>4. /\ l.col[i] \in Nat /\ l.col[i + 1] \in Nat /\ l.due[i + 1] \in BOOLEAN
        /\ l.col[i] < LineDots /\ DrawsByte(l, i + 1) /\ LineDots \in Nat /\ Flag \in Nat
        /\ l.bytes[i + 1] \in Nat /\ i \in Int
    BY <1>2, <1>3, FullAtEnd, Constant
  <1>5. (i + 1) - 1 = i
    BY <1>4
  <1>6. l.due[i + 1] = TRUE /\ l.col[i + 1] = dots
    BY <1>1, <1>2, <1>3, <1>4, <1>5 DEF DrawsByte
  <1> HIDE DEF b
  <1>7. /\ dots' = l.col[i + 1] /\ half' = l.due[i + 1] /\ ~(dots' >= LineDots)
        /\ black' = Black(l, l.col[i + 1]) /\ (half' => dotValue' = (l.bytes[i + 1] > Flag))
    <2>1. dots' = l.col[i + 1]
      BY <1>1, <1>6
    <2>2. half' = l.due[i + 1]
      BY <1>1, <1>6
    <2>3. dots' \in Nat /\ dots' < LineDots
      BY <1>1, <1>3, <1>4
    <2>4. black' = Black(l, l.col[i + 1])
      BY <1>1, <1>2, <1>6
    <2>5. dotValue' = (l.bytes[i + 1] > Flag)
      BY <1>1, <1>2
    <2> QED
      BY <1>4, <2>1, <2>2, <2>3, <2>4, <2>5
  <1> QED
    BY <1>1, <1>2, <1>7, ByteReads

LEMMA RepeatReads ==
  ASSUME NEW places, NEW lines, NEW effects, NEW ends,
         Sound(places, lines, effects, ends), StreamTypes,
         Reads(places, lines, effects, ends), Repeat
  PROVE  Reads(places, lines, effects, ends)'
  <1> DEFINE b == Head(stream)
             end == dots + b + 1
  <1>1. /\ status = "LineStart" /\ half = TRUE /\ half' = FALSE /\ stream' = From(stream, 1)
        /\ black' = (IF dotValue THEN black \cup {d \in dots .. end - 1 : d < LineDots} ELSE black)
        /\ Grow(end) /\ UNCHANGED <<broken, zipData>>
    BY DEF Repeat, Consume, Rest, From, zipVars, StreamTypes
  <1>0. PICK l \in lines : \E i \in 0 .. Len(l.bytes) - 1 : AtByte(l, i, places, effects)
    BY <1>1, LineHere
  <1> PICK i \in 0 .. Len(l.bytes) - 1 : AtByte(l, i, places, effects)
    BY <1>0
  <1>2. /\ Draws(l) /\ InLine(l, i, places, effects)
        /\ b = l.bytes[i + 1] /\ black = Black(l, dots)
    BY DEF AtByte
  <1>3. FormatTypes /\ dots = l.col[i] /\ half = l.due[i] /\ dotValue = (l.bytes[i] > Flag)
    BY <1>1, <1>2 DEF InLine, Sound
  <1>4. /\ l.col[i] \in Nat /\ l.col[i + 1] \in Nat /\ l.due[i + 1] \in BOOLEAN
        /\ l.col[i] < LineDots /\ DrawsByte(l, i + 1) /\ LineDots \in Nat /\ Flag \in Nat
        /\ l.bytes[i + 1] \in Nat /\ i \in Int
    BY <1>2, <1>3, FullAtEnd, Constant
  <1>5. (i + 1) - 1 = i
    BY <1>4
  <1>6. /\ l.due[i + 1] = FALSE /\ l.col[i + 1] = end
        /\ \A d \in dots .. end - 1 :
             d < LineDots => l.row[d + 1] = IF dotValue THEN 1 ELSE 0
    BY <1>1, <1>2, <1>3, <1>4, <1>5 DEF DrawsByte
  <1>7. dots \in Nat /\ b \in Nat /\ end \in Nat /\ dots <= end
    BY <1>2, <1>3, <1>4
  <1> HIDE DEF b, end
  <1>8. black' = Black(l, l.col[i + 1])
    <2>1. CASE dotValue
      BY <1>1, <1>2, <1>4, <1>6, <1>7, <2>1 DEF Black
    <2>2. CASE ~dotValue
      BY <1>1, <1>2, <1>4, <1>6, <1>7, <2>2 DEF Black
    <2> QED
      BY <2>1, <2>2
  <1>9. /\ dots' = l.col[i + 1] /\ pageNum' = pageNum /\ half' = l.due[i + 1]
        /\ dots' >= LineDots =>
             status' = "Idle" /\ out' = Append(out, Effect("Line", pageNum, Row(black')))
        /\ dots' < LineDots => UNCHANGED <<status, out>>
    <2>1. dots' = end /\ dots' = l.col[i + 1] /\ pageNum' = pageNum
      BY <1>1, <1>6, GrowSplit
    <2>2. half' = l.due[i + 1]
      BY <1>1, <1>6
    <2>3. dots' < LineDots => ~(end >= LineDots)
      BY <1>4, <1>7, <2>1
    <2>4. /\ end >= LineDots =>
               status' = "Idle" /\ out' = Append(out, Effect("Line", pageNum, Row(black')))
          /\ ~(end >= LineDots) => UNCHANGED <<status, out>>
      BY <1>1, GrowSplit
    <2> QED
      BY <2>1, <2>2, <2>3, <2>4
  <1> QED
    BY <1>1, <1>2, <1>8, <1>9, ByteReads

----------------------------------------------------------------------------

\* A stream that is read as its job means it goes on so.
LEMMA ReadsNext ==
  ASSUME NEW places, NEW lines, NEW effects, NEW ends
  PROVE  Sound(places, lines, effects, ends) /\ StreamTypes
           /\ Reads(places, lines, effects, ends) /\ [Next]_vars
             => Reads(places, lines, effects, ends)'
  <1> SUFFICES ASSUME Sound(places, lines, effects, ends), StreamTypes,
                      Reads(places, lines, effects, ends), [Next]_vars
               PROVE  Reads(places, lines, effects, ends)'
    OBVIOUS
  <1>1. CASE \E op \in Op : Find(op)
    BY <1>1, FindReads
  <1>2. CASE Skip
    BY <1>2, SkipReads
  <1>3. CASE \E s \in Settings : Set(s)
    BY <1>3, SetReads
  <1>4. CASE \E op \in {"PageStart", "LineEnd", "PageEnd"} : Mark(op)
    BY <1>4, MarkReads
  <1>5. CASE Dot \/ Colour \/ Repeat
    BY <1>5, DotReads, ColourReads, RepeatReads
  <1>6. CASE Block
    <2>1. ~GiveUp
      BY DEF GiveUp, Reads
    <2> QED
      BY <1>6, <2>1, SizeReads, CollectReads, ExpandReads DEF Block
  <1>7. CASE UNCHANGED vars
    <2>1. /\ stream' = stream /\ status' = status /\ half' = half /\ dotValue' = dotValue
          /\ dots' = dots /\ black' = black /\ zipSize' = zipSize /\ zipData' = zipData
          /\ broken' = broken /\ pageNum' = pageNum /\ out' = out
      BY <1>7 DEF vars, lineVars, zipVars, pageVars
    <2> QED
      BY <2>1 DEF Reads, Begun, InLine, InBlock, First, Rest
  <1> QED
    BY <1>1, <1>2, <1>3, <1>4, <1>5, <1>6, <1>7 DEF Next
=============================================================================
