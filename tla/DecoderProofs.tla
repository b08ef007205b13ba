----------------------------- MODULE DecoderProofs -----------------------------
(***************************************************************************)
(* Theorems about Decoder for all heads, packets, jobs and line lengths,   *)
(* and for every inflate() that returns bytes.                             *)
(*                                                                         *)
(* Bounds: the number of dots is bounded only while a line is being        *)
(* decoded (LineInv); that every way out of a line, an inflate error in    *)
(* its middle among them, leaves the bound true is what makes the types    *)
(* inductive.                                                              *)
(*                                                                         *)
(* The stream: what is buffered, what a block still holds and what is not  *)
(* sent yet are one CommandStream, wherever the cuts are.                  *)
(*                                                                         *)
(* The order: the decoder stays in the meaning of a job that can be read   *)
(* (JobReading), and no packet reaches past a block that is still to come. *)
(***************************************************************************)
EXTENDS Decoder, JobReading, SequenceTheorems, TLAPS

\* What inflate() returns.
InflateTyped ==
  \A data \in Seq(Byte) : Inflate(data).bytes \in Seq(Byte) /\ Inflate(data).ok \in BOOLEAN

\* A line that is still being decoded is not full.
LineInv == status = "LineStart" => dots < LineDots

InputTypes ==
  /\ job \in Jobs /\ sent \in 0..Len(job.bytes)
  /\ buf \in Seq(Byte) /\ ret \in BOOLEAN /\ status \in Status

LineTypes ==
  /\ half \in BOOLEAN /\ dotValue \in BOOLEAN
  /\ dots \in 0 .. LineDots + 2 * Flag - 1 /\ \A d \in black : d \in Nat

ZipTypes ==
  /\ zipSize \in Nat /\ zipData \in Seq(Byte)
  /\ unzip \in {"no", "inflate", "last"} /\ zipOut \in Seq(Byte) /\ zipOk \in BOOLEAN

PageTypes == pageNum \in Nat /\ lines \in Nat

IInv == InputTypes /\ LineTypes /\ ZipTypes /\ PageTypes /\ LineInv /\ DotsInLine

----------------------------------------------------------------------------

LEMMA Constants ==
  /\ LineDots \in Nat \ {0} /\ Flag \in Nat \ {0} /\ DecodeMax \in Nat \ {0} /\ MaxPacket \in Nat
  /\ \A op \in Op : Len(Heads[op]) \in Nat
  /\ \A s \in Settings : Width[s] \in Nat /\ Need[s] \in Nat /\ Width[s] <= Need[s]
  /\ \A j \in Jobs : j.bytes \in Seq(Byte)
  BY DecoderAssumption DEF DecoderAssumption

\* A piece of a byte string is one.
LEMMA Piece ==
  ASSUME NEW s \in Seq(Byte), NEW a \in Nat, NEW b \in Nat, a > 0, b <= Len(s)
  PROVE  SubSeq(s, a, b) \in Seq(Byte)
  BY SubSeqProperties

LEMMA RestTyped ==
  ASSUME buf \in Seq(Byte), NEW n \in Nat
  PROVE  Rest(n) \in Seq(Byte)
  BY Piece DEF Rest

----------------------------------------------------------------------------
(* Every step keeps the invariant                                          *)

\* The buffer and the packet.
LEMMA InputNext == IInv /\ [Next]_vars => InputTypes'
  <1> SUFFICES ASSUME IInv, [Next]_vars PROVE InputTypes'
    OBVIOUS
  <1>a. InputTypes /\ ZipTypes
    BY DEF IInv
  <1> USE Constants, <1>a DEF lineVars, zipVars, pageVars
  <1>1. CASE Deliver
    <2>0. PICK n \in 1..MaxPacket : /\ sent + n <= Len(job.bytes)
                                    /\ buf' = buf \o SubSeq(job.bytes, sent + 1, sent + n)
                                    /\ sent' = sent + n
      BY <1>1 DEF Deliver, Realloc
    <2>1. job.bytes \in Seq(Byte) /\ sent \in Nat
      BY DEF InputTypes
    <2>2. SubSeq(job.bytes, sent + 1, sent + n) \in Seq(Byte)
      BY <2>0, <2>1, Piece
    <2>3. buf' \in Seq(Byte)
      BY <2>0, <2>2, ConcatProperties DEF InputTypes
    <2>4. UNCHANGED <<job, status>> /\ ret' = FALSE
      BY <1>1 DEF Deliver, Realloc
    <2>5. sent' \in 0..Len(job.bytes)
      BY <2>0, <2>1
    <2> QED
      BY <2>3, <2>4, <2>5 DEF InputTypes
  <1>2. CASE IdleFound \/ IdleSkip \/ LineByte \/ LineRepeat
    <2>1. buf' \in Seq(Byte) /\ UNCHANGED <<job, sent, ret>>
      BY <1>2, RestTyped DEF IdleFound, IdleSkip, LineByte, LineRepeat, Consume, InputTypes, Found
    <2>2. status' \in Status
      BY <1>2 DEF IdleFound, IdleSkip, LineByte, LineRepeat, Grow, InputTypes, Found, Status
    <2> QED
      BY <2>1, <2>2 DEF InputTypes
  <1>3. CASE \E s \in Settings : Set(s)
    <2>1. PICK s \in Settings : Set(s)
      BY <1>3
    <2>2. buf' \in Seq(Byte) /\ UNCHANGED <<job, sent, ret>>
      BY <2>1, RestTyped DEF Set, Consume, InputTypes
    <2> QED
      BY <2>1, <2>2 DEF Set, InputTypes, Status
  <1>4. CASE CommandZipSize
    <2>1. buf' \in Seq(Byte) /\ UNCHANGED <<job, sent, ret>>
      BY <1>4, RestTyped DEF CommandZipSize, Consume, InputTypes
    <2> QED
      BY <1>4, <2>1 DEF CommandZipSize, InputTypes, Status
  <1>5. CASE CommandZipFetchData
    <2> DEFINE missing == zipSize - Len(zipData)
               n == IF Len(buf) < missing THEN Len(buf) ELSE missing
    <2>1. n \in Nat /\ buf' = Rest(n)
      BY <1>5 DEF CommandZipFetchData, InputTypes, ZipTypes
    <2>2. buf' \in Seq(Byte)
      BY <2>1, RestTyped DEF InputTypes
    <2>3. UNCHANGED <<job, sent>> /\ ret' \in BOOLEAN /\ status' \in Status
      BY <1>5 DEF CommandZipFetchData, InputTypes, Status
    <2> QED
      BY <2>2, <2>3 DEF InputTypes
  <1>6. CASE ZipDecode
    <2> DEFINE n == IF Len(zipOut) < DecodeMax THEN Len(zipOut) ELSE DecodeMax
    <2>1. n \in Nat /\ n <= Len(zipOut) /\ buf' = buf \o SubSeq(zipOut, 1, n)
      BY <1>6 DEF ZipDecode, Realloc, ZipTypes
    <2>2. buf' \in Seq(Byte)
      BY <2>1, Piece, ConcatProperties DEF InputTypes, ZipTypes
    <2>3. UNCHANGED <<job, sent, status>> /\ ret' = FALSE
      BY <1>6 DEF ZipDecode, Realloc
    <2> QED
      BY <2>2, <2>3 DEF InputTypes
  <1>7. CASE \/ PrintLine \/ ReturnModle \/ CommandSetPageStart \/ CommandSetLineEnd
               \/ CommandSetPageEnd \/ ZipDecodeFails \/ ZipDone
    BY <1>7 DEF PrintLine, ReturnModle, CommandSetPageStart, CommandSetLineEnd, CommandSetPageEnd,
       ZipDecodeFails, ZipDone, InputTypes, Status
  <1>8. CASE UNCHANGED vars
    BY <1>8 DEF vars, InputTypes, Status
  <1> QED
    BY <1>1, <1>2, <1>3, <1>4, <1>5, <1>6, <1>7, <1>8
       DEF Next, Decode

\* A line ends where its dots reach its end.
LEMMA LineNext == IInv /\ [Next]_vars => (LineTypes /\ LineInv /\ DotsInLine)'
  <1> SUFFICES ASSUME IInv, [Next]_vars PROVE (LineTypes /\ LineInv /\ DotsInLine)'
    OBVIOUS
  <1>a. InputTypes /\ LineTypes /\ LineInv /\ DotsInLine
    BY DEF IInv
  <1> USE Constants, <1>a DEF lineVars, zipVars, pageVars
  <1>1. CASE IdleFound
    <2>1. CASE status' = "LineStart"
      <3>1. dots' = 0 /\ black' = {} /\ half' = FALSE /\ UNCHANGED dotValue
        BY <1>1, <2>1 DEF IdleFound
      <3>2. dots' \in 0 .. LineDots + 2 * Flag - 1
        BY <3>1
      <3>3. half' \in BOOLEAN /\ dotValue' \in BOOLEAN
        BY <3>1 DEF LineTypes
      <3>4. \A d \in black' : d \in Nat /\ d < LineDots
        BY <3>1
      <3>5. dots' < LineDots
        BY <3>1
      <3> QED
        BY <3>2, <3>3, <3>4, <3>5 DEF LineTypes, LineInv, DotsInLine
    <2>2. CASE status' # "LineStart"
      BY <1>1, <2>2 DEF IdleFound, LineTypes, LineInv, DotsInLine
    <2> QED
      BY <2>1, <2>2
  <1>2. CASE LineByte
    <2>1. Head(buf) \in Nat /\ dots \in Nat /\ dots < LineDots
      BY <1>2 DEF LineByte, InputTypes, LineTypes, LineInv, Byte
    <2>2. dots' \in {dots, dots + 1} /\ half' \in BOOLEAN
      BY <1>2, <2>1 DEF LineByte, Grow, LineTypes
    <2>3. dotValue' \in BOOLEAN
      <3>1. CASE Head(buf) > Flag
        BY <1>2, <2>1, <3>1 DEF LineByte, LineTypes
      <3>2. CASE ~(Head(buf) > Flag)
        BY <1>2, <2>1, <3>2 DEF LineByte, LineTypes
      <3> QED
        BY <3>1, <3>2
    <2>4. \A d \in black' : d \in Nat /\ d < LineDots
      BY <1>2, <2>1 DEF LineByte, LineTypes, DotsInLine
    <2>5. dots' \in 0 .. LineDots + 2 * Flag - 1
      BY <2>1, <2>2
    <2>6. LineInv'
      BY <1>2, <2>1 DEF LineByte, Grow, LineInv
    <2> QED
      BY <2>2, <2>3, <2>4, <2>5, <2>6 DEF LineTypes, DotsInLine
  <1>3. CASE LineRepeat
    <2>1. Head(buf) \in Byte /\ dots \in Nat /\ dots < LineDots
      BY <1>3 DEF LineRepeat, InputTypes, LineTypes, LineInv
    <2>2. dots' = dots + Head(buf) + 1 /\ half' = FALSE /\ UNCHANGED dotValue
      BY <1>3 DEF LineRepeat, Grow
    <2>3. dots' \in 0 .. LineDots + 2 * Flag - 1
      BY <2>1, <2>2 DEF Byte
    <2>4. \A d \in black' : d \in Nat /\ d < LineDots
      BY <1>3, <2>1 DEF LineRepeat, LineTypes, DotsInLine, Byte
    <2>5. LineInv'
      BY <1>3, <2>2 DEF LineRepeat, Grow, LineInv
    <2> QED
      BY <2>2, <2>3, <2>4, <2>5 DEF LineTypes, DotsInLine
  <1>4. CASE \/ Deliver \/ PrintLine \/ IdleSkip \/ ReturnModle
               \/ (\E s \in Settings : Set(s)) \/ CommandSetPageStart \/ CommandSetLineEnd
               \/ CommandSetPageEnd \/ CommandZipSize \/ CommandZipFetchData \/ ZipDecode
               \/ ZipDecodeFails \/ ZipDone
    BY <1>4 DEF Deliver, PrintLine, IdleSkip, ReturnModle, Set, CommandSetPageStart,
       CommandSetLineEnd, CommandSetPageEnd, CommandZipSize, CommandZipFetchData, ZipDecode,
       ZipDecodeFails, ZipDone, LineTypes, LineInv, DotsInLine, Settings
  <1>5. CASE UNCHANGED vars
    BY <1>5 DEF vars, LineTypes, LineInv, DotsInLine, Settings
  <1> QED
    BY <1>1, <1>2, <1>3, <1>4, <1>5
       DEF Next, Decode

\* A compressed block and what it inflates to.
LEMMA ZipNext == InflateTyped /\ IInv /\ [Next]_vars => ZipTypes'
  <1> SUFFICES ASSUME InflateTyped, IInv, [Next]_vars PROVE ZipTypes'
    OBVIOUS
  <1>a. InputTypes /\ ZipTypes
    BY DEF IInv
  <1> USE Constants, <1>a DEF lineVars, zipVars, pageVars
  <1>1. CASE CommandZipSize
    <2>1. buf[1] \in Nat /\ buf[2] \in Nat
      BY <1>1, SMTT(20) DEF CommandZipSize, InputTypes, Byte
    <2>2. zipSize' \in Nat
      BY <1>1, <2>1 DEF CommandZipSize
    <2> QED
      BY <1>1, <2>2 DEF CommandZipSize, ZipTypes
  <1>2. CASE CommandZipFetchData
    <2> DEFINE missing == zipSize - Len(zipData)
               n == IF Len(buf) < missing THEN Len(buf) ELSE missing
    <2>1. n \in Nat /\ n <= Len(buf) /\ zipData' = zipData \o First(n)
      BY <1>2 DEF CommandZipFetchData, InputTypes, ZipTypes
    <2>2. zipData' \in Seq(Byte)
      BY <2>1, Piece, ConcatProperties DEF InputTypes, ZipTypes, First
    <2>3. Inflate(zipData').bytes \in Seq(Byte) /\ Inflate(zipData').ok \in BOOLEAN
      BY <2>2 DEF InflateTyped
    <2>4. \/ /\ unzip' = "inflate"
             /\ zipOut' = Inflate(zipData').bytes /\ zipOk' = Inflate(zipData').ok
          \/ UNCHANGED <<unzip, zipOut, zipOk>>
      BY <1>2 DEF CommandZipFetchData
    <2>5. UNCHANGED zipSize
      BY <1>2 DEF CommandZipFetchData
    <2> QED
      BY <2>2, <2>3, <2>4, <2>5 DEF ZipTypes
  <1>3. CASE ZipDecode
    <2> DEFINE n == IF Len(zipOut) < DecodeMax THEN Len(zipOut) ELSE DecodeMax
    <2>1. n \in Nat /\ zipOut' = SubSeq(zipOut, n + 1, Len(zipOut))
      BY <1>3 DEF ZipDecode, ZipTypes
    <2>2. zipOut' \in Seq(Byte)
      BY <2>1, Piece DEF ZipTypes
    <2>3. unzip' \in {"last", "inflate"} /\ UNCHANGED <<zipSize, zipData, zipOk>>
      BY <1>3 DEF ZipDecode
    <2> QED
      BY <2>2, <2>3 DEF ZipTypes
  <1>4. CASE ZipDecodeFails \/ ZipDone
    BY <1>4, EmptySeq DEF ZipDecodeFails, ZipDone, ZipTypes
  <1>5. CASE \/ Deliver \/ PrintLine \/ IdleFound \/ IdleSkip \/ ReturnModle
               \/ (\E s \in Settings : Set(s)) \/ CommandSetPageStart \/ CommandSetLineEnd
               \/ CommandSetPageEnd \/ LineByte \/ LineRepeat
    BY <1>5 DEF Deliver, PrintLine, IdleFound, IdleSkip, ReturnModle, Set, CommandSetPageStart,
       CommandSetLineEnd, CommandSetPageEnd, LineByte, LineRepeat, ZipTypes
  <1>6. CASE UNCHANGED vars
    BY <1>6 DEF vars, ZipTypes
  <1> QED
    BY <1>1, <1>2, <1>3, <1>4, <1>5, <1>6
       DEF Next, Decode

\* The page and the print list.
LEMMA PageNext == IInv /\ [Next]_vars => PageTypes'
  <1> SUFFICES ASSUME IInv, [Next]_vars PROVE PageTypes'
    OBVIOUS
  <1>a. PageTypes
    BY DEF IInv
  <1> USE Constants, <1>a DEF lineVars, zipVars, pageVars
  <1>1. CASE PrintLine
    BY <1>1 DEF PrintLine, PageTypes, Grow
  <1>2. CASE CommandSetPageEnd
    BY <1>2 DEF CommandSetPageEnd, PageTypes, Grow
  <1>3. CASE LineByte \/ LineRepeat
    BY <1>3 DEF LineByte, LineRepeat, PageTypes, Grow
  <1>4. CASE \/ Deliver \/ IdleFound \/ IdleSkip \/ ReturnModle
               \/ (\E s \in Settings : Set(s)) \/ CommandSetPageStart \/ CommandSetLineEnd
               \/ CommandZipSize \/ CommandZipFetchData \/ ZipDecode \/ ZipDecodeFails
               \/ ZipDone
    BY <1>4 DEF Deliver, IdleFound, IdleSkip, ReturnModle, Set, CommandSetPageStart,
       CommandSetLineEnd, CommandZipSize, CommandZipFetchData, ZipDecode, ZipDecodeFails, ZipDone,
       PageTypes, Grow
  <1>5. CASE UNCHANGED vars
    BY <1>5 DEF vars, PageTypes, Grow
  <1> QED
    BY <1>1, <1>2, <1>3, <1>4, <1>5
       DEF Next, Decode

----------------------------------------------------------------------------
(* The theorems                                                            *)

LEMMA InvInit == Init => IInv
  <1> SUFFICES ASSUME Init PROVE IInv
    OBVIOUS
  <1> USE Constants DEF Init
  <1>1. job.bytes \in Seq(Byte) /\ job \in Jobs /\ sent \in 0..Len(job.bytes)
    OBVIOUS
  <1>2. InputTypes
    BY <1>1 DEF InputTypes, Status
  <1>3. dots \in 0 .. LineDots + 2 * Flag - 1
    OBVIOUS
  <1>4. LineTypes /\ LineInv /\ DotsInLine
    BY <1>3 DEF LineTypes, LineInv, DotsInLine
  <1>5. ZipTypes /\ PageTypes
    BY DEF ZipTypes, PageTypes
  <1> QED
    BY <1>2, <1>4, <1>5 DEF IInv

\* The invariant, for every inflate() that returns bytes.
LEMMA Inductive == ASSUME InflateTyped PROVE Spec => []IInv
  <1>1. IInv /\ [Next]_vars => IInv'
    BY InputNext, LineNext, ZipNext, PageNext DEF IInv
  <1> QED
    BY <1>1, InvInit, PTL DEF Spec

\* The decoder keeps its types for every job and every cut: a repetition overruns a line by
\* less than its own length, whatever was decoded before it.
THEOREM TypeCorrect == ASSUME InflateTyped PROVE Spec => []TypeOK
  <1>1. IInv => TypeOK
    BY DEF IInv, TypeOK, InputTypes, LineTypes, ZipTypes, PageTypes
  <1> QED
    BY <1>1, Inductive, PTL

\* No dot is set behind the end of a line, for every length of line and repetition.
THEOREM DotsInLineAlways == ASSUME InflateTyped PROVE Spec => []DotsInLine
  <1>1. IInv => DotsInLine
    BY DEF IInv
  <1> QED
    BY <1>1, Inductive, PTL

----------------------------------------------------------------------------
(* What is carried over                                                    *)

\* Only a decoder that waits for more bytes, or for a block, stops.
LEMMA InitSmall == Init => RemainderSmall
  BY DecoderAssumption DEF Init, RemainderSmall, DecoderAssumption

LEMMA RemainderNext ==
  IInv /\ RemainderSmall /\ [Next]_vars /\ StandsAlone => RemainderSmall'
  <1> SUFFICES ASSUME IInv, RemainderSmall, [Next]_vars, StandsAlone, ret'
               PROVE  RemainderSmall'
    BY DEF RemainderSmall
  <1>1. CASE ReturnModle
    <2>1. Len(buf) \in Nat /\ MaxHead > 1 /\ buf' = buf /\ status' = status
      BY <1>1, DecoderAssumption DEF ReturnModle, IInv, InputTypes, DecoderAssumption
    <2>2. \/ Len(buf) < MaxHead
          \/ status \in Settings /\ Len(buf) < Need[status]
      BY <1>1, <2>1, DecoderAssumption DEF ReturnModle, HeadFits, DecoderAssumption
    <2> QED
      BY <2>1, <2>2 DEF RemainderSmall
  <1>2. CASE CommandZipFetchData
    <2>1. buf' = <<>>
      BY <1>2 DEF CommandZipFetchData, StandsAlone
    <2> QED
      BY <2>1, Constants, DecoderAssumption DEF RemainderSmall, DecoderAssumption
  <1>3. CASE ZipDecodeFails
    BY <1>3 DEF ZipDecodeFails, RemainderSmall
  <1>4. CASE ZipDone \/ PrintLine \/ UNCHANGED vars
    BY <1>4 DEF ZipDone, PrintLine, vars, zipVars, RemainderSmall
  <1>5. CASE \/ Deliver \/ IdleFound \/ IdleSkip \/ (\E s \in Settings : Set(s))
               \/ CommandSetPageStart \/ CommandSetLineEnd \/ CommandSetPageEnd
               \/ LineByte \/ LineRepeat \/ CommandZipSize \/ ZipDecode
    BY <1>5 DEF Deliver, IdleFound, IdleSkip, Set, CommandSetPageStart, CommandSetLineEnd,
       CommandSetPageEnd, LineByte, LineRepeat, CommandZipSize, ZipDecode, Consume, Realloc
  <1> QED
    BY <1>1, <1>2, <1>3, <1>4, <1>5 DEF Next, Decode

\* Whatever is sent, and however it is cut, the command buffer does not grow, as long as the
\* host sends its blocks by themselves.
THEOREM RemainderSmallAlways ==
  ASSUME InflateTyped
  PROVE  Spec /\ BlocksStandAlone => []RemainderSmall
  <1>1. Init => RemainderSmall
    BY InitSmall
  <1>2. IInv /\ RemainderSmall /\ [Next]_vars /\ [StandsAlone]_vars => RemainderSmall'
    <2>1. CASE StandsAlone
      BY <2>1, RemainderNext
    <2>2. CASE UNCHANGED vars
      BY <2>2 DEF vars, zipVars, RemainderSmall
    <2> QED
      BY <2>1, <2>2
  <1> QED
    BY <1>1, <1>2, Inductive, PTL DEF Spec, BlocksStandAlone

----------------------------------------------------------------------------
(* One stream                                                              *)

\* Inflated bytes are there only while a block is decoded.
BlockInv == unzip # "inflate" => zipOut = <<>>

\* What comes behind the command buffer.
Pending == SubSeq(job.bytes, sent + 1, Len(job.bytes))
Behind == Pieces(zipOut, zipOk) \o Pending

----------------------------------------------------------------------------
(* Numbers and sequences                                                   *)

LEMMA NoMultipleBetween ==
  ASSUME NEW m \in Nat \ {0}, NEW d \in Int, -m < m * d, m * d < m
  PROVE  d = 0
  <1>1. ~(d >= 1)
    <2> SUFFICES ASSUME d >= 1 PROVE FALSE
      OBVIOUS
    <2>1. m * (d - 1) >= 0
      OBVIOUS
    <2> QED
      BY <2>1
  <1>2. ~(d <= -1)
    <2> SUFFICES ASSUME d <= -1 PROVE FALSE
      OBVIOUS
    <2>1. m * (-1 - d) >= 0
      OBVIOUS
    <2> QED
      BY <2>1
  <1> QED
    BY <1>1, <1>2

LEMMA ModuloLess ==
  ASSUME NEW m \in Nat \ {0}, NEW a \in Nat, a >= m
  PROVE  (a - m) % m = a % m
  <1> DEFINE q == a \div m
             r == a % m
             q2 == (a - m) \div m
             r2 == (a - m) % m
  <1>1. a = m * q + r /\ q \in Int /\ r \in 0 .. m - 1
    OBVIOUS
  <1>2. a - m = m * q2 + r2 /\ q2 \in Int /\ r2 \in 0 .. m - 1
    OBVIOUS
  <1> HIDE DEF q, r, q2, r2
  <1>3. m * (q2 + 1 - q) = r - r2
    BY <1>1, <1>2
  <1>4. q2 + 1 - q = 0
    BY <1>1, <1>2, <1>3, NoMultipleBetween
  <1>5. r = r2
    BY <1>1, <1>2, <1>3, <1>4
  <1> QED
    BY <1>5 DEF r, r2

LEMMA ModuloSmall ==
  ASSUME NEW m \in Nat \ {0}, NEW a \in Nat
  PROVE  a % m \in Int /\ 0 <= a % m /\ a % m <= a /\ (a < m => a % m = a)
  OBVIOUS

LEMMA CancelLeft ==
  ASSUME NEW S, NEW s \in Seq(S), NEW t \in Seq(S), NEW v \in Seq(S), s \o t = s \o v
  PROVE  t = v
  BY ConcatSimplifications

\* A sequence is its beginning and its rest.
LEMMA Split ==
  ASSUME NEW S, NEW s \in Seq(S), NEW n \in 0..Len(s)
  PROVE  /\ s = SubSeq(s, 1, n) \o SubSeq(s, n + 1, Len(s))
         /\ SubSeq(s, 1, n) \in Seq(S) /\ SubSeq(s, n + 1, Len(s)) \in Seq(S)
         /\ Len(SubSeq(s, 1, n)) = n
  <1>1. Len(s) \in Nat
    OBVIOUS
  <1>2. SubSeq(s, 1, n) \o SubSeq(s, n + 1, Len(s)) = SubSeq(s, 1, Len(s))
    <2>1. 1 \in 1 .. Len(s) + 1 /\ n \in 1 - 1 .. Len(s) /\ Len(s) \in n..Len(s)
      BY <1>1
    <2> QED
      BY <2>1, ConcatAdjacentSubSeq
  <1>3. SubSeq(s, 1, Len(s)) = s
    BY SubSeqFull
  <1>4. \A i \in 1..Len(s) : s[i] \in S
    OBVIOUS
  <1>5. SubSeq(s, 1, n) \in Seq(S) /\ Len(SubSeq(s, 1, n)) = n
    BY <1>1, <1>4, SubSeqProperties
  <1>6. SubSeq(s, n + 1, Len(s)) \in Seq(S)
    BY <1>1, <1>4, SubSeqProperties
  <1> QED
    BY <1>2, <1>3, <1>5, <1>6

\* What is taken from the front of a longer sequence.
LEMMA Front ==
  ASSUME NEW S, NEW s \in Seq(S), NEW t \in Seq(S), NEW n \in 0..Len(s)
  PROVE  /\ n <= Len(s \o t)
         /\ SubSeq(s \o t, 1, n) = SubSeq(s, 1, n)
         /\ SubSeq(s \o t, n + 1, Len(s \o t)) = SubSeq(s, n + 1, Len(s)) \o t
  <1>1. s \o t \in Seq(S) /\ Len(s \o t) = Len(s) + Len(t) /\ Len(s) \in Nat /\ Len(t) \in Nat
    BY ConcatProperties
  <1>2. n \in 0..Len(s \o t)
    BY <1>1
  <1>3. SubSeq(s \o t, 1, n) = SubSeq(s, 1, n)
    <2>1. CASE n = 0
      BY <2>1, SubSeqEmpty
    <2>2. CASE n # 0
      BY <1>1, <2>2, SubSeqOfConcat1
    <2> QED
      BY <2>1, <2>2
  <1> DEFINE a == SubSeq(s, 1, n)
             b == SubSeq(s, n + 1, Len(s))
             c == SubSeq(s \o t, n + 1, Len(s \o t))
  <1>4. a \in Seq(S) /\ b \in Seq(S) /\ s = a \o b
    BY Split
  <1>5. c \in Seq(S) /\ s \o t = a \o c
    BY <1>1, <1>2, <1>3, Split
  <1> HIDE DEF a, b, c
  <1>6. b \o t \in Seq(S) /\ (a \o b) \o t = a \o (b \o t)
    BY <1>4, ConcatAssociative, ConcatProperties
  <1>7. a \o c = a \o (b \o t)
    BY <1>4, <1>5, <1>6
  <1>8. c = b \o t
    BY <1>4, <1>5, <1>6, <1>7, CancelLeft
  <1>9. n <= Len(s \o t)
    BY <1>2
  <1> QED
    BY <1>3, <1>8, <1>9 DEF b, c

----------------------------------------------------------------------------
(* The stream                                                              *)

LEMMA PiecesTyped ==
  ASSUME NEW bytes \in Seq(Byte), NEW ok
  PROVE  Pieces(bytes, ok) \in Seq(Byte)
  <1> DEFINE n == Len(bytes) - (Len(bytes) % DecodeMax)
  <1>1. Len(bytes) \in Nat
    OBVIOUS
  <1>2. n \in 0..Len(bytes)
    <2> DEFINE r == Len(bytes) % DecodeMax
    <2>1. r \in Int /\ 0 <= r /\ r <= Len(bytes)
      BY <1>1, Constants, ModuloSmall, Zenon
    <2> HIDE DEF r
    <2>2. Len(bytes) - r \in 0..Len(bytes)
      BY <1>1, <2>1
    <2> QED
      BY <2>2 DEF r
  <1> HIDE DEF n
  <1>3. SubSeq(bytes, 1, n) \in Seq(Byte)
    BY <1>2, Split
  <1> QED
    BY <1>3 DEF Pieces, n

LEMMA NoPieces == ASSUME NEW ok PROVE Pieces(<<>>, ok) = <<>>
  <1>1. 0 % DecodeMax = 0
    BY Constants, ModuloSmall
  <1> QED
    BY <1>1, SubSeqEmpty DEF Pieces

\* Of the block's bytes, the next piece of DecodeMax bytes comes first.
LEMMA PiecesNext ==
  ASSUME NEW bytes \in Seq(Byte), Len(bytes) >= DecodeMax, NEW ok
  PROVE  Pieces(bytes, ok) =
           SubSeq(bytes, 1, DecodeMax) \o Pieces(SubSeq(bytes, DecodeMax + 1, Len(bytes)), ok)
  <1> DEFINE w == Len(bytes) - (Len(bytes) % DecodeMax)
             rest == SubSeq(bytes, DecodeMax + 1, Len(bytes))
  <1>1. Len(bytes) \in Nat /\ DecodeMax \in Nat \ {0} /\ DecodeMax \in 0..Len(bytes)
    BY Constants
  <1>2. CASE ok
    BY <1>1, <1>2, Split DEF Pieces
  <1>3. CASE ~ok
    <2>1. rest \in Seq(Byte) /\ bytes = SubSeq(bytes, 1, DecodeMax) \o rest
      BY <1>1, Split
    <2>2. Len(rest) = Len(bytes) - DecodeMax
      <3>1. Len(SubSeq(bytes, 1, DecodeMax)) = DecodeMax /\ SubSeq(bytes, 1, DecodeMax) \in Seq(Byte)
        BY <1>1, Split
      <3>2. Len(bytes) = DecodeMax + Len(rest) /\ Len(rest) \in Nat
        BY <2>1, <3>1, ConcatProperties
      <3> QED
        BY <1>1, <3>2
    <2> DEFINE r == Len(bytes) % DecodeMax
    <2>3. Len(rest) % DecodeMax = r
      BY <1>1, <2>2, ModuloLess
    <2>a. Len(rest) \in Nat
      BY <1>1, <2>2
    <2>b. r \in Int /\ 0 <= r /\ r <= Len(rest)
      <3>1. Len(rest) % DecodeMax \in Int /\ 0 <= Len(rest) % DecodeMax
            /\ Len(rest) % DecodeMax <= Len(rest)
        BY <1>1, <2>a, ModuloSmall, Zenon
      <3> HIDE DEF r
      <3> QED
        BY <2>3, <3>1
    <2>c. w = Len(bytes) - r
      OBVIOUS
    <2> HIDE DEF r, w
    <2>4. Len(rest) - (Len(rest) % DecodeMax) = w - DecodeMax
      <3>1. Len(rest) - (Len(rest) % DecodeMax) = Len(rest) - r
        BY <2>3
      <3>2. Len(rest) - r = w - DecodeMax
        BY <1>1, <2>2, <2>b, <2>c
      <3> QED
        BY <3>1, <3>2
    <2>5. w \in DecodeMax..Len(bytes)
      BY <1>1, <2>2, <2>a, <2>b, <2>c
    <2>6. SubSeq(bytes, 1, w) =
            SubSeq(bytes, 1, DecodeMax) \o SubSeq(bytes, DecodeMax + 1, w)
      BY <1>1, <2>5, ConcatAdjacentSubSeq
    <2>7. SubSeq(bytes, DecodeMax + 1, w) = SubSeq(rest, 1, w - DecodeMax)
      <3>1. CASE w = DecodeMax
        BY <1>1, <3>1, SubSeqEmpty
      <3>2. CASE w # DecodeMax
        <4> DEFINE d == DecodeMax
        <4>1. d + 1 \in 1..Len(bytes) /\ Len(bytes) \in 1..Len(bytes)
          BY <1>1, <2>5, <3>2
        <4>2. 1 \in 1 .. Len(bytes) - (d + 1) + 1 /\ w - d \in 1 .. Len(bytes) - (d + 1) + 1
          BY <1>1, <2>5, <3>2
        <4>3. SubSeq(rest, 1, w - d) = SubSeq(bytes, (d + 1) + 1 - 1, (d + 1) + (w - d) - 1)
          BY <4>1, <4>2, SubSeqOfSubSeq, SMTT(20)
        <4>4. (d + 1) + 1 - 1 = d + 1 /\ (d + 1) + (w - d) - 1 = w
          BY <1>1, <2>5
        <4> QED
          BY <4>3, <4>4
      <3> QED
        BY <3>1, <3>2
    <2> QED
      BY <1>3, <2>4, <2>6, <2>7 DEF Pieces, w
  <1> QED
    BY <1>2, <1>3

LEMMA StreamTyped ==
  ASSUME IInv
  PROVE  /\ buf \in Seq(Byte) /\ Pieces(zipOut, zipOk) \in Seq(Byte) /\ Pending \in Seq(Byte)
         /\ Behind \in Seq(Byte) /\ Undecoded = buf \o Behind
  <1>1. /\ buf \in Seq(Byte) /\ zipOut \in Seq(Byte) /\ job.bytes \in Seq(Byte)
        /\ sent \in 0..Len(job.bytes)
    BY Constants DEF IInv, InputTypes, ZipTypes
  <1>2. Pieces(zipOut, zipOk) \in Seq(Byte)
    BY <1>1, PiecesTyped
  <1>3. Pending \in Seq(Byte)
    BY <1>1, Split DEF Pending
  <1>4. Behind \in Seq(Byte)
    BY <1>2, <1>3, ConcatProperties DEF Behind
  <1>5. (buf \o Pieces(zipOut, zipOk)) \o Pending = buf \o (Pieces(zipOut, zipOk) \o Pending)
    BY <1>1, <1>2, <1>3, ConcatAssociative, SMTT(20)
  <1>6. Undecoded = buf \o Behind
    BY <1>5, Zenon DEF Undecoded, Behind, Pending
  <1> QED
    BY <1>1, <1>2, <1>3, <1>4, <1>6

\* What is in the buffer stands at the front of the stream.
LEMMA Seen ==
  ASSUME IInv, NEW n \in 0..Len(buf)
  PROVE  /\ n <= Len(Undecoded) /\ Stream!First(n) = First(n)
         /\ Stream!Rest(n) = Rest(n) \o Behind
  BY StreamTyped, Front DEF Stream!First, Stream!Rest, First, Rest

LEMMA SeenByte ==
  ASSUME IInv, NEW n \in 1..Len(buf)
  PROVE  Undecoded[n] = buf[n]
  BY StreamTyped, ConcatProperties

LEMMA SeenHead ==
  ASSUME IInv, Len(buf) > 0
  PROVE  Head(Undecoded) = Head(buf)
  <1>1. 1 \in 1..Len(buf)
    BY DEF IInv, InputTypes
  <1>2. Undecoded[1] = buf[1]
    BY <1>1, SeenByte
  <1>3. Undecoded \in Seq(Byte) /\ buf \in Seq(Byte)
    BY StreamTyped, ConcatProperties
  <1> QED
    BY <1>2, <1>3

\* What is taken from the buffer is taken from the stream.
LEMMA Taken ==
  ASSUME IInv, NEW n \in 0..Len(buf), buf' = Rest(n), UNCHANGED <<job, sent, zipOut, zipOk>>
  PROVE  Stream!Consume(n)
  <1>1. Undecoded' = (Rest(n) \o Pieces(zipOut, zipOk)) \o Pending
    BY DEF Undecoded, Pending
  <1>2. Rest(n) \in Seq(Byte)
    BY RestTyped DEF IInv, InputTypes
  <1>3. (Rest(n) \o Pieces(zipOut, zipOk)) \o Pending
          = Rest(n) \o (Pieces(zipOut, zipOk) \o Pending)
    <2>1. Pieces(zipOut, zipOk) \in Seq(Byte) /\ Pending \in Seq(Byte)
      BY StreamTyped
    <2> QED
      BY <1>2, <2>1, ConcatAssociative, SMTT(20)
  <1>4. Undecoded' = Rest(n) \o Behind
    BY <1>1, <1>3, Zenon DEF Behind
  <1> QED
    BY <1>4, Seen DEF Stream!Consume

\* The block is left alone.
LEMMA BlockAlone ==
  ASSUME UNCHANGED zipVars
  PROVE  UNCHANGED <<zipSize, Collected, Broken, zipOut, zipOk>>
  BY DEF zipVars, Collected, Broken

----------------------------------------------------------------------------
(* Every step of the decoder is one of the stream's, or does not show      *)

LEMMA FindStep == IInv /\ IdleFound => \E op \in Op : Stream!Find(op)
  <1> SUFFICES ASSUME IInv, IdleFound PROVE \E op \in Op : Stream!Find(op)
    OBVIOUS
  <1>1. PICK op \in Found : /\ status' = op /\ Consume(Len(Heads[op]))
                            /\ IF op = "LineStart"
                               THEN half' = FALSE /\ dots' = 0 /\ black' = {} /\ UNCHANGED dotValue
                               ELSE UNCHANGED lineVars
    BY DEF IdleFound
  <1>2. status = "Idle" /\ UNCHANGED <<zipVars, pageVars>>
    BY DEF IdleFound
  <1>3. op \in Op /\ Len(Heads[op]) \in 0..Len(buf) /\ First(Len(Heads[op])) = Heads[op]
    BY Constants DEF Found, IInv, InputTypes
  <1>4. Stream!Begins(op)
    BY <1>3, Seen DEF Stream!Begins
  <1>5. Stream!Consume(Len(Heads[op]))
    BY <1>1, <1>2, <1>3, BlockAlone, Taken DEF Consume
  <1>6. UNCHANGED <<Stream!zipVars, Stream!pageVars>>
    BY <1>2, BlockAlone DEF Stream!zipVars, Stream!pageVars, pageVars
  <1>7. IF op = "LineStart"
        THEN half' = FALSE /\ dots' = 0 /\ black' = {} /\ UNCHANGED dotValue
        ELSE UNCHANGED Stream!lineVars
    BY <1>1 DEF lineVars, Stream!lineVars
  <1>8. Stream!Find(op)
    BY <1>1, <1>2, <1>4, <1>5, <1>6, <1>7 DEF Stream!Find
  <1> QED
    BY <1>3, <1>8

\* With a whole longest head in the buffer, only that head may be found too late.
LEMMA SkipStep == IInv /\ IdleSkip => Stream!Skip
  <1> SUFFICES ASSUME IInv, IdleSkip PROVE Stream!Skip
    OBVIOUS
  <1>1. status = "Idle" /\ Found = {} /\ Len(buf) >= MaxHead /\ Consume(1)
    BY DEF IdleSkip, HeadFits
  <1>2. UNCHANGED <<status, lineVars, zipVars, pageVars>>
    BY DEF IdleSkip
  <1>3. Len(buf) \in Nat /\ MaxHead \in Nat /\ MaxHead > 1
    BY DecoderAssumption DEF DecoderAssumption, IInv, InputTypes
  <1>4. ASSUME NEW op \in Op, Stream!Begins(op), Len(Heads[op]) # MaxHead
        PROVE  FALSE
    <2>1. Len(Heads[op]) \in Nat /\ Len(Heads[op]) < MaxHead
      BY <1>3, <1>4, DecoderAssumption DEF DecoderAssumption
    <2>2. Len(Heads[op]) \in 0..Len(buf) /\ Len(Heads[op]) < Len(buf)
      BY <1>1, <1>3, <2>1
    <2>3. First(Len(Heads[op])) = Heads[op]
      BY <1>4, <2>2, Seen DEF Stream!Begins
    <2>4. op \in Found
      BY <2>2, <2>3 DEF Found
    <2> QED
      BY <1>1, <2>4
  <1>5. 1 \in 0..Len(buf)
    BY <1>1, <1>3
  <1>6. Stream!Consume(1)
    BY <1>1, <1>2, <1>5, BlockAlone, Taken DEF Consume
  <1>7. UNCHANGED <<Stream!lineVars, Stream!zipVars, Stream!pageVars>>
    BY <1>2, BlockAlone DEF Stream!lineVars, Stream!zipVars, Stream!pageVars, lineVars, pageVars
  <1> QED
    BY <1>1, <1>2, <1>4, <1>6, <1>7
       DEF Stream!Skip, Stream!Op, Stream!Settings, Op, Settings

LEMMA SetStep == ASSUME NEW s \in Settings PROVE IInv /\ Set(s) => Stream!Set(s)
  <1> SUFFICES ASSUME IInv, Set(s) PROVE Stream!Set(s)
    OBVIOUS
  <1>1. /\ status = s /\ status' = "Idle" /\ Len(buf) >= Need[s] /\ Consume(Width[s])
        /\ out' = Append(out, Effect(s, pageNum, Value(s, First(Width[s]))))
        /\ UNCHANGED <<lineVars, zipVars, pageNum>>
    BY DEF Set
  <1>2. Width[s] \in 0..Len(buf)
    BY <1>1, Constants DEF IInv, InputTypes
  <1>3. Stream!Consume(Width[s]) /\ Stream!First(Width[s]) = First(Width[s])
    BY <1>1, <1>2, BlockAlone, Taken, Seen DEF Consume
  <1>4. Stream!Effect(s, pageNum, Stream!Value(s, First(Width[s])))
          = Effect(s, pageNum, Value(s, First(Width[s])))
    BY DEF Stream!Effect, Stream!Value, Effect, Value
  <1>5. UNCHANGED <<Stream!lineVars, Stream!zipVars>>
    BY <1>1, BlockAlone DEF Stream!lineVars, Stream!zipVars, lineVars
  <1> QED
    BY <1>1, <1>3, <1>4, <1>5, Zenon DEF Stream!Set

LEMMA MarkStep ==
  IInv /\ (CommandSetPageStart \/ CommandSetLineEnd \/ CommandSetPageEnd)
    => \E op \in {"PageStart", "LineEnd", "PageEnd"} : Stream!Mark(op)
  <1> SUFFICES ASSUME IInv, CommandSetPageStart \/ CommandSetLineEnd \/ CommandSetPageEnd
               PROVE  \E op \in {"PageStart", "LineEnd", "PageEnd"} : Stream!Mark(op)
    OBVIOUS
  <1>1. UNCHANGED <<buf, job, sent, lineVars, zipVars>>
    BY DEF CommandSetPageStart, CommandSetLineEnd, CommandSetPageEnd
  <1>2. UNCHANGED <<Undecoded, Stream!lineVars, Stream!zipVars>>
    BY <1>1, BlockAlone DEF Undecoded, Stream!lineVars, Stream!zipVars, lineVars
  <1>3. CASE CommandSetPageStart
    <2>1. Stream!Mark("PageStart")
      BY <1>2, <1>3 DEF CommandSetPageStart, Stream!Mark, Stream!Effect, Effect
    <2> QED
      BY <2>1
  <1>4. CASE CommandSetLineEnd
    <2>1. Stream!Mark("LineEnd")
      BY <1>2, <1>4 DEF CommandSetLineEnd, pageVars, Stream!Mark
    <2> QED
      BY <2>1
  <1>5. CASE CommandSetPageEnd
    <2>1. Stream!Mark("PageEnd")
      BY <1>2, <1>5 DEF CommandSetPageEnd, Stream!Mark, Stream!Effect, Effect
    <2> QED
      BY <2>1
  <1> QED
    BY <1>3, <1>4, <1>5

LEMMA GrowStep == ASSUME NEW n, Grow(n) PROVE Stream!Grow(n)
  BY DEF Grow, Stream!Grow, Stream!Effect, Stream!Row, Effect, Row

\* A byte of a line.
LEMMA LineTaken ==
  ASSUME IInv, Len(buf) > 1, Consume(1), UNCHANGED zipVars
  PROVE  /\ Stream!Consume(1) /\ Head(Undecoded) = Head(buf) /\ Head(buf) \in Nat
         /\ UNCHANGED Stream!zipVars
  <1>1. Len(buf) \in Nat /\ 1 \in 0..Len(buf) /\ Len(buf) > 0
    BY DEF IInv, InputTypes
  <1>2. Stream!Consume(1)
    BY <1>1, BlockAlone, Taken DEF Consume
  <1>3. Head(Undecoded) = Head(buf)
    BY <1>1, SeenHead
  <1>4. Head(buf) \in Nat
    BY <1>1, Constants DEF IInv, InputTypes, Byte
  <1>5. UNCHANGED Stream!zipVars
    BY BlockAlone DEF Stream!zipVars
  <1> QED
    BY <1>2, <1>3, <1>4, <1>5

LEMMA LineStep ==
  IInv /\ (LineByte \/ LineRepeat) => Stream!Dot \/ Stream!Colour \/ Stream!Repeat
  <1> SUFFICES ASSUME IInv, LineByte \/ LineRepeat
               PROVE  Stream!Dot \/ Stream!Colour \/ Stream!Repeat
    OBVIOUS
  <1>1. Len(buf) > 1 /\ Consume(1) /\ UNCHANGED zipVars /\ status = "LineStart"
    BY DEF LineByte, LineRepeat
  <1>2. /\ Stream!Consume(1) /\ Head(Undecoded) = Head(buf) /\ Head(buf) \in Nat
        /\ UNCHANGED Stream!zipVars
    BY <1>1, LineTaken
  <1>3. CASE LineByte /\ Head(buf) >= Flag
    <2>1. /\ ~half /\ half' = TRUE /\ dotValue' = (Head(buf) > Flag)
          /\ UNCHANGED <<status, dots, black, pageVars>>
      BY <1>3 DEF LineByte
    <2> QED
      BY <1>1, <1>2, <1>3, <2>1 DEF Stream!Colour, Stream!pageVars, pageVars
  <1>4. CASE LineByte /\ ~(Head(buf) >= Flag)
    <2>1. /\ ~half /\ UNCHANGED <<half, dotValue>> /\ Grow(dots + 1)
          /\ black' = IF Head(buf) > 0 /\ dots < LineDots THEN black \cup {dots} ELSE black
      BY <1>4 DEF LineByte
    <2>2. Stream!Grow(dots + 1)
      BY <2>1, GrowStep
    <2>3. Head(buf) < Flag
      BY <1>2, <1>4, Constants
    <2>4. Stream!Dot
      BY <1>1, <1>2, <2>1, <2>2, <2>3, Zenon DEF Stream!Dot
    <2> QED
      BY <2>4
  <1>5. CASE LineRepeat
    <2> DEFINE end == dots + Head(buf) + 1
    <2>1. /\ half /\ half' = FALSE /\ UNCHANGED dotValue /\ Grow(end)
          /\ black' = IF dotValue
                      THEN black \cup {d \in dots .. end - 1 : d < LineDots}
                      ELSE black
      BY <1>5 DEF LineRepeat
    <2>2. Stream!Grow(end)
      BY <2>1, GrowStep
    <2>3. Stream!Repeat
      BY <1>1, <1>2, <2>1, <2>2, Zenon DEF Stream!Repeat
    <2> QED
      BY <2>3
  <1> QED
    BY <1>3, <1>4, <1>5

----------------------------------------------------------------------------
(* Blocks                                                                  *)

LEMMA SizeStep == IInv /\ CommandZipSize => Stream!Size
  <1> SUFFICES ASSUME IInv, CommandZipSize PROVE Stream!Size
    OBVIOUS
  <1>1. /\ status = "ZipStart" /\ status' = "ZipData" /\ Len(buf) >= 2 /\ Consume(2)
        /\ zipSize' = buf[1] * 2 * Flag + buf[2]
        /\ UNCHANGED <<lineVars, zipData, unzip, zipOut, zipOk, pageVars>>
    BY DEF CommandZipSize
  <1>2. 2 \in 0..Len(buf) /\ 1 \in 1..Len(buf) /\ 2 \in 1..Len(buf)
    BY <1>1 DEF IInv, InputTypes
  <1>3. Stream!Consume(2)
    BY <1>1, <1>2, Taken DEF Consume
  <1>4. Undecoded[1] = buf[1] /\ Undecoded[2] = buf[2]
    BY <1>2, SeenByte
  <1>5. UNCHANGED <<Stream!lineVars, Collected, Broken, Stream!pageVars>>
    BY <1>1 DEF Stream!lineVars, Collected, Broken, Stream!pageVars, lineVars, pageVars
  <1> QED
    BY <1>1, <1>3, <1>4, <1>5, Zenon DEF Stream!Size

\* Some bytes of a block; with the last one its content comes next, since nothing of the
\* packet is left in front of it.
LEMMA FetchStep ==
  InflateTyped /\ IInv /\ BlockInv /\ StandsAlone /\ CommandZipFetchData
    => \E n \in 1..Len(Undecoded) : Stream!Collect(n) \/ Stream!Expand(n)
  <1> SUFFICES ASSUME InflateTyped, IInv, BlockInv, StandsAlone, CommandZipFetchData
               PROVE  \E n \in 1..Len(Undecoded) : Stream!Collect(n) \/ Stream!Expand(n)
    OBVIOUS
  <1> DEFINE missing == zipSize - Len(zipData)
             n == IF Len(buf) < missing THEN Len(buf) ELSE missing
             z == Inflate(zipData')
  <1>1. /\ status = "ZipData" /\ Len(buf) > 0 /\ Len(zipData) < zipSize /\ ~ret
        /\ zipData' = zipData \o First(n) /\ buf' = Rest(n)
        /\ IF n = missing
           THEN /\ status' = "Idle" /\ ret' = TRUE
                /\ unzip' = "inflate" /\ zipOut' = z.bytes /\ zipOk' = z.ok
           ELSE UNCHANGED <<status, ret, unzip, zipOut, zipOk>>
        /\ UNCHANGED <<job, sent, lineVars, zipSize, pageVars>>
    BY DEF CommandZipFetchData
  <1>2. unzip = "no" /\ (unzip' = "inflate" => buf' = <<>>)
    BY DEF StandsAlone
  <1>3. zipOut = <<>>
    BY <1>2 DEF BlockInv
  <1>4. Collected = zipData /\ Broken = FALSE
    BY <1>2 DEF Collected, Broken
  <1>5. Len(buf) \in Nat /\ Len(zipData) \in Nat /\ zipSize \in Nat
    BY DEF IInv, InputTypes, ZipTypes
  <1>6. missing \in Nat \ {0} /\ n \in 1..Len(buf) /\ n <= missing
    BY <1>1, <1>5
  <1>7. zipData \in Seq(Byte) /\ buf \in Seq(Byte)
    BY DEF IInv, InputTypes, ZipTypes
  <1> HIDE DEF missing, n
  <1>8. n \in 0..Len(buf) /\ n \in 1..Len(Undecoded)
    <2>1. n \in 0..Len(buf)
      BY <1>5, <1>6
    <2>2. n <= Len(Undecoded)
      BY <2>1, Seen
    <2>3. Undecoded \in Seq(Byte)
      <3>1. Behind \in Seq(Byte) /\ Undecoded = buf \o Behind
        BY StreamTyped
      <3> QED
        BY <1>7, <3>1, ConcatProperties
    <2> QED
      BY <1>6, <2>1, <2>2, <2>3
  <1>9. Stream!First(n) = First(n) /\ Stream!Rest(n) = Rest(n) \o Behind
    BY <1>8, Seen
  <1>10. UNCHANGED <<Stream!lineVars, Stream!pageVars>>
    BY <1>1 DEF Stream!lineVars, Stream!pageVars, lineVars, pageVars
  <1>11. CASE n # missing
    <2>1. UNCHANGED <<status, unzip, zipOut, zipOk>>
      BY <1>1, <1>11
    <2>2. Stream!Consume(n)
      BY <1>1, <1>8, <2>1, Taken
    <2>3. Collected' = zipData' /\ Broken' = FALSE
      BY <1>2, <2>1 DEF Collected, Broken
    <2>4. Len(zipData) + n < zipSize
      BY <1>5, <1>6, <1>11 DEF missing
    <2>5. Collected' = Collected \o Stream!First(n)
      BY <1>1, <1>4, <1>9, <2>3
    <2>6. UNCHANGED <<zipSize, Broken>>
      BY <1>1, <1>4, <2>3
    <2>7. Stream!Collect(n)
      BY <1>1, <1>4, <1>10, <2>1, <2>2, <2>4, <2>5, <2>6, Zenon DEF Stream!Collect
    <2> QED
      BY <1>8, <2>7
  <1>12. CASE n = missing
    <2>1. /\ status' = "Idle" /\ unzip' = "inflate" /\ zipOut' = z.bytes /\ zipOk' = z.ok
          /\ buf' = <<>> /\ Rest(n) = <<>>
      BY <1>1, <1>2, <1>12
    <2>2. Len(zipData) + n = zipSize /\ n > 0 /\ n <= Len(Undecoded)
      BY <1>5, <1>6, <1>8, <1>12 DEF missing
    <2>3. First(n) \in Seq(Byte)
      BY <1>7, <1>8, Split DEF First
    <2>4. zipData' \in Seq(Byte)
      BY <1>1, <1>7, <2>3, ConcatProperties
    <2>5. z.bytes \in Seq(Byte) /\ z.ok \in BOOLEAN
      BY <2>4 DEF InflateTyped
    <2>6. Pieces(<<>>, zipOk) = <<>>
      BY NoPieces
    <2>7. Stream!Rest(n) = Pending
      <3>1. Behind = Pending
        BY <1>3, <2>6, StreamTyped, ConcatEmptySeq DEF Behind
      <3> QED
        BY <1>9, <2>1, <3>1, StreamTyped, ConcatEmptySeq
    <2>8. Undecoded' = Pieces(z.bytes, z.ok) \o Pending
      <3>1. Undecoded' = (<<>> \o Pieces(z.bytes, z.ok)) \o Pending
        BY <1>1, <2>1 DEF Undecoded, Pending
      <3>2. Pieces(z.bytes, z.ok) \in Seq(Byte)
        BY <2>5, PiecesTyped
      <3> QED
        BY <3>1, <3>2, ConcatEmptySeq
    <2>9. z = Inflate(Collected \o Stream!First(n))
      BY <1>1, <1>4, <1>9
    <2>10. Collected' = <<>> /\ Broken' = ~z.ok
      BY <2>1 DEF Collected, Broken
    <2> HIDE DEF z
    <2>11. Stream!Pieces(z.bytes, z.ok) = Pieces(z.bytes, z.ok)
      BY DEF Stream!Pieces, Pieces
    <2>12. Undecoded' = Stream!Pieces(z.bytes, z.ok) \o Stream!Rest(n)
      BY <2>7, <2>8, <2>11
    <2>13. Len(Collected) + n = zipSize /\ UNCHANGED zipSize
      BY <1>1, <1>4, <2>2
    <2>14. Stream!Expand(n)
      BY <1>1, <1>10, <2>1, <2>2, <2>9, <2>10, <2>12, <2>13, Zenon DEF Stream!Expand
    <2> QED
      BY <1>8, <2>14
  <1> QED
    BY <1>11, <1>12

LEMMA FailStep == IInv /\ ZipDecodeFails => Stream!GiveUp
  <1> SUFFICES ASSUME IInv, ZipDecodeFails PROVE Stream!GiveUp
    OBVIOUS
  <1>1. /\ unzip = "inflate" /\ ~zipOk /\ Len(zipOut) < DecodeMax
        /\ unzip' = "last" /\ zipOut' = <<>> /\ status' = "Idle"
        /\ UNCHANGED <<job, sent, buf, lineVars, zipSize, zipOk, pageVars>>
    BY DEF ZipDecodeFails
  <1>2. Broken /\ Broken' = FALSE /\ Collected = <<>> /\ Collected' = <<>>
    BY <1>1 DEF Broken, Collected
  <1>3. Pieces(zipOut, zipOk) = <<>>
    <2>1. Len(zipOut) \in Nat
      BY DEF IInv, ZipTypes
    <2>2. Len(zipOut) % DecodeMax = Len(zipOut)
      BY <1>1, <2>1, Constants, ModuloSmall, Zenon
    <2>3. Len(zipOut) - (Len(zipOut) % DecodeMax) = 0
      BY <2>1, <2>2
    <2> QED
      BY <1>1, <2>3, SubSeqEmpty DEF Pieces
  <1>4. Pieces(<<>>, zipOk) = <<>>
    BY NoPieces
  <1>5. Undecoded' = Undecoded
    BY <1>1, <1>3, <1>4 DEF Undecoded
  <1>6. UNCHANGED <<Stream!lineVars, Stream!pageVars>>
    BY <1>1 DEF Stream!lineVars, Stream!pageVars, lineVars, pageVars
  <1> QED
    BY <1>1, <1>2, <1>5, <1>6, Zenon DEF Stream!GiveUp

----------------------------------------------------------------------------
(* What does not show                                                      *)

\* The next bytes of the packets.
LEMMA DeliverHidden == IInv /\ BlockInv /\ Deliver => UNCHANGED Stream!vars
  <1> SUFFICES ASSUME IInv, BlockInv, Deliver PROVE UNCHANGED Stream!vars
    OBVIOUS
  <1> DEFINE len == Len(job.bytes)
  <1>1. PICK n \in 1..MaxPacket : /\ sent + n <= len /\ sent' = sent + n
                                  /\ buf' = buf \o SubSeq(job.bytes, sent + 1, sent + n)
    BY DEF Deliver, Realloc
  <1>2. unzip = "no" /\ UNCHANGED <<job, status, lineVars, zipVars, pageVars>>
    BY DEF Deliver
  <1>3. job.bytes \in Seq(Byte) /\ sent \in Nat /\ n \in Nat /\ len \in Nat /\ buf \in Seq(Byte)
    BY Constants DEF IInv, InputTypes
  <1> DEFINE new == SubSeq(job.bytes, sent + 1, sent + n)
             later == SubSeq(job.bytes, sent + n + 1, len)
  <1>4. new \in Seq(Byte) /\ later \in Seq(Byte)
    BY <1>1, <1>3, Piece
  <1>5. Pending = new \o later
    <2>1. sent + 1 \in 1 .. len + 1 /\ sent + n \in (sent + 1) - 1 .. len /\ len \in sent + n .. len
      BY <1>1, <1>3
    <2>2. SubSeq(job.bytes, sent + 1, len) = new \o later
      BY <1>3, <2>1, ConcatAdjacentSubSeq
    <2> QED
      BY <2>2 DEF Pending
  <1>6. Pending' = later
    BY <1>1, <1>2 DEF Pending
  <1> HIDE DEF new, later
  <1>7. Pieces(zipOut, zipOk) = <<>> /\ zipOut' = zipOut /\ zipOk' = zipOk
    BY <1>2, NoPieces DEF BlockInv, zipVars
  <1>8. Undecoded = buf \o Pending
    BY <1>3, <1>7, ConcatEmptySeq DEF Undecoded, Pending
  <1>9. buf' = buf \o new
    BY <1>1 DEF new
  <1>10. Undecoded' = (buf \o new) \o later
    <2>1. Undecoded' = (buf' \o <<>>) \o Pending'
      BY <1>7 DEF Undecoded, Pending
    <2>2. buf \o new \in Seq(Byte)
      BY <1>3, <1>4, ConcatProperties
    <2> QED
      BY <1>6, <1>9, <2>1, <2>2, ConcatEmptySeq
  <1>11. (buf \o new) \o later = buf \o (new \o later)
    BY <1>3, <1>4, ConcatAssociative
  <1>12. Undecoded' = Undecoded
    BY <1>5, <1>8, <1>10, <1>11
  <1> QED
    BY <1>2, <1>12, BlockAlone
       DEF Stream!vars, Stream!lineVars, Stream!zipVars, Stream!pageVars, lineVars, pageVars

\* The next piece of a block.
LEMMA DecodeHidden == IInv /\ ZipDecode => UNCHANGED Stream!vars
  <1> SUFFICES ASSUME IInv, ZipDecode PROVE UNCHANGED Stream!vars
    OBVIOUS
  <1> DEFINE n == IF Len(zipOut) < DecodeMax THEN Len(zipOut) ELSE DecodeMax
             piece == SubSeq(zipOut, 1, n)
             others == SubSeq(zipOut, n + 1, Len(zipOut))
  <1>1. /\ unzip = "inflate" /\ (n = DecodeMax \/ zipOk)
        /\ buf' = buf \o piece /\ zipOut' = others
        /\ unzip' = IF n < DecodeMax THEN "last" ELSE "inflate"
        /\ UNCHANGED <<job, sent, status, lineVars, zipSize, zipData, zipOk, pageVars>>
    BY DEF ZipDecode, Realloc
  <1>2. zipOut \in Seq(Byte) /\ buf \in Seq(Byte) /\ Len(zipOut) \in Nat
        /\ DecodeMax \in Nat \ {0} /\ zipOk \in BOOLEAN
    BY Constants DEF IInv, InputTypes, ZipTypes
  <1>3. n \in 0..Len(zipOut) /\ (n = DecodeMax => Len(zipOut) >= DecodeMax)
        /\ (n # DecodeMax => n < DecodeMax) /\ ~(DecodeMax < DecodeMax)
    BY <1>2
  <1>4. piece \in Seq(Byte) /\ others \in Seq(Byte) /\ zipOut = piece \o others
    BY <1>2, <1>3, Split
  <1> HIDE DEF n, piece, others
  <1>5. Pieces(zipOut, zipOk) = piece \o Pieces(others, zipOk)
    <2>1. CASE n = DecodeMax
      BY <1>2, <1>3, <2>1, PiecesNext DEF piece, others
    <2>2. CASE zipOk
      BY <1>4, <2>2 DEF Pieces
    <2> QED
      BY <1>1, <2>1, <2>2
  <1> DEFINE p == Pieces(others, zipOk)
  <1>6. p \in Seq(Byte) /\ Pending \in Seq(Byte)
    BY <1>4, PiecesTyped, StreamTyped
  <1>7. Undecoded = (buf \o (piece \o p)) \o Pending
    BY <1>5 DEF Undecoded, Pending
  <1>8. Undecoded' = ((buf \o piece) \o p) \o Pending
    BY <1>1 DEF Undecoded, Pending
  <1> HIDE DEF p
  <1>9. (buf \o piece) \o p = buf \o (piece \o p)
    BY <1>2, <1>4, <1>6, ConcatAssociative, SMTT(20)
  <1>10. Undecoded' = Undecoded
    BY <1>7, <1>8, <1>9
  <1>11. Collected' = Collected
    BY <1>1 DEF Collected
  <1>12. Broken' = Broken
    <2>1. CASE n = DecodeMax
      BY <1>1, <1>3, <2>1 DEF Broken
    <2>2. CASE n # DecodeMax
      <3>1. zipOk /\ zipOk' = zipOk
        BY <1>1, <2>2
      <3>2. Broken = FALSE /\ Broken' = FALSE
        BY <3>1 DEF Broken
      <3> QED
        BY <3>2
    <2> QED
      BY <2>1, <2>2
  <1>13. UNCHANGED <<status, Stream!lineVars, zipSize, Stream!pageVars>>
    BY <1>1 DEF Stream!lineVars, Stream!pageVars, lineVars, pageVars
  <1> QED
    BY <1>10, <1>11, <1>12, <1>13 DEF Stream!vars, Stream!zipVars

\* The end of a block, printing, and a decoder that waits for more.
LEMMA OthersHidden ==
  ZipDone \/ PrintLine \/ ReturnModle \/ UNCHANGED vars => UNCHANGED Stream!vars
  <1>1. ASSUME ZipDone PROVE UNCHANGED Stream!vars
    <2>1. Collected' = Collected /\ Broken' = Broken
      BY <1>1 DEF ZipDone, Collected, Broken
    <2>2. UNCHANGED Undecoded
      BY <1>1 DEF ZipDone, Undecoded
    <2>3. UNCHANGED <<status, Stream!lineVars, zipSize, Stream!pageVars>>
      BY <1>1 DEF ZipDone, Stream!lineVars, Stream!pageVars, lineVars, pageVars
    <2> QED
      BY <2>1, <2>2, <2>3 DEF Stream!vars, Stream!zipVars
  <1>2. ASSUME PrintLine \/ ReturnModle \/ UNCHANGED vars PROVE UNCHANGED Stream!vars
    <2>1. UNCHANGED <<job, sent, buf, status, lineVars, zipVars, pageNum, out>>
      BY <1>2 DEF PrintLine, ReturnModle, vars, pageVars
    <2>2. UNCHANGED <<zipSize, Collected, Broken, zipOut, zipOk>>
      BY <2>1, BlockAlone
    <2>3. UNCHANGED Undecoded
      BY <2>1, <2>2 DEF Undecoded
    <2> QED
      BY <2>1, <2>2, <2>3
         DEF Stream!vars, Stream!lineVars, Stream!zipVars, Stream!pageVars, lineVars
  <1> QED
    BY <1>1, <1>2

----------------------------------------------------------------------------
(* The refinement                                                          *)

LEMMA BlockNext == IInv /\ BlockInv /\ [Next]_vars => BlockInv'
  <1> SUFFICES ASSUME IInv, BlockInv, [Next]_vars PROVE BlockInv'
    OBVIOUS
  <1>1. CASE CommandZipFetchData
    BY <1>1 DEF CommandZipFetchData, BlockInv
  <1>2. CASE ZipDecode
    <2> DEFINE n == IF Len(zipOut) < DecodeMax THEN Len(zipOut) ELSE DecodeMax
    <2>1. zipOut' = SubSeq(zipOut, n + 1, Len(zipOut))
          /\ unzip' = IF n < DecodeMax THEN "last" ELSE "inflate"
      BY <1>2 DEF ZipDecode
    <2>2. zipOut \in Seq(Byte) /\ Len(zipOut) \in Nat /\ DecodeMax \in Nat
      BY Constants DEF IInv, ZipTypes
    <2>3. n < DecodeMax => n = Len(zipOut)
      BY <2>2
    <2>4. SubSeq(zipOut, Len(zipOut) + 1, Len(zipOut)) = <<>>
      BY <2>2, SubSeqEmpty
    <2> HIDE DEF n
    <2> QED
      BY <2>1, <2>3, <2>4 DEF BlockInv
  <1>3. CASE ZipDecodeFails \/ ZipDone \/ PrintLine \/ UNCHANGED vars
    BY <1>3 DEF ZipDecodeFails, ZipDone, PrintLine, vars, zipVars, BlockInv
  <1>4. CASE \/ Deliver \/ IdleFound \/ IdleSkip \/ ReturnModle \/ (\E s \in Settings : Set(s))
               \/ CommandSetPageStart \/ CommandSetLineEnd \/ CommandSetPageEnd
               \/ LineByte \/ LineRepeat \/ CommandZipSize
    <2>1. UNCHANGED <<unzip, zipOut>>
      BY <1>4 DEF Deliver, IdleFound, IdleSkip, ReturnModle, Set, CommandSetPageStart,
         CommandSetLineEnd, CommandSetPageEnd, LineByte, LineRepeat, CommandZipSize, zipVars
    <2> QED
      BY <2>1 DEF BlockInv
  <1> QED
    BY <1>1, <1>2, <1>3, <1>4 DEF Next, Decode

LEMMA InitStream == Init => Undecoded = job.bytes /\ Collected = <<>> /\ Broken = FALSE
  <1> SUFFICES ASSUME Init PROVE Undecoded = job.bytes /\ Collected = <<>> /\ Broken = FALSE
    OBVIOUS
  <1>1. job \in Jobs /\ job.bytes \in Seq(Byte)
    BY Constants DEF Init
  <1>2. Pieces(zipOut, zipOk) = <<>> /\ buf = <<>> /\ sent = 0 /\ unzip = "no" /\ zipData = <<>>
    BY NoPieces DEF Init
  <1>3. Undecoded = job.bytes
    <2>1. Undecoded = (<<>> \o <<>>) \o SubSeq(job.bytes, 1, Len(job.bytes))
      BY <1>2 DEF Undecoded
    <2>2. SubSeq(job.bytes, 1, Len(job.bytes)) = job.bytes
      BY <1>1, SubSeqFull
    <2>3. <<>> \o <<>> = <<>>
      BY ConcatEmptySeq
    <2> QED
      BY <1>1, <2>1, <2>2, <2>3, ConcatEmptySeq
  <1>4. Collected = <<>> /\ Broken = FALSE
    BY <1>2 DEF Collected, Broken
  <1> QED
    BY <1>3, <1>4

LEMMA InitImplements == Init => BlockInv /\ Stream!Init
  BY InitStream DEF Init, BlockInv, Stream!Init

LEMMA StepImplements ==
  InflateTyped /\ IInv /\ BlockInv /\ [Next]_vars /\ [StandsAlone]_vars
    => [Stream!Next]_(Stream!vars)
  <1> SUFFICES ASSUME InflateTyped, IInv, BlockInv, [Next]_vars, [StandsAlone]_vars
               PROVE  [Stream!Next]_(Stream!vars)
    OBVIOUS
  <1>1. CASE Deliver
    BY <1>1, DeliverHidden
  <1>2. CASE ZipDecode
    BY <1>2, DecodeHidden
  <1>3. CASE ZipDone \/ PrintLine \/ ReturnModle \/ UNCHANGED vars
    BY <1>3, OthersHidden
  <1>4. CASE IdleFound
    <2>1. \E op \in Stream!Op : Stream!Find(op)
      BY <1>4, FindStep DEF Op, Settings, Stream!Op, Stream!Settings
    <2> QED
      BY <2>1 DEF Stream!Next
  <1>5. CASE IdleSkip
    BY <1>5, SkipStep DEF Stream!Next
  <1>6. CASE \E s \in Settings : Set(s)
    <2>1. \E s \in Stream!Settings : Stream!Set(s)
      BY <1>6, SetStep DEF Settings, Stream!Settings
    <2> QED
      BY <2>1 DEF Stream!Next
  <1>7. CASE CommandSetPageStart \/ CommandSetLineEnd \/ CommandSetPageEnd
    BY <1>7, MarkStep DEF Stream!Next
  <1>8. CASE LineByte \/ LineRepeat
    BY <1>8, LineStep DEF Stream!Next
  <1>9. CASE CommandZipSize
    BY <1>9, SizeStep DEF Stream!Next, Stream!Block
  <1>10. CASE CommandZipFetchData /\ ~UNCHANGED vars
    BY <1>10, FetchStep DEF Stream!Next, Stream!Block
  <1>11. CASE ZipDecodeFails
    BY <1>11, FailStep DEF Stream!Next, Stream!Block
  <1> QED
    BY <1>1, <1>2, <1>3, <1>4, <1>5, <1>6, <1>7, <1>8, <1>9, <1>10, <1>11 DEF Next, Decode

\* Wherever packets are cut, whatever is carried over and in whatever pieces a block is
\* inflated, the decoder reads one stream, in which the content of a block stands where the
\* block was: for all jobs, heads and packet sizes, and every inflate() that returns bytes.
\* What it needs is a host that sends its blocks by themselves.
THEOREM CutsDoNotShow ==
  ASSUME InflateTyped
  PROVE  Spec /\ BlocksStandAlone => ImplementsStream
  <1>1. IInv /\ BlockInv /\ [Next]_vars => BlockInv'
    BY BlockNext
  <1>2. Init => BlockInv /\ Stream!Init
    BY InitImplements
  <1>3. IInv /\ BlockInv /\ [Next]_vars /\ [StandsAlone]_vars => [Stream!Next]_(Stream!vars)
    BY StepImplements
  <1> QED
    BY <1>1, <1>2, <1>3, Inductive, PTL DEF Spec, BlocksStandAlone, ImplementsStream, Stream!Spec

----------------------------------------------------------------------------
(* The effects come in the host's order                                    *)

Order == INSTANCE CommandStreamProofs WITH
  stream <- Undecoded, zipData <- Collected, broken <- Broken

\* Order speaks of the same stream, format and meaning.
LEMMA SameStream == [Order!Next]_(Order!vars) <=> [Stream!Next]_(Stream!vars)
  BY DEF Order!Next, Stream!Next, Order!vars, Stream!vars, Order!Find, Stream!Find, Order!Skip,
     Stream!Skip, Order!Set, Stream!Set, Order!Mark, Stream!Mark, Order!Grow, Stream!Grow,
     Order!Dot, Stream!Dot, Order!Colour, Stream!Colour, Order!Repeat, Stream!Repeat, Order!Size,
     Stream!Size, Order!Collect, Stream!Collect, Order!Expand, Stream!Expand, Order!GiveUp,
     Stream!GiveUp, Order!Block, Stream!Block, Order!Settings, Stream!Settings, Order!Op, Stream!Op,
     Order!Effect, Stream!Effect, Order!Value, Stream!Value, Order!Row, Stream!Row, Order!Pieces,
     Stream!Pieces, Order!lineVars, Stream!lineVars, Order!zipVars, Stream!zipVars, Order!pageVars,
     Stream!pageVars, Order!First, Stream!First, Order!Rest, Stream!Rest, Order!Consume,
     Stream!Consume, Order!Begins, Stream!Begins

LEMMA SameReading ==
  ASSUME NEW places, NEW rows, NEW effects, NEW ends
  PROVE  Order!Reading(places, rows, effects, ends) <=> Reading(places, rows, effects, ends)
  BY DEF Order!Reading, Reading, Order!Draws, Draws, Order!DrawsByte, DrawsByte, Order!Place,
     Place, Order!Due, Due, Order!After, After, Order!HoldsBlock, HoldsBlock, Order!From, From,
     Order!Starts, Starts, Order!Op, Op, Order!Settings, Settings, Order!Byte, Byte,
     Order!Effect, Effect, Order!Value, Value

LEMMA SameHeads == HeadsApart <=> Order!HeadsApart
  BY DEF HeadsApart, Order!HeadsApart, Starts, Order!Starts, Op, Order!Op, Settings, Order!Settings

LEMMA SameFormat == Order!FormatTypes
  <1>1. LineDots \in Nat \ {0} /\ Flag \in Nat \ {0} /\ MaxHead \in Nat
    BY DecoderAssumption DEF DecoderAssumption
  <1>2. Heads \in [Op -> Seq(Byte)] /\ Width \in [Settings -> Nat]
    BY DecoderAssumption DEF DecoderAssumption
  <1>3. ASSUME NEW op \in Op PROVE Heads[op] # <<>>
    <2>1. Len(Heads[op]) \in 1..MaxHead /\ MaxHead \in Nat
      BY DecoderAssumption DEF DecoderAssumption
    <2> QED
      BY <2>1
  <1> QED
    BY <1>1, <1>2, <1>3
       DEF Order!FormatTypes, Order!Op, Op, Order!Settings, Settings, Order!Byte, Byte

\* A block: its size, and its length with the head and the size.
SizeOf(b) == b[1] * 2 * Flag + b[2]
BlockLength(b) == Len(Heads["ZipStart"]) + 2 + SizeOf(From(b, Len(Heads["ZipStart"])))

LEMMA LaterTyped ==
  ASSUME NEW s \in Seq(Byte), NEW n \in Nat, n <= Len(s)
  PROVE  From(s, n) \in Seq(Byte) /\ Len(From(s, n)) = Len(s) - n
  BY Order!FromTyped DEF Order!From, From, Order!Byte, Byte

LEMMA SizeTyped ==
  ASSUME NEW b \in Seq(Byte), 2 <= Len(b)
  PROVE  SizeOf(b) \in Nat
  <1>1. 1 \in 1..Len(b) /\ 2 \in 1..Len(b)
    OBVIOUS
  <1>2. b[1] \in Nat /\ b[2] \in Nat /\ Flag \in Nat
    BY <1>1, Constants DEF Byte
  <1>3. b[1] * 2 * Flag \in Nat
    BY <1>2, SMTT(20)
  <1> QED
    BY <1>2, <1>3 DEF SizeOf

\* What the reading says of the bytes that come next.
LEMMA Upcoming ==
  ASSUME NEW places, NEW rows, NEW effects, NEW ends, Order!Reads(places, rows, effects, ends)
  PROVE  /\ status = "Idle" => Place(Undecoded, pageNum, Len(out)) \in places
         /\ status = "ZipStart" =>
              LET n == SizeOf(Undecoded) + 2
              IN 2 <= Len(Undecoded) /\ n <= Len(Undecoded) /\ Len(Undecoded) - n \in ends
         /\ status = "ZipData" =>
              LET n == zipSize - Len(Collected)
                  z == Inflate(Collected \o SubSeq(Undecoded, 1, n))
              IN /\ Len(Collected) < zipSize /\ n <= Len(Undecoded) /\ Len(Undecoded) - n \in ends
                 /\ z.ok /\ ~HoldsBlock(z.bytes)
         /\ status # "ZipData" => Collected = <<>>
         /\ ~Broken
  <1>1. status = "Idle" => Place(Undecoded, pageNum, Len(out)) \in places
    BY DEF Order!Reads, Order!Place, Place
  <1>2. ASSUME status = "ZipStart"
        PROVE  /\ 2 <= Len(Undecoded) /\ SizeOf(Undecoded) + 2 <= Len(Undecoded)
               /\ Len(Undecoded) - (SizeOf(Undecoded) + 2) \in ends
    <2>1. PICK q \in Order!After("ZipStart", Undecoded, pageNum, Len(out), rows, effects, ends) :
            q \in places
      BY <1>2 DEF Order!Reads, Order!Op
    <2> QED
      BY <2>1 DEF Order!After, Order!Settings, SizeOf
  <1>3. ASSUME status = "ZipData" PROVE Order!InBlock(places, ends)
    BY <1>3 DEF Order!Reads
  <1>4. ASSUME Order!InBlock(places, ends)
        PROVE  LET n == zipSize - Len(Collected)
                   z == Inflate(Collected \o SubSeq(Undecoded, 1, n))
               IN /\ Len(Collected) < zipSize /\ n <= Len(Undecoded) /\ Len(Undecoded) - n \in ends
                  /\ z.ok /\ ~HoldsBlock(z.bytes)
    BY <1>4 DEF Order!InBlock, Order!First, Order!HoldsBlock, HoldsBlock, Order!Starts, Starts,
       Order!From, From
  <1>5. (status # "ZipData" => Collected = <<>>) /\ ~Broken
    BY DEF Order!Reads
  <1> QED
    BY <1>1, <1>2, <1>3, <1>4, <1>5

LEMMA BlockPlace ==
  ASSUME HeadsApart, NEW places, NEW rows, NEW effects, NEW ends,
         Reading(places, rows, effects, ends),
         NEW r \in places, r.bytes \in Seq(Byte), Starts("ZipStart", r.bytes)
  PROVE  LET n == BlockLength(r.bytes)
         IN /\ n \in Nat /\ n >= Len(Heads["ZipStart"]) + 3
            /\ n <= Len(r.bytes) /\ Len(r.bytes) - n \in ends
  <1> DEFINE h == Len(Heads["ZipStart"])
             b == From(r.bytes, h)
  <1>1. h \in Nat /\ h > 0 /\ h <= Len(r.bytes) /\ "ZipStart" \in Op
    BY DecoderAssumption DEF DecoderAssumption, Starts, Op
  <1>2. r.bytes # <<>>
    BY <1>1
  <1>3. PICK op \in Op : /\ Starts(op, r.bytes)
                         /\ \E q \in After(op, From(r.bytes, Len(Heads[op])), r.page, r.done,
                                           rows, effects, ends) : q \in places
    BY <1>1, <1>2 DEF Reading
  <1>4. op = "ZipStart"
    <2>1. Order!HeadsApart /\ Order!FormatTypes
      BY SameHeads, SameFormat
    <2>2. Order!Starts(op, r.bytes) /\ Order!Starts("ZipStart", r.bytes)
      BY <1>3 DEF Order!Starts, Starts
    <2>3. op \in Order!Op /\ "ZipStart" \in Order!Op /\ r.bytes \in Seq(Order!Byte)
      BY <1>1 DEF Order!Op, Op, Order!Settings, Settings, Order!Byte, Byte
    <2> QED
      BY <2>1, <2>2, <2>3, Order!OneHead
  <1>5. PICK q \in After("ZipStart", b, r.page, r.done, rows, effects, ends) : q \in places
    BY <1>3, <1>4
  <1>6. 2 <= Len(b) /\ 0 < SizeOf(b) /\ SizeOf(b) + 2 <= Len(b) /\ Len(b) - (SizeOf(b) + 2) \in ends
    BY <1>5 DEF After, Settings, SizeOf
  <1>7. b \in Seq(Byte) /\ Len(b) = Len(r.bytes) - h
    BY <1>1, LaterTyped
  <1> HIDE DEF b
  <1>8. SizeOf(b) \in Nat
    BY <1>6, <1>7, SizeTyped
  <1>9. BlockLength(r.bytes) = h + 2 + SizeOf(b)
    BY DEF BlockLength, b, h
  <1>10. Len(r.bytes) \in Nat
    OBVIOUS
  <1> DEFINE n == h + 2 + SizeOf(b)
  <1> HIDE DEF h
  <1>11. n \in Nat /\ n >= h + 3 /\ n <= Len(r.bytes)
    BY <1>1, <1>6, <1>7, <1>8, <1>10
  <1>12. Len(r.bytes) - n = Len(b) - (SizeOf(b) + 2)
    BY <1>1, <1>7, <1>8, <1>10
  <1>13. Len(r.bytes) - n \in ends
    BY <1>6, <1>12
  <1> HIDE DEF n
  <1> QED
    BY <1>9, <1>11, <1>13 DEF h, n

\* Bytes of parameters that are not taken yet.
ParamsDue == IF status \in Settings THEN Width[status] ELSE 0

\* No packet that came in goes on behind a block that is still to come.
Ahead(places) ==
  \A r \in places :
    (/\ r.bytes \in Seq(Byte) /\ Starts("ZipStart", r.bytes)
     /\ Len(r.bytes) <= Len(buf) + Len(job.bytes) - sent - ParamsDue)
      => Len(r.bytes) - BlockLength(r.bytes) <= Len(job.bytes) - sent

\* The packets that came in end with the block that comes next, or is coming, at the latest.
Coming(places) ==
  /\ Ahead(places)
  /\ status = "ZipStart" => Len(buf) <= SizeOf(Undecoded) + 2 /\ (ret => Len(buf) < 2)
  /\ status = "ZipData" => Len(buf) <= zipSize - Len(zipData) /\ (ret => buf = <<>>)

\* What is left of the content of a block has no block in it.
Inside == status \notin {"ZipStart", "ZipData"} /\ ~HoldsBlock(buf \o zipOut)

Alone(places) ==
  /\ zipOk = TRUE
  /\ unzip = "no" => Coming(places)
  /\ unzip # "no" => Inside

LEMMA AloneEnough ==
  ASSUME NEW places, IInv, Alone(places)
  PROVE  StandsAlone
  <1> SUFFICES ASSUME CommandZipFetchData PROVE unzip = "no" /\ (unzip' = "inflate" => buf' = <<>>)
    BY DEF StandsAlone
  <1>1. status = "ZipData" /\ Len(zipData) < zipSize
    BY DEF CommandZipFetchData
  <1>2. unzip = "no"
    BY <1>1 DEF Alone, Inside
  <1>3. Len(buf) <= zipSize - Len(zipData)
    BY <1>1, <1>2 DEF Alone, Coming
  <1>4. buf \in Seq(Byte) /\ zipSize \in Nat /\ Len(zipData) \in Nat /\ Len(buf) \in Nat
    BY DEF IInv, InputTypes, ZipTypes
  <1>5. buf' = Rest(IF Len(buf) < zipSize - Len(zipData) THEN Len(buf) ELSE zipSize - Len(zipData))
    BY DEF CommandZipFetchData
  <1>6. buf' = Rest(Len(buf))
    BY <1>3, <1>4, <1>5
  <1>7. buf' = <<>>
    BY <1>4, <1>6, SubSeqEmpty DEF Rest
  <1> QED
    BY <1>2, <1>7

LEMMA PacketsOnly ==
  ASSUME IInv, BlockInv, unzip = "no"
  PROVE  /\ Len(Undecoded) = Len(buf) + Len(job.bytes) - sent
         /\ Len(buf) \in Nat /\ Len(job.bytes) \in Nat /\ sent \in 0..Len(job.bytes)
         /\ Len(Undecoded) \in Nat
  <1>1. buf \in Seq(Byte) /\ job.bytes \in Seq(Byte) /\ sent \in 0..Len(job.bytes)
    BY Constants DEF IInv, InputTypes
  <1>2. Pieces(zipOut, zipOk) = <<>>
    BY NoPieces DEF BlockInv
  <1>3. Undecoded = buf \o Pending
    BY <1>1, <1>2, ConcatEmptySeq DEF Undecoded, Pending
  <1>4. Pending \in Seq(Byte) /\ Len(Pending) = Len(job.bytes) - sent
    BY <1>1, LaterTyped DEF Pending, From
  <1>5. Len(Undecoded) = Len(buf) + Len(Pending)
    BY <1>1, <1>3, <1>4, ConcatProperties
  <1> QED
    BY <1>1, <1>4, <1>5

\* Reading on leaves less to come.
LEMMA AheadKept ==
  ASSUME NEW places, Ahead(places), UNCHANGED <<job, sent>>, IInv,
         Len(buf') \in Nat, ParamsDue \in Nat, ParamsDue' \in Nat,
         Len(buf') + ParamsDue <= Len(buf) + ParamsDue'
  PROVE  Ahead(places)'
  <1>1. job' = job /\ sent' = sent /\ Len(job.bytes) \in Nat /\ sent \in Nat /\ Len(buf) \in Nat
    BY Constants DEF IInv, InputTypes
  <1> SUFFICES ASSUME NEW r \in places, r.bytes \in Seq(Byte), Starts("ZipStart", r.bytes),
                      Len(r.bytes) <= Len(buf') + Len(job.bytes) - sent - ParamsDue'
               PROVE  Len(r.bytes) - BlockLength(r.bytes) <= Len(job.bytes) - sent
    BY <1>1 DEF Ahead
  <1>2. Len(r.bytes) \in Nat
    OBVIOUS
  <1>3. Len(r.bytes) <= Len(buf) + Len(job.bytes) - sent - ParamsDue
    BY <1>1, <1>2
  <1> QED
    BY <1>3 DEF Ahead

LEMMA ParamsTyped == IInv => ParamsDue \in Nat
  BY Constants DEF ParamsDue

\* A decoder that waits has not the whole of a block behind what it waits for.
LEMMA ShortRemainder ==
  ASSUME BlocksOutgrowRemainders, IInv, RemainderSmall, zipOk = TRUE, ret
  PROVE  Len(buf) < ParamsDue + Len(Heads["ZipStart"]) + 3
  <1> DEFINE h == Len(Heads["ZipStart"])
  <1>1. h \in Nat /\ MaxHead \in Nat /\ Len(buf) \in Nat
    BY DecoderAssumption, Constants DEF DecoderAssumption, Op, IInv, InputTypes
  <1>2. MaxHead <= h + 3 /\ \A s \in Settings : Need[s] <= Width[s] + (h + 3)
    BY DEF BlocksOutgrowRemainders
  <1> HIDE DEF h
  <1>3. CASE Len(buf) < MaxHead
    BY <1>1, <1>2, <1>3, ParamsTyped DEF h
  <1>4. CASE status \in Settings /\ Len(buf) < Need[status]
    <2>1. Width[status] \in Nat /\ Need[status] \in Nat /\ Need[status] <= Width[status] + (h + 3)
      BY <1>2, <1>4, Constants
    <2>2. ParamsDue = Width[status]
      BY <1>4 DEF ParamsDue
    <2>3. Len(buf) < Width[status] + h + 3
      BY <1>1, <1>4, <2>1
    <2> QED
      BY <2>2, <2>3 DEF h
  <1> QED
    BY <1>3, <1>4 DEF RemainderSmall

LEMMA StrictlyAhead ==
  ASSUME BlocksOutgrowRemainders, HeadsApart, IInv, RemainderSmall, zipOk = TRUE, ret,
         NEW places, NEW rows, NEW effects, NEW ends, Reading(places, rows, effects, ends),
         NEW r \in places, r.bytes \in Seq(Byte), Starts("ZipStart", r.bytes),
         Len(r.bytes) <= Len(buf) + Len(job.bytes) - sent - ParamsDue
  PROVE  Len(r.bytes) - BlockLength(r.bytes) < Len(job.bytes) - sent
  <1> DEFINE h == Len(Heads["ZipStart"])
             n == BlockLength(r.bytes)
  <1>1. n \in Nat /\ n >= h + 3
    BY BlockPlace
  <1>2. Len(buf) < ParamsDue + h + 3
    BY ShortRemainder
  <1>3. /\ h \in Nat /\ Len(buf) \in Nat /\ Len(job.bytes) \in Nat /\ sent \in Nat
        /\ ParamsDue \in Nat /\ Len(r.bytes) \in Nat
    BY DecoderAssumption, Constants, ParamsTyped DEF DecoderAssumption, Op, IInv, InputTypes
  <1> HIDE DEF h, n
  <1>4. Len(r.bytes) - n < Len(job.bytes) - sent
    BY <1>1, <1>2, <1>3
  <1> QED
    BY <1>4 DEF n

LEMMA NoFarther ==
  ASSUME NEW r \in Nat, NEW b \in Nat, NEW j \in Nat, NEW k \in Nat, NEW p \in Nat, NEW n \in Nat,
         r <= b + n + j - (k + n) - p
  PROVE  r <= b + j - k - p
  OBVIOUS

LEMMA NotBehind ==
  ASSUME NEW u \in Nat, NEW b \in Nat, NEW j \in Nat, NEW k \in Nat, NEW n \in Nat,
         u = b + j - k, u - n <= j - k
  PROVE  b <= n
  OBVIOUS

\* A packet does not go on behind a block.
LEMMA EndCuts ==
  ASSUME job.blocks \subseteq Nat, Len(job.bytes) \in Nat, sent \in Nat,
         NEW n \in Nat, \A e \in job.blocks : ~(sent < e /\ e < sent + n),
         NEW t \in Ends(job), t < Len(job.bytes) - sent
  PROVE  t <= Len(job.bytes) - (sent + n)
  <1>1. PICK e \in job.blocks : t = Len(job.bytes) - e
    BY DEF Ends
  <1>2. e \in Nat
    OBVIOUS
  <1>3. sent < e
    BY <1>1, <1>2
  <1>4. ~(e < sent + n)
    BY <1>3
  <1> QED
    BY <1>1, <1>2, <1>4

LEMMA DeliverComing ==
  ASSUME BlocksOutgrowRemainders, HeadsApart, IInv, BlockInv, RemainderSmall, job.blocks \subseteq Nat,
         NEW places, NEW rows, NEW effects, NEW ends, ends = Ends(job),
         Reading(places, rows, effects, ends), Order!Reads(places, rows, effects, ends),
         Alone(places), Deliver
  PROVE  Coming(places)'
  <1>1. PICK n \in 1..MaxPacket :
          /\ sent + n <= Len(job.bytes) /\ \A e \in job.blocks : ~(sent < e /\ e < sent + n)
          /\ buf' = buf \o SubSeq(job.bytes, sent + 1, sent + n) /\ ret' = FALSE
          /\ sent' = sent + n
    BY DEF Deliver, Realloc
  <1>2. /\ unzip = "no" /\ ret /\ job' = job /\ status' = status
        /\ zipSize' = zipSize /\ zipData' = zipData
    BY DEF Deliver, zipVars
  <1>3. /\ Len(Undecoded) = Len(buf) + Len(job.bytes) - sent
        /\ Len(buf) \in Nat /\ Len(job.bytes) \in Nat /\ sent \in Nat /\ Len(Undecoded) \in Nat
    BY <1>2, PacketsOnly
  <1>4. n \in Nat /\ n > 0
    BY Constants
  <1>5. Len(buf') = Len(buf) + n
    <2>1. buf \in Seq(Byte) /\ job.bytes \in Seq(Byte)
      BY Constants DEF IInv, InputTypes
    <2>2. SubSeq(job.bytes, sent + 1, sent + n) \in Seq(Byte)
      BY <1>1, <1>3, <1>4, <2>1, Piece
    <2>3. Len(SubSeq(job.bytes, sent + 1, sent + n)) = n
      BY <1>1, <1>3, <1>4, <2>1
    <2> QED
      BY <1>1, <2>1, <2>2, <2>3, ConcatProperties
  <1>6. Coming(places) /\ zipOk = TRUE
    BY <1>2 DEF Alone
  <1>7. ParamsDue' = ParamsDue /\ ParamsDue \in Nat
    BY <1>2, ParamsTyped DEF ParamsDue
  <1>8. Ahead(places)'
    <2> SUFFICES ASSUME NEW r \in places, r.bytes \in Seq(Byte), Starts("ZipStart", r.bytes),
                        Len(r.bytes) <= Len(buf') + Len(job.bytes) - sent' - ParamsDue
                 PROVE  Len(r.bytes) - BlockLength(r.bytes) <= Len(job.bytes) - sent'
      BY <1>2, <1>7 DEF Ahead
    <2>1. Len(r.bytes) <= Len(buf) + Len(job.bytes) - sent - ParamsDue
      <3>1. Len(r.bytes) \in Nat
        OBVIOUS
      <3>2. Len(buf') = Len(buf) + n /\ sent' = sent + n
        BY <1>1, <1>5
      <3> QED
        BY <1>3, <1>4, <1>7, <3>1, <3>2, NoFarther
    <2>2. Len(r.bytes) - BlockLength(r.bytes) < Len(job.bytes) - sent
      BY <1>2, <1>6, <2>1, StrictlyAhead
    <2>3. Len(r.bytes) - BlockLength(r.bytes) \in Ends(job)
      BY BlockPlace
    <2> DEFINE t == Len(r.bytes) - BlockLength(r.bytes)
    <2>4. t <= Len(job.bytes) - (sent + n)
      <3>1. t \in Ends(job) /\ t < Len(job.bytes) - sent
        BY <2>2, <2>3
      <3> HIDE DEF t
      <3> QED
        BY <1>1, <1>3, <1>4, <3>1, EndCuts
    <2> QED
      BY <1>1, <2>4
  <1>9. ASSUME status' = "ZipStart" PROVE (Len(buf) <= SizeOf(Undecoded) + 2)'
    <2>1. Undecoded' = Undecoded
      BY DeliverHidden DEF Stream!vars
    <2> DEFINE m == SizeOf(Undecoded) + 2
    <2>2. 2 <= Len(Undecoded) /\ m <= Len(Undecoded) /\ Len(Undecoded) - m \in Ends(job)
      BY <1>2, <1>9, Upcoming
    <2>3. m \in Nat /\ m >= 2
      <3>1. Undecoded \in Seq(Byte)
        BY StreamTyped, ConcatProperties
      <3> QED
        BY <2>2, <3>1, SizeTyped
    <2>4. Len(buf) < 2
      BY <1>2, <1>6, <1>9 DEF Coming
    <2> HIDE DEF m
    <2>5. Len(Undecoded) - m < Len(job.bytes) - sent
      BY <1>3, <2>3, <2>4
    <2>6. Len(Undecoded) - m <= Len(job.bytes) - (sent + n)
      BY <1>1, <1>3, <1>4, <2>2, <2>5, EndCuts
    <2>7. Len(buf') <= m
      BY <1>3, <1>4, <1>5, <2>3, <2>6
    <2> QED
      BY <2>1, <2>7 DEF m
  <1>10. ASSUME status' = "ZipData" PROVE (Len(buf) <= zipSize - Len(zipData))'
    <2> DEFINE m == zipSize - Len(zipData)
    <2>1. Collected = zipData
      BY <1>2 DEF Collected
    <2>2. Len(zipData) < zipSize /\ Len(Undecoded) - m \in Ends(job)
      BY <1>2, <1>10, <2>1, Upcoming
    <2>3. m \in Nat /\ m > 0
      BY <2>2 DEF IInv, ZipTypes
    <2>4. Len(buf) = 0
      BY <1>2, <1>6, <1>10 DEF Coming
    <2> HIDE DEF m
    <2>5. Len(Undecoded) - m < Len(job.bytes) - sent
      BY <1>3, <2>3, <2>4
    <2>6. Len(Undecoded) - m <= Len(job.bytes) - (sent + n)
      BY <1>1, <1>3, <1>4, <2>2, <2>5, EndCuts
    <2>7. Len(buf') <= m
      BY <1>3, <1>4, <1>5, <2>3, <2>6
    <2> QED
      BY <1>2, <2>7 DEF m
  <1> QED
    BY <1>1, <1>8, <1>9, <1>10 DEF Coming

LEMMA RestLength ==
  ASSUME IInv, NEW n \in Nat, n <= Len(buf)
  PROVE  Rest(n) \in Seq(Byte) /\ Len(Rest(n)) = Len(buf) - n /\ Len(buf) \in Nat
  BY LaterTyped DEF IInv, InputTypes, Rest, From

LEMMA FindComing ==
  ASSUME HeadsApart, IInv, BlockInv,
         NEW places, NEW rows, NEW effects, NEW ends,
         Reading(places, rows, effects, ends), Order!Reads(places, rows, effects, ends),
         Alone(places), unzip = "no", IdleFound
  PROVE  Coming(places)'
  <1>1. PICK op \in Found : status' = op /\ buf' = Rest(Len(Heads[op])) /\ UNCHANGED <<job, sent, ret>>
    BY DEF IdleFound, Consume
  <1>2. status = "Idle" /\ ~ret /\ UNCHANGED zipVars
    BY DEF IdleFound
  <1>3. /\ op \in Op /\ Len(Heads[op]) < Len(buf) /\ First(Len(Heads[op])) = Heads[op]
        /\ Len(Heads[op]) \in Nat
    BY Constants DEF Found
  <1>4. buf' \in Seq(Byte) /\ Len(buf') = Len(buf) - Len(Heads[op]) /\ Len(buf) \in Nat
    <2>1. Len(buf) \in Nat
      BY DEF IInv, InputTypes
    <2>2. Len(Heads[op]) <= Len(buf)
      BY <1>3, <2>1
    <2> QED
      BY <1>1, <1>3, <2>2, RestLength
  <1>5. Coming(places)
    BY DEF Alone
  <1>6. ParamsDue = 0 /\ ParamsDue' \in Nat
    BY <1>1, <1>2, Constants DEF ParamsDue, Settings
  <1>7. Ahead(places)'
    BY <1>1, <1>3, <1>4, <1>5, <1>6, AheadKept DEF Coming
  <1>8. ASSUME op = "ZipStart" PROVE (Len(buf) <= SizeOf(Undecoded) + 2)'
    <2> DEFINE h == Len(Heads["ZipStart"])
    <2>1. Undecoded \in Seq(Byte)
      BY StreamTyped, ConcatProperties
    <2>2. h \in 0..Len(buf) /\ h <= Len(Undecoded) /\ Stream!First(h) = First(h)
      BY <1>3, <1>4, <1>8, Seen
    <2>3. Starts("ZipStart", Undecoded)
      BY <1>3, <1>8, <2>2 DEF Starts, Stream!First
    <2>4. Place(Undecoded, pageNum, Len(out)) \in places
      BY <1>2, Upcoming
    <2> DEFINE r == Place(Undecoded, pageNum, Len(out))
    <2>5. r.bytes = Undecoded
      BY DEF Place
    <2> HIDE DEF r
    <2>6. r \in places
      BY <2>4 DEF r
    <2>7. BlockLength(Undecoded) \in Nat
      BY <2>1, <2>3, <2>5, <2>6, BlockPlace
    <2>8. /\ Len(Undecoded) = Len(buf) + Len(job.bytes) - sent
          /\ Len(job.bytes) \in Nat /\ sent \in Nat
      BY PacketsOnly
    <2>9. Len(Undecoded) - BlockLength(Undecoded) <= Len(job.bytes) - sent
      <3>1. Len(r.bytes) <= Len(buf) + Len(job.bytes) - sent - ParamsDue
        BY <1>4, <1>6, <2>5, <2>8
      <3> QED
        BY <1>5, <2>1, <2>3, <2>5, <2>6, <3>1 DEF Coming, Ahead
    <2>10. Undecoded' = From(Undecoded, h)
      <3>1. Stream!Consume(h)
        BY <1>1, <1>2, <1>8, <2>2, Taken, BlockAlone
      <3> QED
        BY <3>1 DEF Stream!Consume, Stream!Rest, From
    <2>11. BlockLength(Undecoded) = h + 2 + SizeOf(Undecoded')
      BY <2>10 DEF BlockLength
    <2>12. h \in Nat /\ Len(Undecoded) \in Nat
      BY <2>1, <2>2
    <2>13. Undecoded' \in Seq(Byte) /\ Len(Undecoded') = Len(Undecoded) - h
      BY <2>1, <2>2, <2>10, <2>12, LaterTyped
    <2>14. BlockLength(Undecoded) >= h + 3 /\ BlockLength(Undecoded) <= Len(Undecoded)
      BY <2>1, <2>3, <2>5, <2>6, BlockPlace
    <2>15. Len(buf') = Len(buf) - h
      BY <1>4, <1>8
    <2> HIDE DEF h
    <2>16. 2 <= Len(Undecoded')
      BY <2>7, <2>12, <2>13, <2>14
    <2> DEFINE m == SizeOf(Undecoded')
    <2>17. m \in Nat /\ BlockLength(Undecoded) = h + 2 + m
      BY <2>11, <2>13, <2>16, SizeTyped
    <2> HIDE DEF m
    <2>18. Len(buf) <= BlockLength(Undecoded)
      <3> DEFINE u == Len(Undecoded)
                 now == Len(buf)
                 j == Len(job.bytes)
                 k == BlockLength(Undecoded)
      <3>1. u \in Nat /\ now \in Nat /\ j \in Nat /\ sent \in Nat /\ k \in Nat
        BY <1>4, <2>7, <2>8, <2>12
      <3>2. u = now + j - sent /\ u - k <= j - sent
        BY <2>8, <2>9
      <3> HIDE DEF u, now, j, k
      <3>3. now <= k
        BY <3>1, <3>2, NotBehind
      <3> QED
        BY <3>3 DEF now, k
    <2>19. Len(buf') <= m + 2
      <3>1. Len(buf) <= h + 2 + m
        BY <2>17, <2>18
      <3>2. Len(buf) \in Nat /\ h \in Nat /\ m \in Nat
        BY <1>4, <2>12, <2>17
      <3> QED
        BY <2>15, <3>1, <3>2
    <2> QED
      BY <2>19 DEF m
  <1>9. op # "ZipData"
    BY <1>3 DEF Op, Settings
  <1> QED
    BY <1>1, <1>2, <1>7, <1>8, <1>9 DEF Coming

LEMMA DoneComing ==
  ASSUME BlocksOutgrowRemainders, HeadsApart, IInv, RemainderSmall,
         NEW places, NEW rows, NEW effects, NEW ends, Reading(places, rows, effects, ends),
         Alone(places), ZipDone
  PROVE  Coming(places)'
  <1>1. ret /\ unzip = "last" /\ UNCHANGED <<job, sent, buf, ret, status>>
    BY DEF ZipDone
  <1>2. zipOk = TRUE /\ status \notin {"ZipStart", "ZipData"}
    BY <1>1 DEF Alone, Inside
  <1>3. ParamsDue' = ParamsDue /\ ParamsDue \in Nat
    BY <1>1, ParamsTyped DEF ParamsDue
  <1>4. Ahead(places)'
    <2> SUFFICES ASSUME NEW r \in places, r.bytes \in Seq(Byte), Starts("ZipStart", r.bytes),
                        Len(r.bytes) <= Len(buf) + Len(job.bytes) - sent - ParamsDue
                 PROVE  Len(r.bytes) - BlockLength(r.bytes) <= Len(job.bytes) - sent
      BY <1>1, <1>3 DEF Ahead
    <2>1. Len(r.bytes) - BlockLength(r.bytes) < Len(job.bytes) - sent
      BY <1>1, <1>2, StrictlyAhead
    <2>2. /\ Len(r.bytes) \in Nat /\ BlockLength(r.bytes) \in Nat
          /\ Len(job.bytes) \in Nat /\ sent \in Nat
      BY BlockPlace, Constants DEF IInv, InputTypes
    <2> QED
      BY <2>1, <2>2
  <1> QED
    BY <1>1, <1>2, <1>4 DEF Coming

\* A step that leaves no block open.
LEMMA IdleComing ==
  ASSUME NEW places, IInv, Alone(places), unzip = "no",
         UNCHANGED <<job, sent>>, status' \notin {"ZipStart", "ZipData"}, ParamsDue' \in Nat,
         Len(buf') \in Nat, Len(buf') + ParamsDue <= Len(buf) + ParamsDue'
  PROVE  Coming(places)'
  <1>1. Ahead(places)
    BY DEF Alone, Coming
  <1>2. Ahead(places)'
    BY <1>1, ParamsTyped, AheadKept
  <1> QED
    BY <1>2 DEF Coming

LEMMA SetComing ==
  ASSUME NEW places, IInv, Alone(places), unzip = "no", NEW s \in Settings, Set(s)
  PROVE  Coming(places)'
  <1>1. /\ status = s /\ status' = "Idle" /\ buf' = Rest(Width[s]) /\ UNCHANGED <<job, sent>>
        /\ Len(buf) >= Need[s]
    BY DEF Set, Consume
  <1>2. Width[s] \in Nat /\ Need[s] \in Nat /\ Width[s] <= Need[s] /\ Len(buf) \in Nat
    BY Constants DEF IInv, InputTypes
  <1>3. Width[s] <= Len(buf)
    BY <1>1, <1>2
  <1>4. Len(buf') = Len(buf) - Width[s]
    BY <1>1, <1>2, <1>3, RestLength
  <1>5. ParamsDue = Width[s] /\ ParamsDue' = 0
    BY <1>1 DEF ParamsDue, Settings
  <1>6. Len(buf') \in Nat /\ Len(buf') + ParamsDue <= Len(buf) + ParamsDue'
    BY <1>2, <1>3, <1>4, <1>5
  <1> QED
    BY <1>1, <1>5, <1>6, IdleComing

LEMMA PlainComing ==
  ASSUME NEW places, IInv, Alone(places), unzip = "no",
         \/ IdleSkip \/ LineByte \/ LineRepeat
         \/ CommandSetPageStart \/ CommandSetLineEnd \/ CommandSetPageEnd
  PROVE  Coming(places)'
  <1>1. /\ UNCHANGED <<job, sent>> /\ status \notin Settings
        /\ status' \in {"Idle", "LineStart"}
    BY DEF IdleSkip, LineByte, LineRepeat, CommandSetPageStart, CommandSetLineEnd, CommandSetPageEnd,
       Consume, Grow, Settings
  <1>2. ParamsDue = 0 /\ ParamsDue' = 0
    BY <1>1 DEF ParamsDue, Settings
  <1>3. Len(buf) \in Nat
    BY DEF IInv, InputTypes
  <1>4. Len(buf') \in Nat /\ Len(buf') <= Len(buf)
    <2>1. CASE CommandSetPageStart \/ CommandSetLineEnd \/ CommandSetPageEnd
      BY <1>3, <2>1 DEF CommandSetPageStart, CommandSetLineEnd, CommandSetPageEnd
    <2>2. CASE IdleSkip \/ LineByte \/ LineRepeat
      <3>1. buf' = Rest(1) /\ 1 <= Len(buf)
        BY <1>3, <2>2, DecoderAssumption
           DEF IdleSkip, LineByte, LineRepeat, Consume, HeadFits, DecoderAssumption
      <3>2. Len(buf') = Len(buf) - 1
        BY <3>1, RestLength
      <3> QED
        BY <1>3, <3>1, <3>2
    <2> QED
      BY <2>1, <2>2
  <1> QED
    BY <1>1, <1>2, <1>3, <1>4, IdleComing

LEMMA SizeComing ==
  ASSUME IInv, BlockInv, NEW places, NEW rows, NEW effects, NEW ends,
         Order!Reads(places, rows, effects, ends), Alone(places), unzip = "no", CommandZipSize
  PROVE  Coming(places)'
  <1>1. /\ status = "ZipStart" /\ status' = "ZipData" /\ buf' = Rest(2) /\ ~ret /\ 2 <= Len(buf)
        /\ UNCHANGED <<job, sent, ret, zipData>> /\ zipSize' = SizeOf(buf)
    BY DEF CommandZipSize, Consume, SizeOf
  <1>2. Len(buf') = Len(buf) - 2 /\ Len(buf) \in Nat
    BY <1>1, RestLength
  <1>3. Coming(places)
    BY DEF Alone
  <1>4. ParamsDue = 0 /\ ParamsDue' = 0
    BY <1>1 DEF ParamsDue, Settings
  <1>5. Len(buf') \in Nat /\ Len(buf') + ParamsDue <= Len(buf) + ParamsDue'
    BY <1>1, <1>2, <1>4
  <1>6. Ahead(places)'
    BY <1>1, <1>3, <1>4, <1>5, AheadKept DEF Coming
  <1>7. zipData = <<>>
    <2>1. Collected = <<>>
      BY <1>1, Upcoming
    <2> QED
      BY <2>1 DEF Collected
  <1>8. SizeOf(buf) = SizeOf(Undecoded)
    <2>1. 1 \in 1..Len(buf) /\ 2 \in 1..Len(buf)
      BY <1>1, <1>2
    <2>2. Undecoded[1] = buf[1] /\ Undecoded[2] = buf[2]
      BY <2>1, SeenByte
    <2> QED
      BY <2>2 DEF SizeOf
  <1>9. Len(buf) <= SizeOf(buf) + 2
    BY <1>1, <1>3, <1>8 DEF Coming
  <1>10. SizeOf(buf) \in Nat
    BY <1>1, SizeTyped DEF IInv, InputTypes
  <1>11. Len(buf') <= zipSize' - Len(zipData')
    <2>1. Len(zipData') = 0
      BY <1>1, <1>7
    <2>2. Len(buf') <= SizeOf(buf)
      BY <1>2, <1>9, <1>10
    <2> QED
      BY <1>1, <1>10, <2>1, <2>2
  <1> QED
    BY <1>1, <1>6, <1>11 DEF Coming

LEMMA FetchComing ==
  ASSUME IInv, NEW places, Alone(places), unzip = "no", CommandZipFetchData, unzip' = "no"
  PROVE  Coming(places)'
  <1> DEFINE missing == zipSize - Len(zipData)
  <1>1. buf \in Seq(Byte) /\ Len(buf) \in Nat /\ zipSize \in Nat /\ zipData \in Seq(Byte)
    BY DEF IInv, InputTypes, ZipTypes
  <1>2. /\ ~ret /\ status = "ZipData" /\ Len(zipData) < zipSize
        /\ UNCHANGED <<job, sent, zipSize, status, ret>>
        /\ (IF Len(buf) < missing THEN Len(buf) ELSE missing) # missing
        /\ zipData' = zipData \o First(IF Len(buf) < missing THEN Len(buf) ELSE missing)
        /\ buf' = Rest(IF Len(buf) < missing THEN Len(buf) ELSE missing)
    BY DEF CommandZipFetchData
  <1>3. Len(buf) < missing /\ zipData' = zipData \o First(Len(buf)) /\ buf' = Rest(Len(buf))
    BY <1>2
  <1>4. First(Len(buf)) = buf
    BY <1>1, SubSeqFull DEF First
  <1>5. Len(zipData') = Len(zipData) + Len(buf)
    <2>1. zipData' = zipData \o buf
      BY <1>3, <1>4
    <2> QED
      BY <1>1, <2>1, ConcatProperties
  <1>6. buf' = <<>>
    BY <1>1, <1>3, SubSeqEmpty DEF Rest
  <1>7. Len(buf') = 0 /\ Len(zipData) \in Nat
    BY <1>1, <1>6
  <1>8. Len(buf') <= zipSize' - Len(zipData')
    BY <1>1, <1>2, <1>3, <1>5, <1>7
  <1>9. ParamsDue = 0 /\ ParamsDue' = 0
    BY <1>2 DEF ParamsDue, Settings
  <1>10. Ahead(places)'
    <2>1. Ahead(places)
      BY DEF Alone, Coming
    <2>2. Len(buf') + ParamsDue <= Len(buf) + ParamsDue'
      BY <1>1, <1>7, <1>9
    <2> QED
      BY <1>2, <1>7, <1>9, <2>1, <2>2, AheadKept
  <1> QED
    BY <1>2, <1>6, <1>8, <1>10 DEF Coming

LEMMA WaitComing ==
  ASSUME IInv, NEW places, Alone(places), unzip = "no", ReturnModle \/ PrintLine \/ UNCHANGED vars
  PROVE  Coming(places)'
  <1>1. UNCHANGED <<job, sent, buf, status, zipSize, zipData, zipOut, zipOk>>
    BY DEF ReturnModle, PrintLine, vars, zipVars
  <1>2. Coming(places)
    BY DEF Alone
  <1>3. Undecoded' = Undecoded /\ ParamsDue' = ParamsDue
    BY <1>1 DEF Undecoded, ParamsDue
  <1>4. Ahead(places)'
    BY <1>1, <1>2, <1>3 DEF Ahead, Coming
  <1>5. CASE ReturnModle
    <2>1. buf \in Seq(Byte)
      BY DEF IInv, InputTypes
    <2>2. /\ status = "ZipStart" => Len(buf) < 2
          /\ status = "ZipData" => Len(buf) = 0
      BY <1>5 DEF ReturnModle, Settings
    <2>3. status = "ZipData" => buf = <<>>
      BY <2>1, <2>2
    <2> QED
      BY <1>1, <1>2, <1>3, <1>4, <2>2, <2>3 DEF Coming
  <1>6. CASE PrintLine \/ UNCHANGED vars
    <2>1. ret' = ret
      BY <1>6 DEF PrintLine, vars
    <2> QED
      BY <1>1, <1>2, <1>3, <1>4, <2>1 DEF Coming
  <1> QED
    BY <1>5, <1>6

\* What is left of a string without blocks has none.
LEMMA LaterHolds ==
  ASSUME NEW s \in Seq(Byte), NEW n \in Nat, n <= Len(s), HoldsBlock(From(s, n))
  PROVE  HoldsBlock(s)
  <1>1. PICK i \in 0..Len(From(s, n)) : Starts("ZipStart", From(From(s, n), i))
    BY DEF HoldsBlock
  <1>2. Len(From(s, n)) = Len(s) - n /\ Len(s) \in Nat
    BY LaterTyped
  <1>3. i \in Nat /\ n + i <= Len(s) /\ n + i \in 0..Len(s)
    BY <1>2
  <1>4. From(From(s, n), i) = From(s, n + i)
    BY <1>3, Order!RestOfRest DEF Order!From, From, Order!Byte, Byte
  <1> QED
    BY <1>1, <1>3, <1>4 DEF HoldsBlock

LEMMA FetchInside ==
  ASSUME InflateTyped, NEW places, NEW rows, NEW effects, NEW ends, IInv, IInv',
         Order!Reads(places, rows, effects, ends), Alone(places),
         CommandZipFetchData, unzip' = "inflate"
  PROVE  Inside'
  <1> DEFINE m == zipSize - Len(zipData)
             n == IF Len(buf) < m THEN Len(buf) ELSE m
  <1>1. /\ status = "ZipData" /\ zipData' = zipData \o First(n)
        /\ (n = m => status' = "Idle" /\ zipOut' = Inflate(zipData').bytes)
        /\ (n # m => unzip' = unzip)
    BY DEF CommandZipFetchData
  <1>2. unzip = "no" /\ buf' = <<>>
    BY AloneEnough DEF StandsAlone
  <1>3. n = m
    BY <1>1, <1>2
  <1>4. m \in 0..Len(buf)
    <2>1. Len(buf) \in Nat /\ zipSize \in Nat /\ Len(zipData) \in Nat
      BY DEF IInv, InputTypes, ZipTypes
    <2>2. Len(zipData) < zipSize
      BY DEF CommandZipFetchData
    <2> QED
      BY <1>3, <2>1, <2>2
  <1>5. Collected = zipData
    BY <1>2 DEF Collected
  <1> HIDE DEF n
  <1>6. ~HoldsBlock(Inflate(zipData \o SubSeq(Undecoded, 1, m)).bytes)
    BY <1>1, <1>5, Upcoming
  <1>7. SubSeq(Undecoded, 1, m) = First(m)
    BY <1>4, Seen DEF Stream!First
  <1> HIDE DEF m
  <1>8. ~HoldsBlock(zipOut') /\ status' = "Idle"
    BY <1>1, <1>3, <1>6, <1>7
  <1>9. buf' \o zipOut' = zipOut'
    BY <1>2, ConcatEmptySeq DEF IInv, ZipTypes
  <1> QED
    BY <1>8, <1>9 DEF Inside

LEMMA InsideLess ==
  ASSUME IInv, Inside, NEW n \in Nat, n <= Len(buf), buf' = Rest(n), zipOut' = zipOut
  PROVE  ~HoldsBlock(buf' \o zipOut')
  <1>1. buf \in Seq(Byte) /\ zipOut \in Seq(Byte) /\ n \in 0..Len(buf)
    BY DEF IInv, InputTypes, ZipTypes
  <1>2. /\ n <= Len(buf \o zipOut)
        /\ SubSeq(buf \o zipOut, n + 1, Len(buf \o zipOut)) = SubSeq(buf, n + 1, Len(buf)) \o zipOut
    BY <1>1, Front
  <1>3. From(buf \o zipOut, n) = buf' \o zipOut'
    BY <1>2 DEF From, Rest
  <1> DEFINE s == buf \o zipOut
  <1>4. s \in Seq(Byte)
    BY <1>1, ConcatProperties
  <1>5. ~HoldsBlock(s)
    BY DEF Inside
  <1>6. n <= Len(s) /\ From(s, n) = buf' \o zipOut'
    BY <1>2, <1>3
  <1> HIDE DEF s
  <1>7. ~HoldsBlock(From(s, n))
    BY <1>4, <1>5, <1>6, LaterHolds
  <1> QED
    BY <1>6, <1>7

\* Inside a block no block is found.
LEMMA FindInside ==
  ASSUME IInv, Inside, IdleFound
  PROVE  Inside'
  <1>1. PICK op \in Found : status' = op /\ buf' = Rest(Len(Heads[op])) /\ zipOut' = zipOut
    BY DEF IdleFound, Consume, zipVars
  <1>2. /\ op \in Op /\ Len(Heads[op]) < Len(buf) /\ First(Len(Heads[op])) = Heads[op]
        /\ Len(Heads[op]) \in Nat
    BY Constants DEF Found
  <1>3. buf \in Seq(Byte) /\ zipOut \in Seq(Byte) /\ Len(buf) \in Nat
    BY DEF IInv, InputTypes, ZipTypes
  <1>4. Len(Heads[op]) <= Len(buf) /\ Len(Heads[op]) \in 0..Len(buf)
    BY <1>2, <1>3
  <1>5. op # "ZipStart"
    <2> SUFFICES ASSUME op = "ZipStart" PROVE HoldsBlock(buf \o zipOut)
      BY DEF Inside
    <2> DEFINE s == buf \o zipOut
    <2>1. /\ s \in Seq(Byte) /\ Len(Heads[op]) <= Len(s)
          /\ SubSeq(s, 1, Len(Heads[op])) = First(Len(Heads[op]))
      BY <1>3, <1>4, Front, ConcatProperties DEF First
    <2> HIDE DEF s
    <2>2. From(s, 0) = s /\ 0 \in 0..Len(s)
      <3>1. SubSeq(s, 1, Len(s)) = s
        BY <2>1, SubSeqFull
      <3> QED
        BY <2>1, <3>1 DEF From
    <2>3. Starts("ZipStart", From(s, 0))
      BY <1>2, <2>1, <2>2 DEF Starts
    <2> QED
      BY <2>2, <2>3 DEF HoldsBlock, s
  <1>6. op # "ZipData"
    BY <1>2 DEF Op, Settings
  <1> QED
    BY <1>1, <1>2, <1>4, <1>5, <1>6, InsideLess DEF Inside

LEMMA InsideNext ==
  ASSUME IInv, NEW places, Alone(places), [Next]_vars, unzip # "no", unzip' # "no"
  PROVE  Inside'
  <1>1. Inside /\ zipOk = TRUE
    BY DEF Alone
  <1>2. CASE IdleFound
    BY <1>1, <1>2, FindInside
  <1>3. CASE IdleSkip \/ LineByte \/ LineRepeat
    <2>1. Len(buf) \in Nat
      BY DEF IInv, InputTypes
    <2>2. buf' = Rest(1) /\ zipOut' = zipOut /\ 1 <= Len(buf) /\ status' \in {"Idle", "LineStart"}
      BY <1>3, <2>1, DecoderAssumption
         DEF IdleSkip, LineByte, LineRepeat, Grow, Consume, HeadFits, DecoderAssumption, zipVars
    <2> QED
      BY <1>1, <2>2, InsideLess DEF Inside
  <1>4. CASE \E s \in Settings : Set(s)
    <2>1. PICK s \in Settings : Set(s)
      BY <1>4
    <2>2. /\ buf' = Rest(Width[s]) /\ zipOut' = zipOut /\ Len(buf) >= Need[s] /\ status' = "Idle"
      BY <2>1 DEF Set, Consume, zipVars
    <2>3. Width[s] \in Nat /\ Need[s] \in Nat /\ Width[s] <= Need[s] /\ Len(buf) \in Nat
      BY Constants DEF IInv, InputTypes
    <2>4. Width[s] <= Len(buf)
      BY <2>2, <2>3
    <2> QED
      BY <1>1, <2>2, <2>3, <2>4, InsideLess DEF Inside
  <1>5. CASE \/ CommandSetPageStart \/ CommandSetLineEnd \/ CommandSetPageEnd
             \/ ReturnModle \/ PrintLine \/ UNCHANGED vars
    <2>1. UNCHANGED <<buf, zipOut>> /\ (status' = status \/ status' = "Idle")
      BY <1>5 DEF CommandSetPageStart, CommandSetLineEnd, CommandSetPageEnd, ReturnModle, PrintLine,
         vars, zipVars
    <2> QED
      BY <1>1, <2>1 DEF Inside
  <1>6. CASE ZipDecode
    <2> DEFINE n == IF Len(zipOut) < DecodeMax THEN Len(zipOut) ELSE DecodeMax
    <2>1. /\ buf' = buf \o SubSeq(zipOut, 1, n) /\ zipOut' = SubSeq(zipOut, n + 1, Len(zipOut))
          /\ status' = status
      BY <1>6 DEF ZipDecode, Realloc
    <2>2. buf \in Seq(Byte) /\ zipOut \in Seq(Byte) /\ n \in 0..Len(zipOut)
      BY Constants DEF IInv, InputTypes, ZipTypes
    <2> DEFINE p == SubSeq(zipOut, 1, n)
               q == SubSeq(zipOut, n + 1, Len(zipOut))
    <2>3. p \in Seq(Byte) /\ q \in Seq(Byte) /\ zipOut = p \o q
      BY <2>2, Split
    <2> HIDE DEF p, q
    <2>4. (buf \o p) \o q = buf \o (p \o q)
      BY <2>2, <2>3, ConcatAssociative
    <2>5. buf' \o zipOut' = buf \o zipOut
      BY <2>1, <2>3, <2>4 DEF p, q
    <2> QED
      BY <1>1, <2>1, <2>5 DEF Inside
  <1>7. CASE Deliver \/ ZipDone \/ ZipDecodeFails \/ CommandZipSize \/ CommandZipFetchData
    BY <1>1, <1>7 DEF Deliver, ZipDone, ZipDecodeFails, CommandZipSize, CommandZipFetchData, Inside
  <1> QED
    BY <1>2, <1>3, <1>4, <1>5, <1>6, <1>7 DEF Next, Decode

----------------------------------------------------------------------------
(* Where in the meaning of the job the decoder is                          *)

OrderInv ==
  \E effects, ends, places, rows :
    /\ effects = job.effects /\ Len(effects) \in Nat
    /\ ends = Ends(job) /\ job.blocks \subseteq Nat
    /\ Reading(places, rows, effects, ends)
    /\ Order!Reads(places, rows, effects, ends)
    /\ Alone(places)

LEMMA JobKept == [Next]_vars => job' = job
  BY DEF Next, vars, Deliver, PrintLine, Decode, IdleFound, IdleSkip, ReturnModle, Set, Consume,
     CommandSetPageStart, CommandSetLineEnd, CommandSetPageEnd, LineByte, LineRepeat,
     CommandZipSize, CommandZipFetchData, ZipDecode, Realloc, ZipDecodeFails, ZipDone

LEMMA ComingNext ==
  ASSUME BlocksOutgrowRemainders, HeadsApart, IInv, BlockInv, RemainderSmall, job.blocks \subseteq Nat,
         NEW places, NEW rows, NEW effects, NEW ends, ends = Ends(job),
         Reading(places, rows, effects, ends), Order!Reads(places, rows, effects, ends),
         Alone(places), [Next]_vars, unzip' = "no"
  PROVE  Coming(places)'
  <1>1. CASE unzip = "no"
    <2>1. CASE Deliver
      BY <2>1, DeliverComing
    <2>2. CASE IdleFound
      BY <1>1, <2>2, FindComing
    <2>3. CASE \E s \in Settings : Set(s)
      BY <1>1, <2>3, SetComing
    <2>4. CASE \/ IdleSkip \/ LineByte \/ LineRepeat
               \/ CommandSetPageStart \/ CommandSetLineEnd \/ CommandSetPageEnd
      BY <1>1, <2>4, PlainComing
    <2>5. CASE CommandZipSize
      BY <1>1, <2>5, SizeComing
    <2>6. CASE CommandZipFetchData
      BY <1>1, <2>6, FetchComing
    <2>7. CASE ReturnModle \/ PrintLine \/ UNCHANGED vars
      BY <1>1, <2>7, WaitComing
    <2>8. CASE ZipDecode \/ ZipDecodeFails \/ ZipDone
      BY <1>1, <2>8 DEF ZipDecode, ZipDecodeFails, ZipDone
    <2> QED
      BY <2>1, <2>2, <2>3, <2>4, <2>5, <2>6, <2>7, <2>8 DEF Next, Decode
  <1>2. CASE unzip # "no"
    <2>1. ZipDone
      BY <1>2 DEF Next, Decode, vars, zipVars, Deliver, PrintLine, IdleFound, IdleSkip, ReturnModle, Set,
         CommandSetPageStart, CommandSetLineEnd, CommandSetPageEnd, LineByte, LineRepeat,
         CommandZipSize, CommandZipFetchData, ZipDecode, ZipDecodeFails
    <2> QED
      BY <2>1, DoneComing
  <1> QED
    BY <1>1, <1>2

LEMMA AloneNext ==
  ASSUME InflateTyped, BlocksOutgrowRemainders, HeadsApart,
         IInv, IInv', BlockInv, RemainderSmall, job.blocks \subseteq Nat,
         NEW places, NEW rows, NEW effects, NEW ends, ends = Ends(job),
         Reading(places, rows, effects, ends), Order!Reads(places, rows, effects, ends),
         Order!Reads(places, rows, effects, ends)', Alone(places), [Next]_vars
  PROVE  Alone(places)'
  <1>1. zipOk' = TRUE
    <2>1. zipOk = TRUE /\ zipOk' \in BOOLEAN
      BY DEF Alone, IInv, ZipTypes
    <2>2. ~Broken'
      BY DEF Order!Reads
    <2>3. zipOk' = zipOk \/ unzip' = "inflate"
      BY DEF Next, Decode, vars, zipVars, Deliver, PrintLine, IdleFound, IdleSkip, ReturnModle, Set,
         CommandSetPageStart, CommandSetLineEnd, CommandSetPageEnd, LineByte, LineRepeat,
         CommandZipSize, CommandZipFetchData, ZipDecode, ZipDecodeFails, ZipDone
    <2> QED
      BY <2>1, <2>2, <2>3 DEF Broken
  <1>2. ASSUME unzip' = "no" PROVE Coming(places)'
    BY <1>2, ComingNext
  <1>3. ASSUME unzip' # "no" PROVE Inside'
    <2>1. CASE unzip # "no"
      BY <1>3, <2>1, InsideNext
    <2>2. CASE unzip = "no"
      <3>1. CommandZipFetchData /\ unzip' = "inflate"
        BY <1>3, <2>2 DEF Next, Decode, vars, zipVars, Deliver, PrintLine, IdleFound, IdleSkip,
           ReturnModle, Set, CommandSetPageStart, CommandSetLineEnd, CommandSetPageEnd, LineByte,
           LineRepeat, CommandZipSize, CommandZipFetchData, ZipDecode, ZipDecodeFails, ZipDone
      <3> QED
        BY <3>1, FetchInside
    <2> QED
      BY <2>1, <2>2
  <1> QED
    BY <1>1, <1>2, <1>3 DEF Alone

LEMMA OrderAlone == IInv /\ OrderInv => StandsAlone
  BY AloneEnough DEF OrderInv

LEMMA OrderInit ==
  ASSUME HeadsApart
  PROVE  Init /\ Legible(job) => OrderInv
  <1> SUFFICES ASSUME Init, Legible(job) PROVE OrderInv
    OBVIOUS
  <1>1. PICK places, rows : /\ Len(job.effects) \in Nat /\ job.blocks \subseteq Nat
                           /\ Reading(places, rows, job.effects, Ends(job))
                           /\ Place(job.bytes, 0, 0) \in places
    BY DEF Legible
  <1>2. Undecoded = job.bytes /\ Collected = <<>> /\ Broken = FALSE
    BY InitStream
  <1>3. /\ Len(out) = 0 /\ pageNum = 0 /\ status = "Idle" /\ out = <<>>
        /\ zipOk = TRUE /\ unzip = "no" /\ sent = 0 /\ buf = <<>>
    BY DEF Init
  <1>4. Order!Begun(job.effects)
    BY <1>1, <1>3 DEF Order!Begun
  <1>5. Order!Reads(places, rows, job.effects, Ends(job))
    BY <1>1, <1>2, <1>3, <1>4 DEF Order!Reads, Place, Order!Place, Order!Op, Order!Settings
  <1>6. Alone(places)
    <2>1. ParamsDue = 0 /\ Len(buf) = 0 /\ Len(job.bytes) \in Nat
      BY <1>3, Constants DEF ParamsDue, Settings, Init
    <2>2. ASSUME NEW r \in places, r.bytes \in Seq(Byte), Starts("ZipStart", r.bytes),
                 Len(r.bytes) <= Len(buf) + Len(job.bytes) - sent - ParamsDue
          PROVE  Len(r.bytes) - BlockLength(r.bytes) <= Len(job.bytes) - sent
      <3>1. BlockLength(r.bytes) \in Nat
        BY <1>1, <2>2, BlockPlace
      <3>2. Len(r.bytes) \in Nat
        BY <2>2
      <3> QED
        BY <1>3, <2>1, <2>2, <3>1, <3>2
    <2>3. Ahead(places)
      BY <2>2 DEF Ahead
    <2> QED
      BY <1>3, <2>3 DEF Alone, Coming
  <1> QED
    BY <1>1, <1>5, <1>6 DEF OrderInv

LEMMA OrderNext ==
  ASSUME InflateTyped, HeadsApart, BlocksOutgrowRemainders
  PROVE  IInv /\ IInv' /\ BlockInv /\ RemainderSmall /\ OrderInv /\ [Next]_vars => OrderInv'
  <1> SUFFICES ASSUME IInv, IInv', BlockInv, RemainderSmall, OrderInv, [Next]_vars
               PROVE  OrderInv'
    OBVIOUS
  <1>1. PICK effects, ends, places, rows :
          /\ effects = job.effects /\ Len(effects) \in Nat
          /\ ends = Ends(job) /\ job.blocks \subseteq Nat
          /\ Reading(places, rows, effects, ends)
          /\ Order!Reads(places, rows, effects, ends)
          /\ Alone(places)
    BY DEF OrderInv
  <1>2. Order!Sound(places, rows, effects, ends)
    BY <1>1, SameReading, SameFormat, SameHeads DEF Order!Sound
  <1>3. Order!StreamTypes
    <2>1. Undecoded \in Seq(Byte)
      BY StreamTyped, ConcatProperties
    <2>2. Collected \in Seq(Byte)
      BY DEF Collected, IInv, ZipTypes
    <2> QED
      BY <2>1, <2>2 DEF Order!StreamTypes, IInv, InputTypes, LineTypes, ZipTypes, PageTypes,
         Order!Byte, Byte, Order!Op, Op, Order!Settings, Settings, Status
  <1>4. [Order!Next]_(Order!vars)
    <2>1. [StandsAlone]_vars
      BY OrderAlone
    <2> QED
      BY <2>1, StepImplements, SameStream
  <1>5. Order!Reads(places, rows, effects, ends)'
    BY <1>1, <1>2, <1>3, <1>4, Order!ReadsNext
  <1>6. Alone(places)'
    BY <1>1, <1>5, AloneNext
  <1>7. job' = job
    BY JobKept
  <1>8. effects = job'.effects /\ ends = Ends(job)' /\ job'.blocks \subseteq Nat
    BY <1>1, <1>7 DEF Ends
  <1> QED
    BY <1>1, <1>5, <1>6, <1>8 DEF OrderInv

LEMMA OrderEnough == OrderInv => DecodedInOrder
  BY DEF OrderInv, Order!Reads, Order!Begun, DecodedInOrder

\* The invariant of a legible job, by which the host's blocks are by themselves, too.
LEMMA OrderAlways ==
  ASSUME InflateTyped, HeadsApart, BlocksOutgrowRemainders
  PROVE  Spec /\ Legible(job) => [](IInv /\ OrderInv)
  <1> DEFINE All == IInv /\ BlockInv /\ RemainderSmall /\ OrderInv
  <1>1. Init /\ Legible(job) => BlockInv /\ RemainderSmall /\ OrderInv
    BY InitImplements, OrderInit, InitSmall
  <1>2. IInv /\ IInv' /\ BlockInv /\ RemainderSmall /\ OrderInv /\ [Next]_vars
          => (BlockInv /\ RemainderSmall /\ OrderInv)'
    <2> SUFFICES ASSUME IInv, IInv', BlockInv, RemainderSmall, OrderInv, [Next]_vars
                 PROVE  BlockInv' /\ RemainderSmall' /\ OrderInv'
      OBVIOUS
    <2> QED
      BY BlockNext, RemainderNext, OrderAlone, OrderNext
  <1> QED
    BY <1>1, <1>2, Inductive, PTL DEF Spec

(* CommandZipFetchData overwrites what is left of the packet with the content of a   *)
(* block, and reads a block in a block the same way: it never has to. In a job that  *)
(* can be read the packet ends where the block does, and a block holds no other.      *)
THEOREM BlocksStandAloneAlways ==
  ASSUME InflateTyped, HeadsApart, BlocksOutgrowRemainders
  PROVE  Spec /\ Legible(job) => BlocksStandAlone
  <1>1. IInv /\ OrderInv => StandsAlone
    BY OrderAlone
  <1> QED
    BY <1>1, OrderAlways, PTL DEF BlocksStandAlone

(* Whatever the packets and the turns of the task, the lines and pages that           *)
(* CommandPrintDataProcess makes of a job that can be read are the ones its host       *)
(* meant, in the host's order: nothing is lost, doubled or read as something else.     *)
THEOREM DecodedInOrderAlways ==
  ASSUME InflateTyped, HeadsApart, BlocksOutgrowRemainders
  PROVE  Spec /\ Legible(job) => []DecodedInOrder
  <1>1. IInv /\ OrderInv => DecodedInOrder
    BY OrderEnough
  <1> QED
    BY <1>1, OrderAlways, PTL

(* So the cuts of a job that can be read do not show, and what CommandReceiveDataProcess *)
(* carries over to the next packet stays within CMDBufferSize, with nothing said of the  *)
(* packets but where they end.                                                           *)
THEOREM LegibleStream ==
  ASSUME InflateTyped, HeadsApart, BlocksOutgrowRemainders
  PROVE  Spec /\ Legible(job) => ImplementsStream /\ []RemainderSmall
  <1>1. Spec /\ Legible(job) => BlocksStandAlone
    BY BlocksStandAloneAlways
  <1>2. Spec /\ BlocksStandAlone => ImplementsStream
    BY CutsDoNotShow
  <1>3. Spec /\ BlocksStandAlone => []RemainderSmall
    BY RemainderSmallAlways
  <1> QED
    BY <1>1, <1>2, <1>3, PTL

=============================================================================
