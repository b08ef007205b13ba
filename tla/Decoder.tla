------------------------------ MODULE Decoder ------------------------------
(***************************************************************************)
(* The command decoder (PrintDemo/AppDriverCommand.c).  DataManagementTask *)
(* hands it packets of any size; the decoder keeps what it cannot decode   *)
(* yet in front of the next packet, so that commands, their parameters,    *)
(* lines of dots and compressed blocks may be cut anywhere.                *)
(*                                                                         *)
(* A job is the byte string a host sends together with the effects its     *)
(* commands should have.  Each step is one round of PrintDataProcesser; a  *)
(* compressed block is decoded by a second PrintDataProcesser inside the   *)
(* first one.                                                              *)
(***************************************************************************)
EXTENDS CommandFormat

CONSTANTS
  MaxPacket,    \* bytes of one packet
  Need,         \* [Settings -> Nat]: bytes that must be there to decode the parameters
  Limit,        \* PrintLinkedListCount
  StartLines    \* PrintLinkedListSP

ASSUME DecoderAssumption ==
  /\ MaxPacket \in Nat \ {0} /\ LineDots \in Nat \ {0} /\ Flag \in Nat \ {0}
  /\ MaxHead \in Nat \ {0, 1} /\ DecodeMax \in Nat \ {0}
  /\ \A j \in Jobs : j.bytes \in Seq(Byte)
  /\ Limit \in Nat /\ StartLines \in Nat /\ StartLines < Limit
  /\ Heads \in [Op -> Seq(Byte)]
  /\ \A op \in Op : Len(Heads[op]) \in 1..MaxHead
  /\ Need \in [Settings -> Nat] /\ Width \in [Settings -> Nat]
  /\ \A s \in Settings : Width[s] <= Need[s]

VARIABLES
  job,       \* what the host is sending
  sent,      \* bytes of it that were handed to the decoder
  buf,       \* command.Buffer from ReadPos on
  ret,       \* command.ReturnFlag
  status,    \* command.DecodeStatus
  half,      \* command.LineDeCodeWrite: a repeat count is due
  dotValue,  \* the colour it repeats
  dots,      \* command.Dots
  black,     \* the dots set in command.DotsMatric
  zipSize,   \* command.ZipSize
  zipData,   \* command.zipData, as far as it is filled
  unzip,     \* where ZipDecode is
  zipOut,    \* inflated bytes it has not decoded yet
  zipOk,     \* inflate() does not fail after them
  pageNum,   \* command.PageNum
  lines,     \* nodes of PrintBLink
  out        \* effects of the decoded commands so far

lineVars == <<half, dotValue, dots, black>>
zipVars  == <<zipSize, zipData, unzip, zipOut, zipOk>>
pageVars == <<pageNum, lines, out>>
vars == <<job, sent, buf, ret, status, lineVars, zipVars, pageVars>>

Status == Op \cup {"ZipData", "Idle"}

\* One type invariant: the dots of a line overrun its end by less than one repetition.
TypeOK ==
  /\ job \in Jobs /\ sent \in 0..Len(job.bytes)
  /\ buf \in Seq(Byte) /\ ret \in BOOLEAN /\ status \in Status
  /\ half \in BOOLEAN /\ dotValue \in BOOLEAN
  /\ dots \in 0 .. LineDots + 2 * Flag - 1 /\ \A d \in black : d \in Nat
  /\ zipSize \in Nat /\ zipData \in Seq(Byte)
  /\ unzip \in {"no", "inflate", "last"} /\ zipOut \in Seq(Byte) /\ zipOk \in BOOLEAN
  /\ pageNum \in Nat /\ lines \in Nat

Init ==
  /\ job \in Jobs /\ sent = 0
  /\ buf = <<>> /\ ret = TRUE /\ status = "Idle"
  /\ half = FALSE /\ dotValue = FALSE /\ dots = 0 /\ black = {}
  /\ zipSize = 0 /\ zipData = <<>> /\ unzip = "no" /\ zipOut = <<>> /\ zipOk = TRUE
  /\ pageNum = 0 /\ lines = 0 /\ out = <<>>

----------------------------------------------------------------------------
(* Packets come in and lines go out                                        *)

First(n) == SubSeq(buf, 1, n)
Rest(n) == SubSeq(buf, n + 1, Len(buf))

\* _realloc of lib_structure.a: new data goes behind what was left over.
Realloc(data) == buf' = buf \o data /\ ret' = FALSE

\* PrintDataManagement accepts a packet. The host starts a new packet after a block.
Deliver ==
  /\ ret /\ unzip = "no" /\ lines < Limit
  /\ \E n \in 1..MaxPacket :
       /\ sent + n <= Len(job.bytes)
       /\ \A e \in job.blocks : ~(sent < e /\ e < sent + n)
       /\ Realloc(SubSeq(job.bytes, sent + 1, sent + n))
       /\ sent' = sent + n
  /\ UNCHANGED <<job, status, lineVars, zipVars, pageVars>>

\* Print() takes a line, between any two steps of the decoder.
PrintLine ==
  /\ lines > 0
  /\ lines' = lines - 1
  /\ UNCHANGED <<job, sent, buf, ret, status, lineVars, zipVars, pageNum, out>>

Consume(n) == buf' = Rest(n) /\ UNCHANGED <<job, sent, ret>>

----------------------------------------------------------------------------
(* IdleProces                                                              *)

\* The commands whose head is next. One more byte than the head must be there.
Found == {op \in Op : Len(Heads[op]) < Len(buf) /\ First(Len(Heads[op])) = Heads[op]}

\* Mutant: the longest head and one more byte must be there.
HeadFitsStrictly == Len(buf) > MaxHead

\* There is room for the longest head.
HeadFits == Len(buf) >= MaxHead

\* Mutant: a line does not start at its first dot.
IdleFoundNoReset ==
  /\ ~ret /\ status = "Idle"
  /\ \E op \in Found : status' = op /\ Consume(Len(Heads[op]))
  /\ UNCHANGED <<lineVars, zipVars, pageVars>>

IdleFound ==
  /\ ~ret /\ status = "Idle"
  /\ \E op \in Found :
       /\ status' = op /\ Consume(Len(Heads[op]))
       /\ IF op = "LineStart"
          THEN half' = FALSE /\ dots' = 0 /\ black' = {} /\ UNCHANGED dotValue
          ELSE UNCHANGED lineVars
  /\ UNCHANGED <<zipVars, pageVars>>

\* Mutant: bytes are skipped before a whole head could be there.
IdleSkipEarly ==
  /\ ~ret /\ status = "Idle" /\ Found = {}
  /\ Len(buf) + 2 >= MaxHead
  /\ Consume(1)
  /\ UNCHANGED <<status, lineVars, zipVars, pageVars>>

\* A byte that starts no command is skipped once the longest head would fit.
IdleSkip ==
  /\ ~ret /\ status = "Idle" /\ Found = {}
  /\ HeadFits
  /\ Consume(1)
  /\ UNCHANGED <<status, lineVars, zipVars, pageVars>>

----------------------------------------------------------------------------
(* Commands                                                                *)

\* CommandSetSpeed, CommandSetDensity, CommandSetPaperType, CommandNVSWiFi,
\* CommandSetBTName, CommandSetPID
Set(s) ==
  /\ ~ret /\ status = s
  /\ Len(buf) >= Need[s]
  /\ out' = Append(out, Effect(s, pageNum, Value(s, First(Width[s]))))
  /\ Consume(Width[s]) /\ status' = "Idle"
  /\ UNCHANGED <<lineVars, zipVars, pageNum, lines>>

CommandSetPageStart ==
  /\ ~ret /\ status = "PageStart"
  /\ status' = "Idle"
  /\ out' = Append(out, Effect("PageStart", pageNum, <<>>))
  /\ UNCHANGED <<job, sent, buf, ret, lineVars, zipVars, pageNum, lines>>

CommandSetLineEnd ==
  /\ ~ret /\ status = "LineEnd"
  /\ status' = "Idle"
  /\ UNCHANGED <<job, sent, buf, ret, lineVars, zipVars, pageVars>>

CommandSetPageEnd ==
  /\ ~ret /\ status = "PageEnd"
  /\ status' = "Idle"
  /\ pageNum' = pageNum + 1
  /\ out' = Append(out, Effect("PageEnd", pageNum', <<>>))
  /\ UNCHANGED <<job, sent, buf, ret, lineVars, zipVars, lines>>

----------------------------------------------------------------------------
(* CommandSetLineStart: single dots, and repeated ones                     *)

\* The line is n dots long now; a full one is written to the print list.
Grow(n) ==
  /\ dots' = n
  /\ IF n >= LineDots
     THEN /\ status' = "Idle"
          /\ out' = Append(out, Effect("Line", pageNum, Row(black')))
          /\ lines' = lines + 1
     ELSE UNCHANGED <<status, out, lines>>
  /\ UNCHANGED pageNum

LineByte ==
  /\ ~ret /\ status = "LineStart" /\ ~half
  /\ Len(buf) > 1
  /\ LET b == Head(buf) IN
       IF b >= Flag
       THEN /\ half' = TRUE /\ dotValue' = (b > Flag)
            /\ UNCHANGED <<status, dots, black, pageVars>>
       ELSE /\ black' = IF b > 0 /\ dots < LineDots THEN black \cup {dots} ELSE black
            /\ Grow(dots + 1)
            /\ UNCHANGED <<half, dotValue>>
  /\ Consume(1)
  /\ UNCHANGED zipVars

\* Mutant: repeated dots are written past the end of the line.
LineRepeatUnclipped ==
  /\ ~ret /\ status = "LineStart" /\ half
  /\ Len(buf) > 1
  /\ LET end == dots + Head(buf) + 1 IN
       /\ black' = IF dotValue THEN black \cup dots .. end - 1 ELSE black
       /\ Grow(end)
  /\ half' = FALSE
  /\ Consume(1)
  /\ UNCHANGED <<dotValue, zipVars>>

LineRepeat ==
  /\ ~ret /\ status = "LineStart" /\ half
  /\ Len(buf) > 1
  /\ LET end == dots + Head(buf) + 1 IN
       /\ black' = IF dotValue
                   THEN black \cup {d \in dots .. end - 1 : d < LineDots}
                   ELSE black
       /\ Grow(end)
  /\ half' = FALSE
  /\ Consume(1)
  /\ UNCHANGED <<dotValue, zipVars>>

----------------------------------------------------------------------------
(* Compressed blocks                                                       *)

\* Mutant: the low byte comes first.
CommandZipSizeSwapped ==
  /\ ~ret /\ status = "ZipStart"
  /\ Len(buf) >= 2
  /\ zipSize' = buf[2] * 2 * Flag + buf[1]
  /\ Consume(2) /\ status' = "ZipData"
  /\ UNCHANGED <<lineVars, zipData, unzip, zipOut, zipOk, pageVars>>

CommandZipSize ==
  /\ ~ret /\ status = "ZipStart"
  /\ Len(buf) >= 2
  /\ zipSize' = buf[1] * 2 * Flag + buf[2]
  /\ Consume(2) /\ status' = "ZipData"
  /\ UNCHANGED <<lineVars, zipData, unzip, zipOut, zipOk, pageVars>>

\* CommandZipFetchData copies what is there; the last byte starts ZipDecode.
CommandZipFetchData ==
  /\ ~ret /\ status = "ZipData"
  /\ Len(buf) > 0 /\ Len(zipData) < zipSize
  /\ LET missing == zipSize - Len(zipData)
         n == IF Len(buf) < missing THEN Len(buf) ELSE missing
         z == Inflate(zipData')
     IN /\ zipData' = zipData \o First(n)
        /\ buf' = Rest(n)
        /\ IF n = missing
           THEN /\ status' = "Idle" /\ ret' = TRUE
                /\ unzip' = "inflate" /\ zipOut' = z.bytes /\ zipOk' = z.ok
           ELSE UNCHANGED <<status, ret, unzip, zipOut, zipOk>>
  /\ UNCHANGED <<job, sent, lineVars, zipSize, pageVars>>

\* ZipDecode has inflated some bytes and decodes them; fewer than DecodeMax are the last.
ZipDecode ==
  /\ ret /\ unzip = "inflate" /\ lines < Limit
  /\ LET n == IF Len(zipOut) < DecodeMax THEN Len(zipOut) ELSE DecodeMax IN
       /\ n = DecodeMax \/ zipOk
       /\ Realloc(SubSeq(zipOut, 1, n))
       /\ zipOut' = SubSeq(zipOut, n + 1, Len(zipOut))
       /\ unzip' = IF n < DecodeMax THEN "last" ELSE "inflate"
  /\ UNCHANGED <<job, sent, status, lineVars, zipSize, zipData, zipOk, pageVars>>

\* Mutant: an open command stays open.
ZipDecodeFailsInCommand ==
  /\ ret /\ unzip = "inflate" /\ ~zipOk /\ Len(zipOut) < DecodeMax
  /\ unzip' = "last" /\ zipOut' = <<>>
  /\ UNCHANGED <<job, sent, buf, ret, status, lineVars, zipSize, zipData, zipOk, pageVars>>

\* inflate() reports an error instead.
ZipDecodeFails ==
  /\ ret /\ unzip = "inflate" /\ ~zipOk /\ Len(zipOut) < DecodeMax
  /\ unzip' = "last" /\ zipOut' = <<>> /\ status' = "Idle"
  /\ UNCHANGED <<job, sent, buf, ret, lineVars, zipSize, zipData, zipOk, pageVars>>

\* Mutant: the write position in the block is not reset.
ZipDoneKeepsData ==
  /\ ret /\ unzip = "last"
  /\ unzip' = "no"
  /\ UNCHANGED <<job, sent, buf, ret, status, lineVars, zipSize, zipData, zipOut, zipOk, pageVars>>

\* Back in ZipDecodeEntrance and CommandZipFetchData: the block is freed.
ZipDone ==
  /\ ret /\ unzip = "last"
  /\ unzip' = "no" /\ zipData' = <<>>
  /\ UNCHANGED <<job, sent, buf, ret, status, lineVars, zipSize, zipOut, zipOk, pageVars>>

----------------------------------------------------------------------------
\* ReturnModle: the next round needs more bytes than there are.
ReturnModle ==
  /\ ~ret
  /\ \/ status = "Idle" /\ Found = {} /\ ~HeadFits
     \/ status \in Settings /\ Len(buf) < Need[status]
     \/ status = "LineStart" /\ Len(buf) <= 1
     \/ status = "ZipStart" /\ Len(buf) < 2
     \/ status = "ZipData" /\ Len(buf) = 0 /\ Len(zipData) < zipSize
  /\ ret' = TRUE
  /\ UNCHANGED <<job, sent, buf, status, lineVars, zipVars, pageVars>>

Decode ==
  \/ IdleFound \/ IdleSkip \/ ReturnModle
  \/ \E s \in Settings : Set(s)
  \/ CommandSetPageStart \/ CommandSetLineEnd \/ CommandSetPageEnd
  \/ LineByte \/ LineRepeat
  \/ CommandZipSize \/ CommandZipFetchData \/ ZipDecode \/ ZipDecodeFails \/ ZipDone

Next == Deliver \/ PrintLine \/ Decode

Spec == Init /\ [][Next]_vars

(* The host sends its whole job, DataManagementTask keeps running, and the *)
(* print engine drains a backlog it starts a run for.                      *)
FairSpec == Spec /\ WF_vars(Deliver) /\ WF_vars(Decode) /\ WF_vars(lines > StartLines /\ PrintLine)

----------------------------------------------------------------------------
(* Properties                                                              *)

\* Wherever packets are cut, the commands of a job take effect one by one and in order, each
\* line with its own dots on its own page: what was decoded is a beginning of the job.
DecodedInOrder ==
  /\ Len(out) <= Len(job.effects)
  /\ \A i \in 1..Len(out) : out[i] = job.effects[i]

\* A host sends a block by itself: it is not inside another one, and its last byte ends its
\* packet.  The decoder relies on it: it would decode what follows a block in its packet
\* before the block's content (325), and it has one buffer for all blocks.
StandsAlone == CommandZipFetchData => unzip = "no" /\ (unzip' = "inflate" => buf' = <<>>)
BlocksStandAlone == [][StandsAlone]_vars

\* No block with its head and size fits into what is carried over (CMDHead: 6 bytes of
\* MAxHeadLength 8, and parameters wait for one more byte at most).
BlocksOutgrowRemainders ==
  LET least == Len(Heads["ZipStart"]) + 3
  IN MaxHead <= least /\ \A s \in Settings : Need[s] <= Width[s] + least

\* What is carried over from packet to packet is shorter than the longest head or than the
\* parameters that are due, so the command buffer does not grow.  A block that broke off
\* leaves less than what the command it cut off was waiting for.
RemainderSmall ==
  ret =>
    \/ Len(buf) < MaxHead
    \/ status \in Settings /\ Len(buf) < Need[status]
    \/ ~zipOk /\ \E s \in Settings : Len(buf) < Need[s]

\* No repetition count makes a dot fall outside the line buffer.
DotsInLine == \A d \in black : d < LineDots

\* The cuts do not show: packets, remainders and pieces of blocks are decoded as the one
\* stream of CommandStream.
Undecoded == buf \o Pieces(zipOut, zipOk) \o SubSeq(job.bytes, sent + 1, Len(job.bytes))
Collected == IF unzip = "no" THEN zipData ELSE <<>>
Broken == unzip = "inflate" /\ ~zipOk
Stream == INSTANCE CommandStream WITH
  stream <- Undecoded, zipData <- Collected, broken <- Broken
ImplementsStream == Stream!Spec

\* Every command of a job takes effect in the end, whatever the packets and the backlog.
JobCompleted == <>(out = job.effects)
=============================================================================
