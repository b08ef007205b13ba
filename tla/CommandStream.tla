----------------------------- MODULE CommandStream -----------------------------
(***************************************************************************)
(* What the command decoder promises to the host: a job is decoded as one  *)
(* stream of bytes.  There are no packets, remainders or waits for the     *)
(* print list here, and what a compressed block inflates to simply stands  *)
(* where the block was.                                                    *)
(*                                                                         *)
(* Only a head as long as MaxHead may be missed: the decoder skips its     *)
(* first byte when a packet ends right behind it.                          *)
(***************************************************************************)
EXTENDS CommandFormat

VARIABLES
  stream,    \* the bytes that are not decoded yet
  status, half, dotValue, dots, black, zipSize, zipData, pageNum, out,  \* as in Decoder
  broken     \* a block is being decoded that inflate() fails on in the end

lineVars == <<half, dotValue, dots, black>>
zipVars  == <<zipSize, zipData, broken>>
pageVars == <<pageNum, out>>
vars == <<stream, status, lineVars, zipVars, pageVars>>

Init ==
  /\ \E j \in Jobs : stream = j.bytes
  /\ status = "Idle"
  /\ half = FALSE /\ dotValue = FALSE /\ dots = 0 /\ black = {}
  /\ zipSize = 0 /\ zipData = <<>> /\ broken = FALSE
  /\ pageNum = 0 /\ out = <<>>

First(n) == SubSeq(stream, 1, n)
Rest(n) == SubSeq(stream, n + 1, Len(stream))
Consume(n) == n <= Len(stream) /\ stream' = Rest(n)

Begins(op) == Len(Heads[op]) <= Len(stream) /\ First(Len(Heads[op])) = Heads[op]

----------------------------------------------------------------------------

\* A command; a line starts at its first dot.
Find(op) ==
  /\ status = "Idle" /\ status' = op
  /\ Begins(op) /\ Consume(Len(Heads[op]))
  /\ IF op = "LineStart"
     THEN half' = FALSE /\ dots' = 0 /\ black' = {} /\ UNCHANGED dotValue
     ELSE UNCHANGED lineVars
  /\ UNCHANGED <<zipVars, pageVars>>

\* A byte that starts no command.
Skip ==
  /\ status = "Idle"
  /\ \A op \in Op : Begins(op) => Len(Heads[op]) = MaxHead
  /\ Consume(1)
  /\ UNCHANGED <<status, lineVars, zipVars, pageVars>>

Set(s) ==
  /\ status = s /\ status' = "Idle"
  /\ out' = Append(out, Effect(s, pageNum, Value(s, First(Width[s]))))
  /\ Consume(Width[s])
  /\ UNCHANGED <<lineVars, zipVars, pageNum>>

\* The commands that have no parameters.
Mark(op) ==
  /\ status = op /\ status' = "Idle"
  /\ pageNum' = IF op = "PageEnd" THEN pageNum + 1 ELSE pageNum
  /\ out' = IF op = "LineEnd" THEN out ELSE Append(out, Effect(op, pageNum', <<>>))
  /\ UNCHANGED <<stream, lineVars, zipVars>>

----------------------------------------------------------------------------
(* Lines                                                                   *)

\* The line has n dots now; a full one is an effect.
Grow(n) ==
  /\ dots' = n
  /\ IF n >= LineDots
     THEN status' = "Idle" /\ out' = Append(out, Effect("Line", pageNum, Row(black')))
     ELSE UNCHANGED <<status, out>>
  /\ UNCHANGED pageNum

Dot ==
  /\ status = "LineStart" /\ ~half
  /\ Consume(1) /\ Head(stream) < Flag
  /\ black' = IF Head(stream) > 0 /\ dots < LineDots THEN black \cup {dots} ELSE black
  /\ Grow(dots + 1)
  /\ UNCHANGED <<half, dotValue, zipVars>>

Colour ==
  /\ status = "LineStart" /\ ~half /\ half' = TRUE
  /\ Consume(1) /\ Head(stream) >= Flag
  /\ dotValue' = (Head(stream) > Flag)
  /\ UNCHANGED <<status, dots, black, zipVars, pageVars>>

Repeat ==
  /\ status = "LineStart" /\ half /\ half' = FALSE
  /\ Consume(1)
  /\ LET end == dots + Head(stream) + 1 IN
       /\ black' = IF dotValue
                   THEN black \cup {d \in dots .. end - 1 : d < LineDots}
                   ELSE black
       /\ Grow(end)
  /\ UNCHANGED <<dotValue, zipVars>>

----------------------------------------------------------------------------
(* Compressed blocks                                                       *)

Size ==
  /\ status = "ZipStart" /\ status' = "ZipData"
  /\ Consume(2)
  /\ zipSize' = stream[1] * 2 * Flag + stream[2]
  /\ UNCHANGED <<lineVars, zipData, broken, pageVars>>

\* Some more bytes of a block, but not its last one.
Collect(n) ==
  /\ status = "ZipData" /\ Len(zipData) + n < zipSize
  /\ Consume(n)
  /\ zipData' = zipData \o First(n)
  /\ UNCHANGED <<status, lineVars, zipSize, broken, pageVars>>

\* The last ones: the block is replaced by what is decoded of it.
Expand(n) ==
  /\ status = "ZipData" /\ status' = "Idle"
  /\ n > 0 /\ Len(zipData) + n = zipSize /\ n <= Len(stream)
  /\ LET z == Inflate(zipData \o First(n))
     IN stream' = Pieces(z.bytes, z.ok) \o Rest(n) /\ broken' = ~z.ok
  /\ zipData' = <<>>
  /\ UNCHANGED <<lineVars, zipSize, pageVars>>

\* inflate() fails: a command that is still open is given up.
GiveUp ==
  /\ broken /\ broken' = FALSE
  /\ status' = "Idle"
  /\ UNCHANGED <<stream, lineVars, zipSize, zipData, pageVars>>

Block == Size \/ (\E n \in 1..Len(stream) : Collect(n) \/ Expand(n)) \/ GiveUp

Next ==
  \/ (\E op \in Op : Find(op)) \/ Skip
  \/ (\E s \in Settings : Set(s)) \/ (\E op \in {"PageStart", "LineEnd", "PageEnd"} : Mark(op))
  \/ Dot \/ Colour \/ Repeat
  \/ Block

Spec == Init /\ [][Next]_vars
=============================================================================
