------------------------------ MODULE JobReading ------------------------------
(***************************************************************************)
(* What a host means by the bytes of a job, told from its side: the job is *)
(* a row of commands, each with the bytes that say it and the effect that  *)
(* is due, and a line is the row of dots that its bytes encode.  Nothing   *)
(* of the decoder is in here but the format of the commands.               *)
(***************************************************************************)
EXTENDS CommandFormat

From(b, n) == SubSeq(b, n + 1, Len(b))
Starts(op, b) == Len(Heads[op]) <= Len(b) /\ SubSeq(b, 1, Len(Heads[op])) = Heads[op]

\* No head begins another one (CMDHead, AppDriverCommand.c:27-40).
HeadsApart ==
  \A op, other \in Op : ~(op # other /\ Starts(op, Heads[other]))

----------------------------------------------------------------------------
(* Lines                                                                   *)

\* How byte i of line l goes on with the row: a dot, a colour, or how often it is repeated.
DrawsByte(l, i) ==
  LET b == l.bytes[i]
      at == l.col[i - 1]
  IN \/ /\ ~l.due[i - 1] /\ b < Flag
        /\ ~l.due[i] /\ l.col[i] = at + 1
        /\ l.row[at + 1] = IF b > 0 THEN 1 ELSE 0
     \/ /\ ~l.due[i - 1] /\ b >= Flag
        /\ l.due[i] /\ l.col[i] = at
     \/ /\ l.due[i - 1] /\ ~l.due[i] /\ l.col[i] = at + b + 1
        /\ \A d \in at .. l.col[i] - 1 :
             d < LineDots => l.row[d + 1] = IF l.bytes[i - 1] > Flag THEN 1 ELSE 0

\* The bytes of l encode its row: with i of them it has col[i] dots, and a count is due[i].
\* Only the last byte may fill the row, or overrun it.
Draws(l) ==
  LET n == Len(l.bytes) IN
    /\ l.bytes \in Seq(Byte) /\ n > 0
    /\ l.row \in [1..LineDots -> {0, 1}]
    /\ l.col \in [0..n -> Nat] /\ l.due \in [0..n -> BOOLEAN]
    /\ l.col[0] = 0 /\ ~l.due[0]
    /\ l.col[n] >= LineDots /\ ~l.due[n]
    /\ \A i \in 1..n : l.col[i - 1] < LineDots /\ DrawsByte(l, i)

----------------------------------------------------------------------------
(* Commands                                                                *)

\* A place in a job: the bytes to come, the page they are on and the effects before them.
Place(b, p, k) == [bytes |-> b, page |-> p, done |-> k]

Due(effects, k, e) == k < Len(effects) /\ effects[k + 1] = e

\* A block may begin in b.
HoldsBlock(b) == \E i \in 0..Len(b) : Starts("ZipStart", From(b, i))

\* What follows the head of op and all that belongs to it.
After(op, b, p, k, lines, effects, ends) ==
  CASE op \in Settings ->
         LET w == Width[op]
         IN IF w <= Len(b) /\ Due(effects, k, Effect(op, p, Value(op, SubSeq(b, 1, w))))
            THEN {Place(From(b, w), p, k + 1)} ELSE {}
    [] op = "PageStart" ->
         IF Due(effects, k, Effect(op, p, <<>>)) THEN {Place(b, p, k + 1)} ELSE {}
    [] op = "PageEnd" ->
         IF Due(effects, k, Effect(op, p + 1, <<>>)) THEN {Place(b, p + 1, k + 1)} ELSE {}
    [] op = "LineStart" ->
         {Place(From(b, Len(l.bytes)), p, k + 1) :
            l \in {m \in lines : /\ Len(m.bytes) <= Len(b) /\ SubSeq(b, 1, Len(m.bytes)) = m.bytes
                                 /\ Due(effects, k, Effect("Line", p, m.row))}}
    [] op = "LineEnd" -> {Place(b, p, k)}
    [] op = "ZipStart" ->
         LET n == b[1] * 2 * Flag + b[2]
             z == Inflate(SubSeq(b, 3, n + 2))
         IN IF 2 <= Len(b) /\ 0 < n /\ n + 2 <= Len(b)
               /\ z.ok /\ ~HoldsBlock(z.bytes) /\ Len(b) - (n + 2) \in ends
            THEN {Place(z.bytes \o From(b, n + 2), p, k)} ELSE {}

\* The places are those of one meaning: at each of them a command begins that leads to
\* another one, or a byte that is none, or the job ends.  A head of MaxHead bytes may be
\* missed (303), so no command of a legible job has one.
Reading(places, lines, effects, ends) ==
  /\ \A l \in lines : Draws(l)
  /\ \A r \in places :
       \/ r.bytes = <<>>
       \/ /\ \A op \in Op : ~Starts(op, r.bytes)
          /\ Place(From(r.bytes, 1), r.page, r.done) \in places
       \/ \E op \in Op :
            /\ Starts(op, r.bytes) /\ Len(Heads[op]) < MaxHead
            /\ \E q \in After(op, From(r.bytes, Len(Heads[op])), r.page, r.done, lines, effects, ends) :
                 q \in places

\* How much of job j may follow a block: a packet ends with its last byte.
Ends(j) == {Len(j.bytes) - e : e \in j.blocks}

\* Job j says what its effects are.
Legible(j) ==
  \E places, lines : /\ Len(j.effects) \in Nat /\ j.blocks \subseteq Nat
                     /\ Reading(places, lines, j.effects, Ends(j))
                     /\ Place(j.bytes, 0, 0) \in places
=============================================================================
