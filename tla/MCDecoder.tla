----------------------------- MODULE MCDecoder -----------------------------
EXTENDS Decoder, JobReading, SequencesExt

\* Bytes are 0..7, the flag is 4. The heads keep the order of their real lengths and the
\* shared first byte of the two-byte and four-byte ones.
MCHeads == [op \in Op |->
  CASE op = "PageStart" -> <<6, 1>> [] op = "PageEnd" -> <<6, 2>>
    [] op = "LineStart" -> <<5, 1>> [] op = "LineEnd" -> <<5, 2>>
    [] op = "Speed" -> <<6, 3, 1>> [] op = "Density" -> <<6, 3, 2>>
    [] op = "PaperType" -> <<6, 3, 3>> [] op = "BTName" -> <<6, 3, 4>> [] op = "PID" -> <<6, 3, 5>>
    [] op = "ZipStart" -> <<7, 1, 3>> [] op = "NVSWiFi" -> <<7, 2, 3, 3>>]
MCNeed == [s \in Settings |->
  CASE s \in {"Speed", "PID"} -> 3 [] s \in {"Density", "PaperType"} -> 2
    [] s = "BTName" -> 4 [] s = "NVSWiFi" -> 5]
MCWidth == [s \in Settings |->
  CASE s \in {"Speed", "PID"} -> 2 [] s \in {"Density", "PaperType"} -> 1
    [] s = "BTName" -> 4 [] s = "NVSWiFi" -> 5]

\* What a host can send: its bytes, the effects it expects on page p, whether a page ends
\* with it and whether it is a compressed block.
Sent(bytes, effects(_), ends, zip) ==
  [bytes |-> bytes, effects |-> [p \in 0..3 |-> effects(p)], ends |-> ends, zip |-> zip]
None(p) == <<>>

Setting(s, args, value) ==
  LET effects(p) == <<Effect(s, p, value)>> IN Sent(MCHeads[s] \o args, effects, FALSE, FALSE)
Line(dotBytes, row) ==
  LET effects(p) == <<Effect("Line", p, row)>>
  IN Sent(MCHeads["LineStart"] \o dotBytes \o MCHeads["LineEnd"], effects, FALSE, FALSE)
Start ==
  LET effects(p) == <<Effect("PageStart", p, <<>>)>>
  IN Sent(MCHeads["PageStart"], effects, FALSE, FALSE)
End ==
  LET effects(p) == <<Effect("PageEnd", p + 1, <<>>)>>
  IN Sent(MCHeads["PageEnd"], effects, TRUE, FALSE)

\* Lines of nine dots: a repetition and a dot, and dots with a repetition that overruns.
LineA == Line(<<5, 7, 1>>, <<1, 1, 1, 1, 1, 1, 1, 1, 1>>)
LineB == Line(<<1, 0, 4, 1, 5, 7>>, <<1, 0, 0, 0, 1, 1, 1, 1, 1>>)

\* Two data bytes select what a block inflates to: two lines, a line and the end of its
\* page, or the beginning of a line before inflate() fails.
MCInflate(data) ==
  [ok |-> data[1] # 3,
   bytes |-> CASE data[1] = 1 -> LineA.bytes \o LineB.bytes
               [] data[1] = 2 -> LineB.bytes \o End.bytes
               [] OTHER       -> LineB.bytes]
Block(k) == MCHeads["ZipStart"] \o <<0, 2>> \o <<k, 5>>
TwoLines ==
  LET effects(p) == LineA.effects[p] \o LineB.effects[p] IN Sent(Block(1), effects, FALSE, TRUE)
LastLine ==
  LET effects(p) == LineB.effects[p] \o End.effects[p] IN Sent(Block(2), effects, TRUE, TRUE)
Corrupt == Sent(Block(3), None, FALSE, TRUE)

Marks   == {Start, End, Sent(<<6, 0, 0, 0, 0>>, None, FALSE, FALSE)}
Drawing == {LineA, LineB, End, TwoLines, LastLine, Corrupt}
Params  == {Setting("Speed", <<6, 1>>, <<6, 1>>), Setting("Density", <<0>>, <<2>>),
            Setting("PaperType", <<6>>, <<6>>), Setting("PID", <<5, 1>>, <<5, 1>>),
            Setting("BTName", <<6, 2, 7, 1>>, <<6, 2, 7, 1>>)}

\* The job of a sequence of commands. Two idle bytes follow, so that every head has one
\* more byte behind it.
Job(cmds) ==
  LET page(i)  == Cardinality({j \in 1 .. i - 1 : cmds[j].ends})
      bytes(n) == FlattenSeq([i \in 1..n |-> cmds[i].bytes])
  IN [bytes   |-> bytes(Len(cmds)) \o <<0, 0>>,
      effects |-> FlattenSeq([i \in 1 .. Len(cmds) |-> cmds[i].effects[page(i)]]),
      blocks  |-> {Len(bytes(i)) : i \in {j \in 1 .. Len(cmds) : cmds[j].zip}}]

\* Every two commands, and every three that draw.
MCJobs ==
  {Job(cmds) : cmds \in [1..2 -> Marks \cup Params \cup Drawing] \cup [1..3 -> Drawing]}
NvsJobs == {Job(<<Setting("NVSWiFi", <<1, 1, 2, 2, 3>>, <<1, 1, 2, 2, 3>>), Start>>)}

----------------------------------------------------------------------------
\* The jobs whose blocks inflate are legible: the places one comes to from their beginning
\* are those of one meaning.
LineRecord(bytes, row) ==
  LET at[i \in 0..Len(bytes)] ==
        IF i = 0 THEN [col |-> 0, due |-> FALSE]
        ELSE LET before == at[i - 1]
             IN IF before.due THEN [col |-> before.col + bytes[i] + 1, due |-> FALSE]
                ELSE IF bytes[i] >= Flag THEN [before EXCEPT !.due = TRUE]
                     ELSE [before EXCEPT !.col = @ + 1]
  IN [bytes |-> bytes, row |-> row,
      col |-> [i \in 0..Len(bytes) |-> at[i].col], due |-> [i \in 0..Len(bytes) |-> at[i].due]]
MCLines == {LineRecord(<<5, 7, 1>>, <<1, 1, 1, 1, 1, 1, 1, 1, 1>>),
            LineRecord(<<1, 0, 4, 1, 5, 7>>, <<1, 0, 0, 0, 1, 1, 1, 1, 1>>)}

Onward(r, j) ==
  LET ops == {op \in Op : Starts(op, r.bytes)}
  IN IF r.bytes = <<>> THEN {}
     ELSE IF ops = {} THEN {Place(From(r.bytes, 1), r.page, r.done)}
     ELSE UNION {After(op, From(r.bytes, Len(Heads[op])), r.page, r.done,
                       MCLines, j.effects, Ends(j)) : op \in ops}
PlacesOf(j) ==
  LET first == Place(j.bytes, 0, 0)
      within[n \in 0..20] ==
        IF n = 0 THEN {first}
        ELSE LET places == within[n - 1]
             IN places \cup UNION {Onward(r, j) : r \in places}
  IN within[20]

ASSUME LegibleJobs ==
  /\ HeadsApart /\ BlocksOutgrowRemainders
  /\ \A cmds \in [1..2 -> Marks \cup Params \cup Drawing] \cup [1..3 -> Drawing] :
       (\A i \in DOMAIN cmds : cmds[i] # Corrupt) =>
       LET j == Job(cmds) IN Reading(PlacesOf(j), MCLines, j.effects, Ends(j))
=============================================================================
