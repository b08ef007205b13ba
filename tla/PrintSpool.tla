------------------------------ MODULE PrintSpool ------------------------------
(***************************************************************************)
(* What the print engine promises to the decoder that fills PrintBLink:    *)
(* the engine takes lines out only while it prints or clears redundant     *)
(* ones, one at a time and from the front, and it begins only with more    *)
(* than StartLines of them.                                                *)
(***************************************************************************)
EXTENDS Naturals, Sequences

CONSTANTS
  StartLines,  \* PrintLinkedListSP
  Pages        \* the page numbers of lines

VARIABLES
  spool,   \* the lines in PrintBLink, each given by the page it belongs to
  mode,    \* "idle", "printing" or "clearing"
  blocked  \* the cover is open

vars == <<spool, mode, blocked>>

Init == spool = <<>> /\ mode = "idle" /\ blocked = FALSE

\* The decoder appends a line.
Fill(p) == spool' = Append(spool, p) /\ UNCHANGED <<mode, blocked>>

Begin ==
  /\ mode = "idle" /\ Len(spool) > StartLines
  /\ mode' = "printing" /\ UNCHANGED <<spool, blocked>>

\* A line is printed, or removed because its label has gone by.
Take ==
  /\ mode # "idle" /\ spool # <<>>
  /\ spool' = Tail(spool) /\ UNCHANGED blocked
  /\ mode' = mode \/ (mode = "clearing" /\ mode' = "idle")

End ==
  /\ \/ mode = "printing" /\ mode' \in {"idle", "clearing"}
     \/ mode = "clearing" /\ mode' = "idle"
  /\ UNCHANGED <<spool, blocked>>

Cover == blocked' = ~blocked /\ UNCHANGED <<spool, mode>>

Next == (\E p \in Pages : Fill(p)) \/ Begin \/ Take \/ End \/ Cover

Spec == Init /\ [][Next]_vars
=============================================================================
