----------------------------- MODULE CommandFormat -----------------------------
(***************************************************************************)
(* What a printer command is (PrintDemo/AppDriverCommand.c): a head, and   *)
(* parameters, dots or a compressed block behind it.  A byte has a flag of *)
(* weight Flag (0x80) and some lower bits.                                 *)
(***************************************************************************)
EXTENDS Naturals, Sequences

CONSTANTS
  Jobs,         \* set of [bytes, effects, blocks]; blocks: where compressed blocks end
  Heads,        \* CMDHead: [Op -> Seq(Byte)]
  MaxHead,      \* MAxHeadLength
  Width,        \* [Settings -> Nat]: bytes the parameters take
  MinDensity,
  LineDots,     \* LineDecodeDots
  Flag,         \* 0x80, and the base of a two-byte size is twice as much
  DecodeMax,    \* DecodeMaxBytes: inflated bytes decoded at a time
  Inflate(_)    \* zlib: [ok, bytes] for the data of a block

Settings == {"Speed", "Density", "PaperType", "NVSWiFi", "BTName", "PID"}
Op == Settings \cup {"PageStart", "LineStart", "LineEnd", "PageEnd", "ZipStart"}
Byte == 0 .. 2 * Flag - 1

\* Something decoded: an effect on page p.
Effect(op, p, data) == [op |-> op, page |-> p, data |-> data]

\* What the parameters of s are turned into.
Value(s, bytes) ==
  IF s = "Density" /\ bytes[1] < MinDensity THEN <<MinDensity>> ELSE bytes

Row(set) == [i \in 1..LineDots |-> IF i - 1 \in set THEN 1 ELSE 0]

\* Of a block that inflate() fails on, only whole pieces of DecodeMax bytes are decoded.
Pieces(bytes, ok) ==
  IF ok THEN bytes ELSE SubSeq(bytes, 1, Len(bytes) - (Len(bytes) % DecodeMax))
=============================================================================
