---------------------------- MODULE PrinterPort ----------------------------
(***************************************************************************)
(* What the receive side of the printer promises to the command decoder:   *)
(* one channel at a time owns the decoder, and the decoder is given every  *)
(* packet of a channel exactly once and in the order it was sent, while    *)
(* that channel owns it.  Channels.tla is shown to implement it.           *)
(***************************************************************************)
EXTENDS Naturals

CONSTANTS Chan,     \* the communication channels
          NoOwner   \* nobody owns the decoder

VARIABLES sent,     \* sent[c]: packets channel c has been given by its host
          taken,    \* taken[c]: packets of c the decoder has been given
          owner

vars == <<sent, taken, owner>>

Init ==
  /\ sent = [c \in Chan |-> 0]
  /\ taken = [c \in Chan |-> 0]
  /\ owner = NoOwner

\* A host hands over some more packets.
Send(c) ==
  /\ sent'[c] \in Nat /\ sent'[c] > sent[c]
  /\ sent' = [sent EXCEPT ![c] = sent'[c]]
  /\ UNCHANGED <<taken, owner>>

\* A channel with something to print takes a free decoder.
Claim(c) ==
  /\ owner = NoOwner
  /\ taken[c] < sent[c]
  /\ owner' = c
  /\ UNCHANGED <<sent, taken>>

\* The owner's next packet is decoded.
Deliver(c) ==
  /\ owner = c
  /\ taken[c] < sent[c]
  /\ taken' = [taken EXCEPT ![c] = @ + 1]
  /\ UNCHANGED <<sent, owner>>

Release ==
  /\ owner # NoOwner
  /\ owner' = NoOwner
  /\ UNCHANGED <<sent, taken>>

Next ==
  \/ \E c \in Chan : Send(c) \/ Claim(c) \/ Deliver(c)
  \/ Release

Spec == Init /\ [][Next]_vars
=============================================================================
