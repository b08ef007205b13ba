---------------------------- MODULE TcpServerProofs ----------------------------
(***************************************************************************)
(* Theorems about TcpServer for any number of connections and any backlog. *)
(*   1. CallInv, QueueInv, LinkInv and FreshInv hold whatever meets what:  *)
(*      where the callers of tcp_client_quit are, that entries are added   *)
(*      in the order they arrived, and that links lead to linked entries.  *)
(*      TypeOK and BusyMeansServed need no more.                           *)
(*   2. QuitInv, OrderInv and ForthInv hold until the key task deletes an  *)
(*      entry under the receive thread: one caller at a time deletes, and  *)
(*      the links forward lead through entries of the list, in order, home *)
(*      to the head.                                                       *)
(*   3. BackInv holds until list_del also meets list_add_tail: the links   *)
(*      back are then as good.                                             *)
(***************************************************************************)
EXTENDS TcpServer, SequenceTheorems, TLAPS

\* The memory of the entries that list_del has taken out, or that was given back.
Detached(a) ==
  \/ a \in GivenBack
  \/ \E t \in Thread : quitPc[t] \in {"self", "free"} /\ priv[t] = a

\* The links of an entry are set when list_add_tail comes to it.
Linked(a) == nxt[a] # NULL
InList(a) == Linked(a) /\ ~Detached(a)

Undisturbed == "quit" \notin met
At(t, pcs) == quitPc[t] \in pcs

\* A thread is in tcp_client_quit exactly while its caller waits for it, with a client.
CallInv ==
  /\ accPc \in {"link", "chain", "last"} <=> accNew # NULL
  /\ rxPc \in {"adopt", "serve", "recv", "quit", "down", "report"} => cur # NULL
  /\ quitPc["rx"] # "out" => rxPc = "quit" /\ priv["rx"] = cur
  /\ quitPc["key"] # "out" => keyPc = "quit"
  /\ \A t \in Thread : quitPc[t] # "out" => priv[t] # NULL
  /\ ~Undisturbed => keyPc \notin {"idle", "test"}

\* Connections that wait are new to the list, and come after all it has known.
QueueInv ==
  /\ \A i \in DOMAIN backlog : backlog[i] <= arrived /\ ~Linked(backlog[i])
  /\ \A i, j \in DOMAIN backlog : i < j => backlog[i] < backlog[j]
  /\ accNew # NULL => accNew <= arrived /\ \A i \in DOMAIN backlog : accNew < backlog[i]
  /\ accPc \in {"link", "chain"} => ~Linked(accNew)
  /\ \A c \in Client : Linked(c) =>
       /\ c <= arrived /\ (accNew # NULL => c <= accNew)
       /\ \A i \in DOMAIN backlog : c < backlog[i]

\* What a link or a thread leads to has links of its own.
LinkInv ==
  /\ Linked(HEAD) /\ Linked(accPrev) /\ Linked(pos)
  /\ \A a \in Node : Linked(a) => prv[a] # NULL /\ Linked(nxt[a]) /\ Linked(prv[a])
  /\ \A a \in Node : ~Linked(a) => prv[a] = NULL
  /\ \A c \in Client : c \in GivenBack \/ c = found \/ c = cur => Linked(c)
  /\ \A t \in Thread : /\ priv[t] # NULL => Linked(priv[t])
                       /\ Linked(before[t]) /\ Linked(after[t])

\* Before list_add_tail has made its last step, nobody comes to the new entry.
FreshInv ==
  accPc = "last" =>
    /\ \A a \in Node : nxt[a] # accNew
    /\ accNew \notin GivenBack /\ accNew # pos /\ accNew # found /\ accNew # cur
    /\ \A t \in Thread : accNew # priv[t] /\ accNew # after[t]
    /\ Linked(accNew) /\ prv[accNew] = accPrev

\* One caller at a time is past the test of the flag, with a client that was not given back.
QuitInv ==
  /\ Quitting("key") => priv["key"] = cur /\ ~Searching /\ ~Quitting("rx")
  /\ \A t \in Thread : At(t, {"read", "back", "forth", "self", "free"}) => quitFlag
  /\ \A t \in Thread : Quitting(t) => priv[t] \notin GivenBack
  /\ rxPc = "adopt" => cur \notin GivenBack
  /\ rxPc \in {"serve", "recv", "quit", "down", "report"} /\ ~quitFlag => cur \notin GivenBack
  /\ keyPc \in {"idle", "test"} /\ RxUses(cur) => cur \notin GivenBack
  /\ rxPc = "walk" => ~Detached(pos) /\ ~Detached(found)
  /\ \A c \in Client : freed[c] <= 1

\* The entries of the list come in the order of their numbers.
OrderInv ==
  /\ \A c \in Client : InList(c) => prv[c] < c /\ nxt[c] # c /\ (nxt[c] # HEAD => c < nxt[c])
  /\ \A t \in Thread : At(t, {"back", "forth"}) =>
       /\ before[t] < priv[t] /\ after[t] # priv[t]
       /\ after[t] # HEAD => priv[t] < after[t]
  /\ accPc \in {"chain", "last"} => accPrev < accNew

\* A link forward leads to an entry of the list, whose link back returns.
ForthInv ==
  /\ \A a \in Node : InList(a) => ~Detached(nxt[a])
  /\ \A a \in Node \ GivenBack : nxt[a] \notin GivenBack
  /\ \A a \in Node : /\ InList(a) /\ nxt[a] # HEAD
                     /\ \A t \in Thread : At(t, {"forth"}) => priv[t] # a
                     => prv[nxt[a]] = a
  /\ \A t \in Thread : At(t, {"back", "forth"}) =>
       /\ before[t] = prv[priv[t]] /\ ~Detached(after[t])
       /\ after[t] # HEAD => prv[after[t]] = IF At(t, {"back"}) THEN priv[t] ELSE before[t]

\* Without the other meeting the links back are as good.
BackInv ==
  /\ \A a \in Node : InList(a) => ~Detached(prv[a])
  /\ \A a \in Node \ GivenBack : prv[a] \notin GivenBack
  /\ \A a \in Node : /\ InList(a)
                     /\ ~(accPc = "last" /\ a = accNew)
                     /\ \A t \in Thread : At(t, {"forth"}) => after[t] # a
                     => nxt[prv[a]] = a
  /\ \A t \in Thread : At(t, {"back", "forth"}) => after[t] = nxt[priv[t]] /\ ~Adding
  /\ \A t \in Thread : At(t, {"forth"}) =>
       /\ prv[after[t]] = before[t]
       /\ \A a \in Node : InList(a) => prv[a] # priv[t]
  /\ Adding => ~Detached(accPrev) /\ nxt[accPrev] = HEAD
  /\ accPc = "chain" => prv[HEAD] = accPrev
  /\ accPc = "last" => prv[HEAD] = accNew

\* Sequences by their elements.
LEMMA Appended ==
  ASSUME NEW S, NEW s \in Seq(S), NEW x \in S
  PROVE  /\ Append(s, x) \in Seq(S) /\ DOMAIN Append(s, x) = 1..Len(s) + 1 /\ DOMAIN s = 1..Len(s)
         /\ Len(s) \in Nat
         /\ \A i \in 1..Len(s) : Append(s, x)[i] = s[i]
         /\ Append(s, x)[Len(s) + 1] = x
  BY AppendProperties

LEMMA Rest ==
  ASSUME NEW S, NEW s \in Seq(S), s # <<>>
  PROVE  /\ Tail(s) \in Seq(S) /\ Len(s) \in Nat \ {0} /\ DOMAIN s = 1..Len(s)
         /\ DOMAIN Tail(s) = 1..Len(s) - 1
         /\ \A i \in 1..Len(s) - 1 : Tail(s)[i] = s[i + 1]
         /\ Head(s) = s[1] /\ Head(s) \in S
  BY HeadTailProperties

\* The invariant, in the order in which its parts lose their hold.
IInv ==
  /\ TypeOK /\ CallInv /\ QueueInv /\ LinkInv /\ FreshInv /\ BusyMeansServed
  /\ Undisturbed => QuitInv /\ OrderInv /\ ForthInv
  /\ met = {} => BackInv

LEMMA Parts ==
  IInv => /\ TypeOK /\ CallInv /\ QueueInv /\ LinkInv /\ FreshInv /\ BusyMeansServed
          /\ Undisturbed => QuitInv /\ OrderInv /\ ForthInv
          /\ met = {} => BackInv
  BY DEF IInv

\* A meeting is not forgotten.
LEMMA MetGrows == [Next]_vars /\ TypeOK => (Undisturbed' => Undisturbed) /\ (met' = {} => met = {})
  <1> USE DEF Undisturbed, MeetIn, TypeOK
  <1> QED
    BY DEF Next, Accept, Search, Receive, Key, Quit, vars, Connect, AccWait, AccAccept, AccLink,
           AccChain, AccLast, AccFails, RxGet, RxWalk, RxFound, RxAdopt, RxServe, RxFails,
           RxQuitDone, RxDown, RxReport, KeyPressed, KeyTest, KeyQuitDone, KeyDown, QuitTest,
           QuitSet, QuitRead, QuitBack, QuitForth, QuitSelf, QuitFree, hostVars, accVars,
           quitVars, restVars, sharedVars, serverVars, serveVars, keyRest, listVars, walkVars

\* The links are followed to entries and to the head, never to an empty link: LinkInv.
LEMMA TypeNext == IInv /\ [Next]_vars => (TypeOK)'
  <1> SUFFICES ASSUME IInv, [Next]_vars PROVE (TypeOK)'
    OBVIOUS
  <1>a. TypeOK /\ CallInv /\ LinkInv
    BY Parts, MetGrows
  <1> USE TcpServerAssumption, <1>a
      DEF TcpServerAssumption, hostVars, accVars, quitVars, restVars, sharedVars, serverVars,
          serveVars, keyRest, listVars, walkVars, Thread, NULL, HEAD, Node, Client, MeetIn,
          Adding, Quitting, Unlinking, Searching, At, Linked, InList, Detached, GivenBack,
          Undisturbed, RxUses,
          AcceptGoes, RxGoes, KeyGoes, QuitGoes, Calls, AccPcs, RxPcs, KeyPcs, QuitPcs
  <1>1. CASE Connect
    BY <1>1 DEF Connect, TypeOK
  <1>2. CASE AccWait
    BY <1>2 DEF AccWait, TypeOK
  <1>3. CASE AccAccept
    BY <1>3 DEF AccAccept, TypeOK
  <1>4. CASE AccLink
    BY <1>4 DEF AccLink, TypeOK, CallInv, LinkInv
  <1>5. CASE AccChain
    <2>1. accNew \in Client /\ HEAD \in Node /\ accPrev \in Node
      BY <1>5 DEF AccChain, CallInv, TypeOK
    <2>2. nxt' \in [Node -> Node \cup {NULL}]
      BY <1>5, <2>1 DEF AccChain, TypeOK
    <2>3. prv' \in [Node -> Node \cup {NULL}]
      BY <1>5, <2>1 DEF AccChain, TypeOK
    <2>4. /\ accPc' = "last"
          /\ UNCHANGED <<hostVars, accNew, accPrev, freed, rxPc, walkVars, cur, quitFlag, running,
                        keyPc, quitVars, met>>
      BY <1>5 DEF AccChain
    <2> QED
      BY <2>2, <2>3, <2>4 DEF TypeOK
  <1>6. CASE AccLast
    BY <1>6 DEF AccLast, TypeOK
  <1>7. CASE AccFails
    BY <1>7 DEF AccFails, TypeOK
  <1>8. CASE RxGet
    BY <1>8 DEF RxGet, TypeOK, CallInv, LinkInv
  <1>9. CASE RxWalk
    BY <1>9 DEF RxWalk, TypeOK, CallInv, LinkInv
  <1>10. CASE RxFound
    BY <1>10 DEF RxFound, TypeOK
  <1>11. CASE RxAdopt
    BY <1>11, ZenonT(40) DEF RxAdopt, TypeOK
  <1>12. CASE RxServe
    BY <1>12 DEF RxServe, TypeOK
  <1>13. CASE RxFails
    BY <1>13 DEF RxFails, TypeOK
  <1>14. CASE RxQuitDone
    BY <1>14 DEF RxQuitDone, TypeOK
  <1>15. CASE RxDown
    BY <1>15, ZenonT(40) DEF RxDown, TypeOK
  <1>16. CASE RxReport
    BY <1>16 DEF RxReport, TypeOK
  <1>17. CASE KeyPressed
    BY <1>17 DEF KeyPressed, TypeOK
  <1>18. CASE KeyTest
    BY <1>18 DEF KeyTest, TypeOK
  <1>19. CASE KeyQuitDone
    BY <1>19 DEF KeyQuitDone, TypeOK
  <1>20. CASE KeyDown
    BY <1>20, ZenonT(40) DEF KeyDown, TypeOK, CallInv, LinkInv
  <1>21. ASSUME NEW t \in Thread, QuitTest(t) PROVE (TypeOK)'
    BY <1>21 DEF QuitTest, TypeOK
  <1>22. ASSUME NEW t \in Thread, QuitSet(t) PROVE (TypeOK)'
    BY <1>22 DEF QuitSet, TypeOK
  <1>23. ASSUME NEW t \in Thread, QuitRead(t) PROVE (TypeOK)'
    <2>1. priv[t] \in Client /\ prv[priv[t]] \in Node /\ nxt[priv[t]] \in Node
      BY <1>23 DEF QuitRead, CallInv, LinkInv, TypeOK
    <2>2. before' \in [Thread -> Node] /\ after' \in [Thread -> Node] /\ quitPc' \in [Thread -> QuitPcs]
      BY <1>23, <2>1 DEF QuitRead, TypeOK
    <2> QED
      BY <1>23, <2>2 DEF QuitRead, TypeOK
  <1>24. ASSUME NEW t \in Thread, QuitBack(t) PROVE (TypeOK)'
    BY <1>24 DEF QuitBack, TypeOK
  <1>25. ASSUME NEW t \in Thread, QuitForth(t) PROVE (TypeOK)'
    BY <1>25 DEF QuitForth, TypeOK
  <1>26. ASSUME NEW t \in Thread, QuitSelf(t) PROVE (TypeOK)'
    <2>1. priv[t] \in Client
      BY <1>26 DEF QuitSelf, CallInv, TypeOK
    <2>2. nxt' \in [Node -> Node \cup {NULL}] /\ prv' \in [Node -> Node \cup {NULL}]
      BY <1>26, <2>1 DEF QuitSelf, TypeOK
    <2>3. before' \in [Thread -> Node] /\ after' \in [Thread -> Node] /\ quitPc' \in [Thread -> QuitPcs]
      BY <1>26 DEF QuitSelf, TypeOK
    <2> QED
      BY <1>26, <2>2, <2>3 DEF QuitSelf, TypeOK
  <1>27. ASSUME NEW t \in Thread, QuitFree(t) PROVE (TypeOK)'
    BY <1>27 DEF QuitFree, TypeOK, CallInv, LinkInv
  <1>28. CASE UNCHANGED vars
    BY <1>28 DEF vars, TypeOK
  <1> QED
    BY <1>1, <1>2, <1>3, <1>4, <1>5, <1>6, <1>7, <1>8, <1>9, <1>10, <1>11, <1>12, <1>13, <1>14,
       <1>15, <1>16, <1>17, <1>18, <1>19, <1>20, <1>21, <1>22, <1>23, <1>24, <1>25, <1>26, <1>27,
       <1>28
       DEF Next, Accept, Search, Receive, Key, Quit

\* A caller waits in its place until tcp_client_quit returns.
LEMMA CallNext == IInv /\ [Next]_vars => (CallInv /\ BusyMeansServed)'
  <1> SUFFICES ASSUME IInv, [Next]_vars PROVE (CallInv /\ BusyMeansServed)'
    OBVIOUS
  <1>a. TypeOK /\ CallInv /\ BusyMeansServed
    BY Parts, MetGrows
  <1> USE TcpServerAssumption, <1>a
      DEF TcpServerAssumption, hostVars, accVars, quitVars, restVars, sharedVars, serverVars,
          serveVars, keyRest, listVars, walkVars, Thread, NULL, HEAD, Node, Client, MeetIn,
          Adding, Quitting, Unlinking, Searching, At, Linked, InList, Detached, GivenBack,
          Undisturbed, RxUses,
          AcceptGoes, RxGoes, KeyGoes, QuitGoes, Calls, AccPcs, RxPcs, KeyPcs, QuitPcs
  <1>1. CASE Connect
    BY <1>1 DEF Connect, CallInv, BusyMeansServed
  <1>2. CASE AccWait
    BY <1>2 DEF AccWait, CallInv, BusyMeansServed
  <1>3. CASE AccAccept
    BY <1>3 DEF AccAccept, TypeOK, CallInv, BusyMeansServed
  <1>4. CASE AccLink
    BY <1>4 DEF AccLink, CallInv, BusyMeansServed
  <1>5. CASE AccChain
    BY <1>5 DEF AccChain, CallInv, BusyMeansServed
  <1>6. CASE AccLast
    BY <1>6 DEF AccLast, CallInv, BusyMeansServed
  <1>7. CASE AccFails
    BY <1>7 DEF AccFails, CallInv, BusyMeansServed
  <1>8. CASE RxGet
    BY <1>8 DEF RxGet, CallInv, BusyMeansServed
  <1>9. CASE RxWalk
    BY <1>9 DEF RxWalk, CallInv, BusyMeansServed
  <1>10. CASE RxFound
    BY <1>10 DEF RxFound, CallInv, BusyMeansServed
  <1>11. CASE RxAdopt
    BY <1>11 DEF RxAdopt, CallInv, BusyMeansServed
  <1>12. CASE RxServe
    BY <1>12 DEF RxServe, CallInv, BusyMeansServed
  <1>13. CASE RxFails
    BY <1>13 DEF RxFails, TypeOK, CallInv, BusyMeansServed
  <1>14. CASE RxQuitDone
    BY <1>14 DEF RxQuitDone, CallInv, BusyMeansServed
  <1>15. CASE RxDown
    BY <1>15 DEF RxDown, CallInv, BusyMeansServed
  <1>16. CASE RxReport
    BY <1>16 DEF RxReport, CallInv, BusyMeansServed
  <1>17. CASE KeyPressed
    BY <1>17 DEF KeyPressed, CallInv, BusyMeansServed
  <1>18. CASE KeyTest
    BY <1>18 DEF KeyTest, TypeOK, CallInv, BusyMeansServed
  <1>19. CASE KeyQuitDone
    BY <1>19 DEF KeyQuitDone, CallInv, BusyMeansServed
  <1>20. CASE KeyDown
    BY <1>20 DEF KeyDown, CallInv, BusyMeansServed
  <1>21. ASSUME NEW t \in Thread, QuitTest(t) PROVE (CallInv /\ BusyMeansServed)'
    BY <1>21 DEF QuitTest, CallInv, BusyMeansServed
  <1>22. ASSUME NEW t \in Thread, QuitSet(t) PROVE (CallInv /\ BusyMeansServed)'
    BY <1>22 DEF QuitSet, CallInv, BusyMeansServed
  <1>23. ASSUME NEW t \in Thread, QuitRead(t) PROVE (CallInv /\ BusyMeansServed)'
    BY <1>23 DEF QuitRead, CallInv, BusyMeansServed
  <1>24. ASSUME NEW t \in Thread, QuitBack(t) PROVE (CallInv /\ BusyMeansServed)'
    BY <1>24 DEF QuitBack, CallInv, BusyMeansServed
  <1>25. ASSUME NEW t \in Thread, QuitForth(t) PROVE (CallInv /\ BusyMeansServed)'
    BY <1>25 DEF QuitForth, CallInv, BusyMeansServed
  <1>26. ASSUME NEW t \in Thread, QuitSelf(t) PROVE (CallInv /\ BusyMeansServed)'
    BY <1>26 DEF QuitSelf, CallInv, BusyMeansServed
  <1>27. ASSUME NEW t \in Thread, QuitFree(t) PROVE (CallInv /\ BusyMeansServed)'
    BY <1>27 DEF QuitFree, CallInv, BusyMeansServed
  <1>28. CASE UNCHANGED vars
    BY <1>28 DEF vars, CallInv, BusyMeansServed
  <1> QED
    BY <1>1, <1>2, <1>3, <1>4, <1>5, <1>6, <1>7, <1>8, <1>9, <1>10, <1>11, <1>12, <1>13, <1>14,
       <1>15, <1>16, <1>17, <1>18, <1>19, <1>20, <1>21, <1>22, <1>23, <1>24, <1>25, <1>26, <1>27,
       <1>28
       DEF Next, Accept, Search, Receive, Key, Quit

\* Who arrives later is added later.
LEMMA QueueNext == IInv /\ [Next]_vars => (QueueInv)'
  <1> SUFFICES ASSUME IInv, [Next]_vars PROVE (QueueInv)'
    OBVIOUS
  <1>a. TypeOK /\ CallInv /\ QueueInv /\ LinkInv
    BY Parts, MetGrows
  <1> USE TcpServerAssumption, <1>a
      DEF TcpServerAssumption, hostVars, accVars, quitVars, restVars, sharedVars, serverVars,
          serveVars, keyRest, listVars, walkVars, Thread, NULL, HEAD, Node, Client, MeetIn,
          Adding, Quitting, Unlinking, Searching, At, Linked, InList, Detached, GivenBack,
          Undisturbed, RxUses,
          AcceptGoes, RxGoes, KeyGoes, QuitGoes, Calls, AccPcs, RxPcs, KeyPcs, QuitPcs
  <1>1. CASE Connect
    <2>1. arrived \in Nat /\ arrived + 1 \in Client
      BY <1>1 DEF Connect, TypeOK
    <2>2. /\ DOMAIN backlog' = 1..Len(backlog) + 1 /\ DOMAIN backlog = 1..Len(backlog)
          /\ Len(backlog) \in Nat /\ arrived' = arrived + 1
          /\ \A i \in 1..Len(backlog) : backlog'[i] = backlog[i] /\ backlog[i] \in Client
          /\ backlog'[Len(backlog) + 1] = arrived + 1
      BY <1>1, <2>1, Appended DEF Connect, TypeOK
    <2>3. ~Linked(arrived + 1)
      BY <2>1 DEF QueueInv
    <2>4. UNCHANGED <<nxt, accNew, accPc>>
      BY <1>1 DEF Connect
    <2>5. \A i \in DOMAIN backlog' : backlog'[i] <= arrived' /\ ~Linked(backlog[i])'
      BY <2>1, <2>2, <2>3, <2>4 DEF QueueInv
    <2>6. \A i, j \in DOMAIN backlog' : i < j => backlog'[i] < backlog'[j]
      <3> SUFFICES ASSUME NEW i \in 1..Len(backlog) + 1, NEW j \in 1..Len(backlog) + 1, i < j
                   PROVE  backlog'[i] < backlog'[j]
        BY <2>2
      <3>1. i \in DOMAIN backlog /\ backlog'[i] = backlog[i] /\ backlog[i] \in Nat
        BY <2>2
      <3>2. CASE j = Len(backlog) + 1
        <4>1. backlog[i] <= arrived
          BY <3>1 DEF QueueInv
        <4> QED
          BY <2>1, <2>2, <3>1, <3>2, <4>1
      <3>3. CASE j # Len(backlog) + 1
        <4>1. j \in DOMAIN backlog /\ backlog'[j] = backlog[j]
          BY <2>2, <3>3
        <4> QED
          BY <3>1, <4>1 DEF QueueInv
      <3> QED
        BY <3>2, <3>3
    <2>7. accNew' # NULL => accNew' <= arrived' /\ \A i \in DOMAIN backlog' : accNew' < backlog'[i]
      BY <2>1, <2>2, <2>4, SMTT(30) DEF QueueInv, TypeOK
    <2>8. \A c \in Client : Linked(c)' =>
             /\ c <= arrived' /\ (accNew' # NULL => c <= accNew')
             /\ \A i \in DOMAIN backlog' : c < backlog'[i]
      BY <2>1, <2>2, <2>4 DEF QueueInv
    <2> QED
      BY <2>4, <2>5, <2>6, <2>7, <2>8 DEF QueueInv
  <1>2. CASE AccWait
    BY <1>2 DEF AccWait, QueueInv
  <1>3. CASE AccAccept
    <2>1. /\ DOMAIN backlog' = 1..Len(backlog) - 1 /\ DOMAIN backlog = 1..Len(backlog)
          /\ Len(backlog) \in Nat \ {0} /\ accNew' = backlog[1] /\ accNew' \in Client
          /\ \A i \in 1..Len(backlog) - 1 : backlog'[i] = backlog[i + 1]
          /\ \A i \in 1..Len(backlog) : backlog[i] \in Client
      BY <1>3, Rest DEF AccAccept, TypeOK
    <2>2. UNCHANGED <<nxt, arrived>> /\ accNew = NULL
      BY <1>3 DEF AccAccept, CallInv
    <2>3. /\ \A i \in 1..Len(backlog) - 1 : i + 1 \in DOMAIN backlog /\ 1 < i + 1
          /\ 1 \in DOMAIN backlog
      BY <2>1
    <2>4. \A i \in DOMAIN backlog' : /\ backlog'[i] <= arrived' /\ ~Linked(backlog[i])'
                                   /\ accNew' < backlog'[i]
      BY <2>1, <2>2, <2>3, SMTT(30) DEF QueueInv
    <2>5. \A i, j \in DOMAIN backlog' : i < j => backlog'[i] < backlog'[j]
      <3> SUFFICES ASSUME NEW i \in 1..Len(backlog) - 1, NEW j \in 1..Len(backlog) - 1, i < j
                   PROVE  backlog[i + 1] < backlog[j + 1]
        BY <2>1
      <3>1. i + 1 \in DOMAIN backlog /\ j + 1 \in DOMAIN backlog /\ i + 1 < j + 1
        BY <2>1
      <3> QED
        BY <3>1 DEF QueueInv
    <2>6. accNew' <= arrived' /\ ~Linked(accNew)'
      BY <2>1, <2>2, <2>3 DEF QueueInv
    <2>7. \A c \in Client : Linked(c)' => c <= arrived' /\ c < accNew'
      BY <2>1, <2>2, <2>3 DEF QueueInv
    <2>8. \A c \in Client : Linked(c)' => \A i \in DOMAIN backlog' : c < backlog'[i]
      BY <2>1, <2>2, <2>3 DEF QueueInv
    <2>9. accNew' \in Nat /\ \A c \in Client : c \in Nat
      BY <2>1
    <2> QED
      BY <2>4, <2>5, <2>6, <2>7, <2>8, <2>9 DEF QueueInv
  <1>4. CASE AccLink
    BY <1>4 DEF AccLink, QueueInv
  <1>5. CASE AccChain
    BY <1>5 DEF AccChain, TypeOK, CallInv, QueueInv, LinkInv
  <1>6. CASE AccLast
    <2>1. /\ accNew \in Client /\ accNew' = NULL /\ accPrev' = HEAD
          /\ UNCHANGED <<arrived, backlog, prv, freed, rxPc, pos, found, cur,
                 quitFlag, running, keyPc, quitPc, priv, before, after, met>>
          /\ accPc = "last" /\ accPc' = "wait"
      BY <1>6 DEF AccLast, TypeOK, CallInv
    <2>2. \A a \in Node : nxt'[a] = IF a = accPrev THEN accNew ELSE nxt[a]
      BY <1>6, <2>1 DEF AccLast, TypeOK
    <2> QED
      BY <2>1, <2>2 DEF TypeOK, QueueInv, LinkInv
  <1>7. CASE AccFails
    BY <1>7 DEF AccFails, QueueInv
  <1>8. CASE RxGet
    BY <1>8 DEF RxGet, QueueInv
  <1>9. CASE RxWalk
    BY <1>9 DEF RxWalk, QueueInv
  <1>10. CASE RxFound
    BY <1>10 DEF RxFound, QueueInv
  <1>11. CASE RxAdopt
    BY <1>11 DEF RxAdopt, QueueInv
  <1>12. CASE RxServe
    BY <1>12 DEF RxServe, QueueInv
  <1>13. CASE RxFails
    BY <1>13 DEF RxFails, QueueInv
  <1>14. CASE RxQuitDone
    BY <1>14 DEF RxQuitDone, QueueInv
  <1>15. CASE RxDown
    BY <1>15 DEF RxDown, QueueInv
  <1>16. CASE RxReport
    BY <1>16 DEF RxReport, QueueInv
  <1>17. CASE KeyPressed
    BY <1>17 DEF KeyPressed, QueueInv
  <1>18. CASE KeyTest
    BY <1>18 DEF KeyTest, QueueInv
  <1>19. CASE KeyQuitDone
    BY <1>19 DEF KeyQuitDone, QueueInv
  <1>20. CASE KeyDown
    BY <1>20 DEF KeyDown, QueueInv
  <1>21. ASSUME NEW t \in Thread, QuitTest(t) PROVE (QueueInv)'
    BY <1>21 DEF QuitTest, QueueInv
  <1>22. ASSUME NEW t \in Thread, QuitSet(t) PROVE (QueueInv)'
    BY <1>22 DEF QuitSet, QueueInv
  <1>23. ASSUME NEW t \in Thread, QuitRead(t) PROVE (QueueInv)'
    BY <1>23 DEF QuitRead, QueueInv
  <1>24. ASSUME NEW t \in Thread, QuitBack(t) PROVE (QueueInv)'
    BY <1>24 DEF QuitBack, QueueInv
  <1>25. ASSUME NEW t \in Thread, QuitForth(t) PROVE (QueueInv)'
    BY <1>25 DEF QuitForth, TypeOK, CallInv, QueueInv, LinkInv
  <1>26. ASSUME NEW t \in Thread, QuitSelf(t) PROVE (QueueInv)'
    BY <1>26 DEF QuitSelf, TypeOK, CallInv, QueueInv, LinkInv
  <1>27. ASSUME NEW t \in Thread, QuitFree(t) PROVE (QueueInv)'
    BY <1>27 DEF QuitFree, QueueInv
  <1>28. CASE UNCHANGED vars
    BY <1>28 DEF vars, QueueInv
  <1> QED
    BY <1>1, <1>2, <1>3, <1>4, <1>5, <1>6, <1>7, <1>8, <1>9, <1>10, <1>11, <1>12, <1>13, <1>14,
       <1>15, <1>16, <1>17, <1>18, <1>19, <1>20, <1>21, <1>22, <1>23, <1>24, <1>25, <1>26, <1>27,
       <1>28
       DEF Next, Accept, Search, Receive, Key, Quit

\* list_add_tail and list_del leave no link to an entry whose links were never set.
LEMMA LinkNext == IInv /\ [Next]_vars => (LinkInv)'
  <1> SUFFICES ASSUME IInv, [Next]_vars PROVE (LinkInv)'
    OBVIOUS
  <1>a. TypeOK /\ CallInv /\ LinkInv /\ FreshInv
    BY Parts, MetGrows
  <1> USE TcpServerAssumption, <1>a
      DEF TcpServerAssumption, hostVars, accVars, quitVars, restVars, sharedVars, serverVars,
          serveVars, keyRest, listVars, walkVars, Thread, NULL, HEAD, Node, Client, MeetIn,
          Adding, Quitting, Unlinking, Searching, At, Linked, InList, Detached, GivenBack,
          Undisturbed, RxUses,
          AcceptGoes, RxGoes, KeyGoes, QuitGoes, Calls, AccPcs, RxPcs, KeyPcs, QuitPcs
  <1>1. CASE Connect
    BY <1>1 DEF Connect, LinkInv
  <1>2. CASE AccWait
    BY <1>2 DEF AccWait, LinkInv
  <1>3. CASE AccAccept
    BY <1>3 DEF AccAccept, LinkInv
  <1>4. CASE AccLink
    BY <1>4 DEF AccLink, LinkInv
  <1>5. CASE AccChain
    <2>1. /\ accNew \in Client /\ UNCHANGED <<arrived, backlog, accNew, accPrev, freed, rxPc,
                                              pos, found, cur,
                 quitFlag, running, keyPc, quitPc, priv, before, after, met>>
          /\ accPc = "chain" /\ accPc' = "last"
      BY <1>5 DEF AccChain, TypeOK, CallInv
    <2>2. \A a \in Node : nxt'[a] = IF a = accNew THEN HEAD ELSE nxt[a]
      BY <1>5, <2>1 DEF AccChain, TypeOK
    <2>3. \A a \in Node : prv'[a] = IF a = accNew THEN accPrev ELSE IF a = HEAD THEN accNew ELSE prv[a]
      BY <1>5, <2>1 DEF AccChain, TypeOK
    <2>4. \A a \in Node : Linked(a) => Linked(a)'
      BY <2>2
    <2>5. Linked(accNew)' /\ Linked(HEAD)' /\ Linked(accPrev)' /\ accPrev \in Node /\ HEAD \in Node
      BY <2>1, <2>2, <2>4 DEF TypeOK, LinkInv
    <2>6. ASSUME NEW a \in Node, Linked(a)'
          PROVE  prv'[a] # NULL /\ Linked(nxt[a])' /\ Linked(prv[a])'
      <3>1. CASE a = accNew
        BY <2>1, <2>2, <2>3, <2>5, <3>1
      <3>2. CASE a = HEAD
        <4>1. nxt'[HEAD] = nxt[HEAD] /\ prv'[HEAD] = accNew
          BY <2>1, <2>2, <2>3
        <4>2. nxt[HEAD] \in Node /\ Linked(nxt[HEAD])
          BY DEF LinkInv, TypeOK
        <4> QED
          BY <2>1, <2>4, <2>5, <3>2, <4>1, <4>2
      <3>3. CASE a # accNew /\ a # HEAD
        <4>1. nxt'[a] = nxt[a] /\ prv'[a] = prv[a] /\ Linked(a)
          BY <2>2, <2>3, <2>6, <3>3
        <4>2. prv[a] \in Node /\ nxt[a] \in Node /\ Linked(nxt[a]) /\ Linked(prv[a])
          BY <4>1 DEF LinkInv, TypeOK
        <4> QED
          BY <2>4, <4>1, <4>2
      <3> QED
        BY <3>1, <3>2, <3>3
    <2>8. ASSUME NEW a \in Node, ~Linked(a)' PROVE prv'[a] = NULL
      <3>1. a # accNew /\ a # HEAD /\ ~Linked(a)
        BY <2>2, <2>5, <2>8
      <3> QED
        BY <2>3, <3>1 DEF LinkInv
    <2>7. /\ \A c \in Client : c \in GivenBack \/ c = found \/ c = cur => Linked(c)'
          /\ Linked(pos)'
          /\ \A u \in Thread : /\ priv[u] # NULL => Linked(priv[u])'
                               /\ Linked(before[u])' /\ Linked(after[u])'
      BY <2>1, <2>4 DEF LinkInv, TypeOK
    <2> QED
      BY <2>1, <2>5, <2>6, <2>7, <2>8 DEF LinkInv
  <1>6. CASE AccLast
    <2>1. /\ accNew \in Client /\ accNew' = NULL /\ accPrev' = HEAD
          /\ UNCHANGED <<arrived, backlog, prv, freed, rxPc, pos, found, cur,
                 quitFlag, running, keyPc, quitPc, priv, before, after, met>>
          /\ accPc = "last" /\ accPc' = "wait"
      BY <1>6 DEF AccLast, TypeOK, CallInv
    <2>2. \A a \in Node : nxt'[a] = IF a = accPrev THEN accNew ELSE nxt[a]
      BY <1>6, <2>1 DEF AccLast, TypeOK
    <2>3. Linked(accNew)
      BY <2>1 DEF FreshInv
    <2>4. \A a \in Node : Linked(a) => Linked(a)'
      BY <2>1, <2>2
    <2>5. ASSUME NEW a \in Node, Linked(a)'
          PROVE  prv'[a] # NULL /\ Linked(nxt[a])' /\ Linked(prv[a])'
      <3>1. accPrev \in Node /\ Linked(accPrev) /\ accNew \in Node
        BY <2>1 DEF LinkInv, TypeOK
      <3>2. Linked(a) /\ prv'[a] = prv[a]
        BY <2>1, <2>2, <2>5, <3>1
      <3>3. prv[a] \in Node /\ nxt[a] \in Node /\ Linked(nxt[a]) /\ Linked(prv[a])
        BY <3>2 DEF LinkInv, TypeOK
      <3> QED
        BY <2>2, <2>3, <2>4, <3>1, <3>2, <3>3
    <2>7. \A a \in Node : ~Linked(a)' => prv'[a] = NULL
      BY <2>1, <2>4 DEF LinkInv
    <2>6. /\ \A c \in Client : c \in GivenBack \/ c = found \/ c = cur => Linked(c)'
          /\ Linked(pos)' /\ Linked(HEAD)'
          /\ \A u \in Thread : /\ priv[u] # NULL => Linked(priv[u])'
                               /\ Linked(before[u])' /\ Linked(after[u])'
      BY <2>1, <2>4 DEF LinkInv, TypeOK
    <2> QED
      BY <2>1, <2>5, <2>6, <2>7 DEF LinkInv
  <1>7. CASE AccFails
    BY <1>7 DEF AccFails, LinkInv
  <1>8. CASE RxGet
    BY <1>8 DEF RxGet, LinkInv
  <1>9. CASE RxWalk
    BY <1>9 DEF RxWalk, TypeOK, CallInv, LinkInv
  <1>10. CASE RxFound
    BY <1>10 DEF RxFound, LinkInv
  <1>11. CASE RxAdopt
    BY <1>11 DEF RxAdopt, LinkInv
  <1>12. CASE RxServe
    BY <1>12 DEF RxServe, LinkInv
  <1>13. CASE RxFails
    BY <1>13 DEF RxFails, TypeOK, CallInv, LinkInv
  <1>14. CASE RxQuitDone
    BY <1>14 DEF RxQuitDone, LinkInv
  <1>15. CASE RxDown
    BY <1>15 DEF RxDown, LinkInv
  <1>16. CASE RxReport
    BY <1>16 DEF RxReport, LinkInv
  <1>17. CASE KeyPressed
    BY <1>17 DEF KeyPressed, LinkInv
  <1>18. CASE KeyTest
    BY <1>18, SMTT(30) DEF KeyTest, TypeOK, CallInv, LinkInv
  <1>19. CASE KeyQuitDone
    BY <1>19 DEF KeyQuitDone, LinkInv
  <1>20. CASE KeyDown
    BY <1>20 DEF KeyDown, LinkInv
  <1>21. ASSUME NEW t \in Thread, QuitTest(t) PROVE (LinkInv)'
    BY <1>21 DEF QuitTest, LinkInv
  <1>22. ASSUME NEW t \in Thread, QuitSet(t) PROVE (LinkInv)'
    BY <1>22 DEF QuitSet, LinkInv
  <1>23. ASSUME NEW t \in Thread, QuitRead(t) PROVE (LinkInv)'
    BY <1>23 DEF QuitRead, TypeOK, CallInv, LinkInv
  <1>24. ASSUME NEW t \in Thread, QuitBack(t) PROVE (LinkInv)'
    BY <1>24, SMTT(30) DEF QuitBack, TypeOK, CallInv, LinkInv
  <1>25. ASSUME NEW t \in Thread, QuitForth(t) PROVE (LinkInv)'
    <2>1. /\ UNCHANGED <<freed, prv, accPrev, pos, found, cur, priv, before, after>>
          /\ before[t] \in Node /\ after[t] \in Node
      BY <1>25 DEF QuitForth, TypeOK
    <2>2. \A a \in Node : nxt'[a] = IF a = before[t] THEN after[t] ELSE nxt[a]
      BY <1>25 DEF QuitForth, TypeOK
    <2>3. Linked(before[t]) /\ Linked(after[t]) /\ after[t] # NULL
      BY <2>1 DEF LinkInv
    <2>4. \A a \in Node : Linked(a)' <=> Linked(a)
      BY <2>1, <2>2, <2>3
    <2>5. ASSUME NEW a \in Node, Linked(a)'
          PROVE  prv'[a] # NULL /\ Linked(nxt[a])' /\ Linked(prv[a])'
      <3>1. Linked(a) /\ prv[a] # NULL /\ Linked(nxt[a]) /\ Linked(prv[a])
        BY <2>4, <2>5 DEF LinkInv
      <3>2. prv[a] \in Node /\ nxt[a] \in Node
        BY <3>1 DEF TypeOK
      <3> QED
        BY <2>1, <2>2, <2>3, <2>4, <3>1, <3>2
    <2>6. \A a \in Node : ~Linked(a)' => prv'[a] = NULL
      BY <2>1, <2>4 DEF LinkInv
    <2>7. /\ Linked(HEAD)' /\ Linked(accPrev)' /\ Linked(pos)'
          /\ \A c \in Client : c \in GivenBack \/ c = found \/ c = cur => Linked(c)'
      BY <2>1, <2>4 DEF LinkInv, TypeOK
    <2>8. \A u \in Thread : /\ priv[u] # NULL => Linked(priv[u])'
                            /\ Linked(before[u])' /\ Linked(after[u])'
      BY <2>1, <2>4 DEF LinkInv, TypeOK
    <2> QED
      BY <2>1, <2>5, <2>6, <2>7, <2>8 DEF LinkInv
  <1>26. ASSUME NEW t \in Thread, QuitSelf(t) PROVE (LinkInv)'
    BY <1>26 DEF QuitSelf, TypeOK, CallInv, LinkInv
  <1>27. ASSUME NEW t \in Thread, QuitFree(t) PROVE (LinkInv)'
    BY <1>27 DEF QuitFree, LinkInv
  <1>28. CASE UNCHANGED vars
    BY <1>28 DEF vars, LinkInv
  <1> QED
    BY <1>1, <1>2, <1>3, <1>4, <1>5, <1>6, <1>7, <1>8, <1>9, <1>10, <1>11, <1>12, <1>13, <1>14,
       <1>15, <1>16, <1>17, <1>18, <1>19, <1>20, <1>21, <1>22, <1>23, <1>24, <1>25, <1>26, <1>27,
       <1>28
       DEF Next, Accept, Search, Receive, Key, Quit

\* The new entry is the accept thread's own until its last step.
LEMMA FreshNext == IInv /\ [Next]_vars => (FreshInv)'
  <1> SUFFICES ASSUME IInv, [Next]_vars PROVE (FreshInv)'
    OBVIOUS
  <1>a. TypeOK /\ CallInv /\ QueueInv /\ LinkInv /\ FreshInv
    BY Parts, MetGrows
  <1> USE TcpServerAssumption, <1>a
      DEF TcpServerAssumption, hostVars, accVars, quitVars, restVars, sharedVars, serverVars,
          serveVars, keyRest, listVars, walkVars, Thread, NULL, HEAD, Node, Client, MeetIn,
          Adding, Quitting, Unlinking, Searching, At, Linked, InList, Detached, GivenBack,
          Undisturbed, RxUses,
          AcceptGoes, RxGoes, KeyGoes, QuitGoes, Calls, AccPcs, RxPcs, KeyPcs, QuitPcs
  <1>1. CASE Connect
    BY <1>1 DEF Connect, FreshInv
  <1>2. CASE AccWait
    BY <1>2 DEF AccWait, FreshInv
  <1>3. CASE AccAccept
    BY <1>3 DEF AccAccept, FreshInv
  <1>4. CASE AccLink
    BY <1>4 DEF AccLink, FreshInv
  <1>5. CASE AccChain
    <2>1. /\ accNew \in Client /\ UNCHANGED <<arrived, backlog, accNew, accPrev, freed, rxPc,
                                              pos, found, cur,
                 quitFlag, running, keyPc, quitPc, priv, before, after, met>>
          /\ accPc = "chain" /\ accPc' = "last"
      BY <1>5 DEF AccChain, TypeOK, CallInv
    <2>2. \A a \in Node : nxt'[a] = IF a = accNew THEN HEAD ELSE nxt[a]
      BY <1>5, <2>1 DEF AccChain, TypeOK
    <2>3. \A a \in Node : prv'[a] = IF a = accNew THEN accPrev ELSE IF a = HEAD THEN accNew ELSE prv[a]
      BY <1>5, <2>1 DEF AccChain, TypeOK
    <2>4. ~Linked(accNew)
      BY <2>1 DEF QueueInv
    <2>5. \A a \in Node : nxt[a] # accNew
      <3> SUFFICES ASSUME NEW a \in Node, nxt[a] = accNew PROVE FALSE
        OBVIOUS
      <3>1. Linked(a)
        BY <2>1
      <3> QED
        BY <2>4, <3>1 DEF LinkInv
    <2>6. /\ accNew \notin GivenBack /\ accNew # pos /\ accNew # found /\ accNew # cur
          /\ \A u \in Thread : accNew # priv[u] /\ accNew # after[u]
      BY <2>1, <2>4 DEF LinkInv, TypeOK
    <2> QED
      BY <2>1, <2>2, <2>3, <2>5, <2>6 DEF FreshInv, TypeOK
  <1>6. CASE AccLast
    BY <1>6 DEF AccLast, FreshInv
  <1>7. CASE AccFails
    BY <1>7 DEF AccFails, FreshInv
  <1>8. CASE RxGet
    BY <1>8 DEF RxGet, FreshInv
  <1>9. CASE RxWalk
    BY <1>9 DEF RxWalk, TypeOK, CallInv, QueueInv, LinkInv, FreshInv
  <1>10. CASE RxFound
    BY <1>10 DEF RxFound, TypeOK, CallInv, QueueInv, LinkInv, FreshInv
  <1>11. CASE RxAdopt
    BY <1>11 DEF RxAdopt, FreshInv
  <1>12. CASE RxServe
    BY <1>12 DEF RxServe, FreshInv
  <1>13. CASE RxFails
    BY <1>13 DEF RxFails, FreshInv
  <1>14. CASE RxQuitDone
    BY <1>14 DEF RxQuitDone, FreshInv
  <1>15. CASE RxDown
    BY <1>15 DEF RxDown, FreshInv
  <1>16. CASE RxReport
    BY <1>16 DEF RxReport, FreshInv
  <1>17. CASE KeyPressed
    BY <1>17 DEF KeyPressed, FreshInv
  <1>18. CASE KeyTest
    BY <1>18 DEF KeyTest, TypeOK, CallInv, QueueInv, LinkInv, FreshInv
  <1>19. CASE KeyQuitDone
    BY <1>19 DEF KeyQuitDone, FreshInv
  <1>20. CASE KeyDown
    BY <1>20 DEF KeyDown, FreshInv
  <1>21. ASSUME NEW t \in Thread, QuitTest(t) PROVE (FreshInv)'
    BY <1>21 DEF QuitTest, FreshInv
  <1>22. ASSUME NEW t \in Thread, QuitSet(t) PROVE (FreshInv)'
    BY <1>22 DEF QuitSet, FreshInv
  <1>23. ASSUME NEW t \in Thread, QuitRead(t) PROVE (FreshInv)'
    BY <1>23 DEF QuitRead, TypeOK, CallInv, QueueInv, LinkInv, FreshInv
  <1>24. ASSUME NEW t \in Thread, QuitBack(t) PROVE (FreshInv)'
    BY <1>24 DEF QuitBack, FreshInv
  <1>25. ASSUME NEW t \in Thread, QuitForth(t) PROVE (FreshInv)'
    BY <1>25 DEF QuitForth, TypeOK, CallInv, QueueInv, LinkInv, FreshInv
  <1>26. ASSUME NEW t \in Thread, QuitSelf(t) PROVE (FreshInv)'
    BY <1>26 DEF QuitSelf, TypeOK, CallInv, QueueInv, LinkInv, FreshInv
  <1>27. ASSUME NEW t \in Thread, QuitFree(t) PROVE (FreshInv)'
    BY <1>27 DEF QuitFree, FreshInv
  <1>28. CASE UNCHANGED vars
    BY <1>28 DEF vars, FreshInv
  <1> QED
    BY <1>1, <1>2, <1>3, <1>4, <1>5, <1>6, <1>7, <1>8, <1>9, <1>10, <1>11, <1>12, <1>13, <1>14,
       <1>15, <1>16, <1>17, <1>18, <1>19, <1>20, <1>21, <1>22, <1>23, <1>24, <1>25, <1>26, <1>27,
       <1>28
       DEF Next, Accept, Search, Receive, Key, Quit

\* The flag lets one caller in; it is reset only for a client that is in the list.
LEMMA QuitNext == IInv /\ [Next]_vars => (Undisturbed => QuitInv)'
  <1> SUFFICES ASSUME IInv, [Next]_vars PROVE (Undisturbed => QuitInv)'
    OBVIOUS
  <1>a. /\ TypeOK /\ CallInv /\ QueueInv /\ LinkInv /\ FreshInv
        /\ (Undisturbed' => Undisturbed) /\ (met' = {} => met = {})
        /\ Undisturbed => QuitInv /\ OrderInv /\ ForthInv
        /\ met = {} => BackInv
    BY Parts, MetGrows
  <1> USE TcpServerAssumption, <1>a
      DEF TcpServerAssumption, hostVars, accVars, quitVars, restVars, sharedVars, serverVars,
          serveVars, keyRest, listVars, walkVars, Thread, NULL, HEAD, Node, Client, MeetIn,
          Adding, Quitting, Unlinking, Searching, At, Linked, InList, Detached, GivenBack,
          Undisturbed, RxUses,
          AcceptGoes, RxGoes, KeyGoes, QuitGoes, Calls, AccPcs, RxPcs, KeyPcs, QuitPcs
  <1>1. CASE Connect
    BY <1>1 DEF Connect, QuitInv
  <1>2. CASE AccWait
    BY <1>2 DEF AccWait, QuitInv
  <1>3. CASE AccAccept
    BY <1>3 DEF AccAccept, QuitInv
  <1>4. CASE AccLink
    BY <1>4 DEF AccLink, QuitInv
  <1>5. CASE AccChain
    BY <1>5 DEF AccChain, QuitInv
  <1>6. CASE AccLast
    BY <1>6 DEF AccLast, QuitInv
  <1>7. CASE AccFails
    BY <1>7 DEF AccFails, QuitInv
  <1>8. CASE RxGet
    BY <1>8 DEF RxGet, TypeOK, CallInv, LinkInv, QuitInv, ForthInv, FreshInv
  <1>9. CASE RxWalk
    BY <1>9 DEF RxWalk, TypeOK, CallInv, LinkInv, QuitInv, ForthInv, FreshInv
  <1>10. CASE RxFound
    BY <1>10 DEF RxFound, QuitInv
  <1>11. CASE RxAdopt
    BY <1>11 DEF RxAdopt, TypeOK, CallInv, LinkInv, QuitInv, ForthInv, FreshInv
  <1>12. CASE RxServe
    BY <1>12 DEF RxServe, QuitInv
  <1>13. CASE RxFails
    BY <1>13 DEF RxFails, TypeOK, CallInv, LinkInv, QuitInv, ForthInv, FreshInv
  <1>14. CASE RxQuitDone
    BY <1>14 DEF RxQuitDone, QuitInv
  <1>15. CASE RxDown
    BY <1>15 DEF RxDown, QuitInv
  <1>16. CASE RxReport
    BY <1>16 DEF RxReport, QuitInv
  <1>17. CASE KeyPressed
    BY <1>17 DEF KeyPressed, QuitInv
  <1>18. CASE KeyTest
    BY <1>18 DEF KeyTest, TypeOK, CallInv, LinkInv, QuitInv, ForthInv, FreshInv
  <1>19. CASE KeyQuitDone
    BY <1>19 DEF KeyQuitDone, QuitInv
  <1>20. CASE KeyDown
    BY <1>20 DEF KeyDown, QuitInv
  <1>21. ASSUME NEW t \in Thread, QuitTest(t) PROVE (Undisturbed => QuitInv)'
    BY <1>21 DEF QuitTest, TypeOK, CallInv, LinkInv, QuitInv, ForthInv, FreshInv
  <1>22. ASSUME NEW t \in Thread, QuitSet(t) PROVE (Undisturbed => QuitInv)'
    BY <1>22 DEF QuitSet, QuitInv
  <1>23. ASSUME NEW t \in Thread, QuitRead(t) PROVE (Undisturbed => QuitInv)'
    BY <1>23 DEF QuitRead, QuitInv
  <1>24. ASSUME NEW t \in Thread, QuitBack(t) PROVE (Undisturbed => QuitInv)'
    BY <1>24 DEF QuitBack, QuitInv
  <1>25. ASSUME NEW t \in Thread, QuitForth(t) PROVE (Undisturbed => QuitInv)'
    BY <1>25 DEF QuitForth, TypeOK, CallInv, LinkInv, QuitInv, ForthInv, FreshInv
  <1>26. ASSUME NEW t \in Thread, QuitSelf(t) PROVE (Undisturbed => QuitInv)'
    BY <1>26 DEF QuitSelf, QuitInv
  <1>27. ASSUME NEW t \in Thread, QuitFree(t) PROVE (Undisturbed => QuitInv)'
    <2>1. /\ UNCHANGED <<arrived, backlog, nxt, prv, accPc, accNew, accPrev, rxPc, pos, found, cur,
                 quitFlag, running, keyPc, priv, before, after, met>>
          /\ quitPc[t] = "free" /\ priv[t] \in Client
      BY <1>27 DEF QuitFree, TypeOK, CallInv
    <2>2. \A u \in Thread : quitPc'[u] = IF u = t THEN "out" ELSE quitPc[u]
      BY <1>27 DEF QuitFree, TypeOK
    <2>3. \A c \in Client : freed'[c] = IF c # priv[t] THEN freed[c] ELSE IF freed[c] = 0 THEN 1 ELSE 2
      BY <1>27, <2>1 DEF QuitFree, TypeOK
    <2> QED
      BY <2>1, <2>2, <2>3, SMTT(30) DEF TypeOK, CallInv, QuitInv
  <1>28. CASE UNCHANGED vars
    BY <1>28 DEF vars, QuitInv
  <1> QED
    BY <1>1, <1>2, <1>3, <1>4, <1>5, <1>6, <1>7, <1>8, <1>9, <1>10, <1>11, <1>12, <1>13, <1>14,
       <1>15, <1>16, <1>17, <1>18, <1>19, <1>20, <1>21, <1>22, <1>23, <1>24, <1>25, <1>26, <1>27,
       <1>28
       DEF Next, Accept, Search, Receive, Key, Quit

\* list_add_tail adds behind all the others, list_del joins neighbours: the order stays.
LEMMA OrderNext == IInv /\ [Next]_vars => (Undisturbed => OrderInv)'
  <1> SUFFICES ASSUME IInv, [Next]_vars PROVE (Undisturbed => OrderInv)'
    OBVIOUS
  <1>a. /\ TypeOK /\ CallInv /\ QueueInv /\ LinkInv /\ FreshInv
        /\ (Undisturbed' => Undisturbed) /\ (met' = {} => met = {})
        /\ Undisturbed => QuitInv /\ OrderInv /\ ForthInv
        /\ met = {} => BackInv
    BY Parts, MetGrows
  <1> USE TcpServerAssumption, <1>a
      DEF TcpServerAssumption, hostVars, accVars, quitVars, restVars, sharedVars, serverVars,
          serveVars, keyRest, listVars, walkVars, Thread, NULL, HEAD, Node, Client, MeetIn,
          Adding, Quitting, Unlinking, Searching, At, Linked, InList, Detached, GivenBack,
          Undisturbed, RxUses,
          AcceptGoes, RxGoes, KeyGoes, QuitGoes, Calls, AccPcs, RxPcs, KeyPcs, QuitPcs
  <1>1. CASE Connect
    BY <1>1 DEF Connect, OrderInv
  <1>2. CASE AccWait
    BY <1>2 DEF AccWait, OrderInv
  <1>3. CASE AccAccept
    BY <1>3 DEF AccAccept, OrderInv
  <1>4. CASE AccLink
    <2>1. /\ accNew \in Client /\ accPrev' = prv[HEAD] /\ accPc = "link"
          /\ UNCHANGED <<arrived, backlog, nxt, prv, accNew, freed, quitPc, priv, before, after>>
      BY <1>4 DEF AccLink, CallInv, TypeOK
    <2>2. prv[HEAD] \in Node /\ Linked(prv[HEAD])
      BY DEF LinkInv, TypeOK
    <2>3. prv[HEAD] < accNew
      BY <2>1, <2>2 DEF QueueInv
    <2> QED
      BY <2>1, <2>3 DEF OrderInv
  <1>5. CASE AccChain
    <2>1. /\ accNew \in Client /\ UNCHANGED <<arrived, backlog, accNew, accPrev, freed, rxPc,
                                              pos, found, cur,
                 quitFlag, running, keyPc, quitPc, priv, before, after, met>>
          /\ accPc = "chain" /\ accPc' = "last"
      BY <1>5 DEF AccChain, TypeOK, CallInv
    <2>2. \A a \in Node : nxt'[a] = IF a = accNew THEN HEAD ELSE nxt[a]
      BY <1>5, <2>1 DEF AccChain, TypeOK
    <2>3. \A a \in Node : prv'[a] = IF a = accNew THEN accPrev ELSE IF a = HEAD THEN accNew ELSE prv[a]
      BY <1>5, <2>1 DEF AccChain, TypeOK
    <2> QED
      BY <2>1, <2>2, <2>3 DEF TypeOK, QueueInv, LinkInv, OrderInv
  <1>6. CASE AccLast
    BY <1>6 DEF AccLast, TypeOK, CallInv, LinkInv, QuitInv, QueueInv, FreshInv, OrderInv
  <1>7. CASE AccFails
    BY <1>7 DEF AccFails, OrderInv
  <1>8. CASE RxGet
    BY <1>8 DEF RxGet, OrderInv
  <1>9. CASE RxWalk
    BY <1>9 DEF RxWalk, OrderInv
  <1>10. CASE RxFound
    BY <1>10 DEF RxFound, OrderInv
  <1>11. CASE RxAdopt
    BY <1>11 DEF RxAdopt, OrderInv
  <1>12. CASE RxServe
    BY <1>12 DEF RxServe, OrderInv
  <1>13. CASE RxFails
    BY <1>13 DEF RxFails, TypeOK, CallInv, LinkInv, QuitInv, QueueInv, FreshInv, OrderInv
  <1>14. CASE RxQuitDone
    BY <1>14 DEF RxQuitDone, OrderInv
  <1>15. CASE RxDown
    BY <1>15 DEF RxDown, OrderInv
  <1>16. CASE RxReport
    BY <1>16 DEF RxReport, OrderInv
  <1>17. CASE KeyPressed
    BY <1>17 DEF KeyPressed, OrderInv
  <1>18. CASE KeyTest
    BY <1>18 DEF KeyTest, TypeOK, CallInv, LinkInv, QuitInv, QueueInv, FreshInv, OrderInv
  <1>19. CASE KeyQuitDone
    BY <1>19 DEF KeyQuitDone, OrderInv
  <1>20. CASE KeyDown
    BY <1>20 DEF KeyDown, OrderInv
  <1>21. ASSUME NEW t \in Thread, QuitTest(t) PROVE (Undisturbed => OrderInv)'
    BY <1>21 DEF QuitTest, OrderInv
  <1>22. ASSUME NEW t \in Thread, QuitSet(t) PROVE (Undisturbed => OrderInv)'
    BY <1>22 DEF QuitSet, OrderInv
  <1>23. ASSUME NEW t \in Thread, QuitRead(t) PROVE (Undisturbed => OrderInv)'
    BY <1>23 DEF QuitRead, TypeOK, CallInv, LinkInv, QuitInv, QueueInv, FreshInv, OrderInv
  <1>24. ASSUME NEW t \in Thread, QuitBack(t) PROVE (Undisturbed => OrderInv)'
    <2> SUFFICES ASSUME Undisturbed' PROVE OrderInv'
      OBVIOUS
    <2>a. QuitInv /\ OrderInv /\ ForthInv
      OBVIOUS
    <2> DEFINE c == priv[t]
    <2>1. /\ UNCHANGED <<nxt, freed, accPc, accNew, accPrev, priv, before, after>>
          /\ quitPc[t] = "back" /\ quitPc'[t] = "forth"
          /\ \A u \in Thread : u # t => quitPc'[u] = quitPc[u]
      BY <1>24 DEF QuitBack, TypeOK
    <2>2. \A a \in Node : prv'[a] = IF a = after[t] THEN before[t] ELSE prv[a]
      BY <1>24 DEF QuitBack, TypeOK
    <2>3. \A u \in Thread : u # t => ~Quitting(u)
      BY <2>1, <2>a DEF QuitInv
    <2>4. c \in Client /\ c \notin GivenBack /\ Linked(c) /\ before[t] \in Node /\ after[t] \in Node
      BY <2>1, <2>a DEF QuitInv, CallInv, TypeOK, LinkInv
    <2>5. before[t] < c /\ after[t] # c /\ (after[t] # HEAD => c < after[t])
      BY <2>1, <2>a DEF OrderInv
    <2>6. \A a : Detached(a)' <=> Detached(a)
      BY <2>1, <2>3
    <2>7. ASSUME NEW d \in Client, InList(d)'
          PROVE  prv'[d] < d /\ nxt'[d] # d /\ (nxt'[d] # HEAD => d < nxt'[d])
      <3>1. InList(d) /\ prv[d] < d /\ nxt[d] # d /\ (nxt[d] # HEAD => d < nxt[d])
        BY <2>1, <2>6, <2>7, <2>a DEF OrderInv
      <3>2. d = after[t] => before[t] < d
        BY <2>4, <2>5
      <3> QED
        BY <2>1, <2>2, <3>1, <3>2
    <2>8. \A u \in Thread : At(u, {"back", "forth"})' => u = t
      BY <2>1, <2>3
    <2> QED
      BY <2>1, <2>5, <2>7, <2>8, <2>a DEF OrderInv
  <1>25. ASSUME NEW t \in Thread, QuitForth(t) PROVE (Undisturbed => OrderInv)'
    BY <1>25 DEF QuitForth, TypeOK, CallInv, LinkInv, QuitInv, QueueInv, FreshInv, OrderInv
  <1>26. ASSUME NEW t \in Thread, QuitSelf(t) PROVE (Undisturbed => OrderInv)'
    BY <1>26 DEF QuitSelf, OrderInv
  <1>27. ASSUME NEW t \in Thread, QuitFree(t) PROVE (Undisturbed => OrderInv)'
    BY <1>27 DEF QuitFree, TypeOK, CallInv, LinkInv, QuitInv, QueueInv, FreshInv, OrderInv
  <1>28. CASE UNCHANGED vars
    BY <1>28 DEF vars, OrderInv
  <1> QED
    BY <1>1, <1>2, <1>3, <1>4, <1>5, <1>6, <1>7, <1>8, <1>9, <1>10, <1>11, <1>12, <1>13, <1>14,
       <1>15, <1>16, <1>17, <1>18, <1>19, <1>20, <1>21, <1>22, <1>23, <1>24, <1>25, <1>26, <1>27,
       <1>28
       DEF Next, Accept, Search, Receive, Key, Quit

\* A deleted entry is led to by no link forward, because the one before it is the last that did.
LEMMA ForthNext == IInv /\ [Next]_vars => (Undisturbed => ForthInv)'
  <1> SUFFICES ASSUME IInv, [Next]_vars PROVE (Undisturbed => ForthInv)'
    OBVIOUS
  <1>a. /\ TypeOK /\ CallInv /\ QueueInv /\ LinkInv /\ FreshInv
        /\ (Undisturbed' => Undisturbed) /\ (met' = {} => met = {})
        /\ Undisturbed => QuitInv /\ OrderInv /\ ForthInv
        /\ met = {} => BackInv
    BY Parts, MetGrows
  <1> USE TcpServerAssumption, <1>a
      DEF TcpServerAssumption, hostVars, accVars, quitVars, restVars, sharedVars, serverVars,
          serveVars, keyRest, listVars, walkVars, Thread, NULL, HEAD, Node, Client, MeetIn,
          Adding, Quitting, Unlinking, Searching, At, Linked, InList, Detached, GivenBack,
          Undisturbed, RxUses,
          AcceptGoes, RxGoes, KeyGoes, QuitGoes, Calls, AccPcs, RxPcs, KeyPcs, QuitPcs
  <1>1. CASE Connect
    BY <1>1 DEF Connect, ForthInv
  <1>2. CASE AccWait
    BY <1>2 DEF AccWait, ForthInv
  <1>3. CASE AccAccept
    BY <1>3 DEF AccAccept, ForthInv
  <1>4. CASE AccLink
    BY <1>4 DEF AccLink, ForthInv
  <1>5. CASE AccChain
    BY <1>5, SMTT(30) DEF AccChain, TypeOK, CallInv, LinkInv, QuitInv, QueueInv, FreshInv, OrderInv,
                          ForthInv
  <1>6. CASE AccLast
    BY <1>6 DEF AccLast, TypeOK, CallInv, LinkInv, QuitInv, QueueInv, FreshInv, OrderInv, ForthInv
  <1>7. CASE AccFails
    BY <1>7 DEF AccFails, ForthInv
  <1>8. CASE RxGet
    BY <1>8 DEF RxGet, ForthInv
  <1>9. CASE RxWalk
    BY <1>9 DEF RxWalk, ForthInv
  <1>10. CASE RxFound
    BY <1>10 DEF RxFound, ForthInv
  <1>11. CASE RxAdopt
    BY <1>11 DEF RxAdopt, ForthInv
  <1>12. CASE RxServe
    BY <1>12 DEF RxServe, ForthInv
  <1>13. CASE RxFails
    BY <1>13 DEF RxFails, TypeOK, CallInv, LinkInv, QuitInv, QueueInv, FreshInv, OrderInv, ForthInv
  <1>14. CASE RxQuitDone
    BY <1>14 DEF RxQuitDone, ForthInv
  <1>15. CASE RxDown
    BY <1>15 DEF RxDown, ForthInv
  <1>16. CASE RxReport
    BY <1>16 DEF RxReport, ForthInv
  <1>17. CASE KeyPressed
    BY <1>17 DEF KeyPressed, ForthInv
  <1>18. CASE KeyTest
    BY <1>18 DEF KeyTest, TypeOK, CallInv, LinkInv, QuitInv, QueueInv, FreshInv, OrderInv, ForthInv
  <1>19. CASE KeyQuitDone
    BY <1>19 DEF KeyQuitDone, ForthInv
  <1>20. CASE KeyDown
    BY <1>20 DEF KeyDown, ForthInv
  <1>21. ASSUME NEW t \in Thread, QuitTest(t) PROVE (Undisturbed => ForthInv)'
    BY <1>21 DEF QuitTest, ForthInv
  <1>22. ASSUME NEW t \in Thread, QuitSet(t) PROVE (Undisturbed => ForthInv)'
    BY <1>22 DEF QuitSet, ForthInv
  <1>23. ASSUME NEW t \in Thread, QuitRead(t) PROVE (Undisturbed => ForthInv)'
    BY <1>23, SMTT(30) DEF QuitRead, TypeOK, CallInv, LinkInv, QuitInv, QueueInv, FreshInv, OrderInv,
                           ForthInv
  <1>24. ASSUME NEW t \in Thread, QuitBack(t) PROVE (Undisturbed => ForthInv)'
    BY <1>24, SMTT(30) DEF QuitBack, TypeOK, CallInv, LinkInv, QuitInv, QueueInv, FreshInv, OrderInv,
                           ForthInv
  <1>25. ASSUME NEW t \in Thread, QuitForth(t) PROVE (Undisturbed => ForthInv)'
    <2> SUFFICES ASSUME Undisturbed' PROVE ForthInv'
      OBVIOUS
    <2>a. QuitInv /\ OrderInv /\ ForthInv
      OBVIOUS
    <2> DEFINE c == priv[t]
    <2>1. /\ UNCHANGED <<prv, freed, accPc, accNew, accPrev, priv, before, after>>
          /\ quitPc[t] = "forth" /\ quitPc'[t] = "self"
          /\ \A u \in Thread : u # t => quitPc'[u] = quitPc[u]
      BY <1>25 DEF QuitForth, TypeOK
    <2>2. \A a \in Node : nxt'[a] = IF a = before[t] THEN after[t] ELSE nxt[a]
      BY <1>25 DEF QuitForth, TypeOK
    <2>3. \A u \in Thread : u # t => ~Quitting(u)
      BY <2>1, <2>a DEF QuitInv
    <2>4. c \in Client /\ c \notin GivenBack /\ Linked(c) /\ before[t] \in Node /\ after[t] \in Node
      BY <2>1, <2>a DEF QuitInv, CallInv, TypeOK, LinkInv
    <2>5. /\ before[t] = prv[c] /\ after[t] # c /\ ~Detached(after[t])
          /\ after[t] # HEAD => prv[after[t]] = before[t]
      BY <2>1, <2>a DEF ForthInv, OrderInv
    <2>6. \A a : Detached(a)' <=> Detached(a) \/ a = c
      BY <2>1, <2>3
    <2>7. \A a \in Node : InList(a)' <=> InList(a) /\ a # c
      <3>1. \A a \in Node : Linked(a)' <=> Linked(a)
        BY <2>1, <2>2, <2>4 DEF LinkInv
      <3> QED
        BY <2>6, <3>1
    <2>8. \A a \in Node : InList(a) /\ nxt[a] # HEAD /\ a # c => prv[nxt[a]] = a
      BY <2>1, <2>3, <2>a DEF ForthInv
    <2>9. \A a \in Node : InList(a) /\ a # c /\ a # before[t] => nxt[a] # c
      BY <2>4, <2>5, <2>8
    <2>10. \A a \in Node : InList(a)' => ~Detached(nxt[a])'
      BY <2>1, <2>2, <2>5, <2>6, <2>7, <2>9, <2>a DEF ForthInv
    <2>11. \A a \in Node \ GivenBack' : nxt'[a] \notin GivenBack'
      BY <2>1, <2>2, <2>5, <2>a DEF ForthInv
    <2>12. \A a \in Node : InList(a)' /\ nxt'[a] # HEAD => prv'[nxt'[a]] = a
      BY <2>1, <2>2, <2>5, <2>7, <2>8
    <2>13. \A u \in Thread : ~At(u, {"back", "forth"})'
      BY <2>1, <2>3
    <2> QED
      BY <2>10, <2>11, <2>12, <2>13 DEF ForthInv
  <1>26. ASSUME NEW t \in Thread, QuitSelf(t) PROVE (Undisturbed => ForthInv)'
    BY <1>26 DEF QuitSelf, TypeOK, CallInv, LinkInv, QuitInv, QueueInv, FreshInv, OrderInv, ForthInv
  <1>27. ASSUME NEW t \in Thread, QuitFree(t) PROVE (Undisturbed => ForthInv)'
    <2> SUFFICES ASSUME Undisturbed' PROVE ForthInv'
      OBVIOUS
    <2>a. QuitInv /\ OrderInv /\ ForthInv
      OBVIOUS
    <2>1. /\ UNCHANGED <<arrived, backlog, nxt, prv, accPc, accNew, accPrev, rxPc, pos, found, cur,
                 quitFlag, running, keyPc, priv, before, after, met>>
          /\ quitPc[t] = "free" /\ priv[t] \in Client
      BY <1>27 DEF QuitFree, TypeOK, CallInv
    <2>2. \A u \in Thread : quitPc'[u] = IF u = t THEN "out" ELSE quitPc[u]
      BY <1>27 DEF QuitFree, TypeOK
    <2>3. \A c \in Client : freed'[c] = IF c # priv[t] THEN freed[c] ELSE IF freed[c] = 0 THEN 1 ELSE 2
      BY <1>27, <2>1 DEF QuitFree, TypeOK
    <2>4. \A u \in Thread : u # t => ~Quitting(u)
      BY <2>1, <2>a DEF QuitInv
    <2>5. \A a : a \in GivenBack' <=> a \in GivenBack \/ a = priv[t]
      <3>1. \A c \in Client : freed[c] \in 0..2
        BY DEF TypeOK
      <3>2. \A c \in Client : freed'[c] > 0 <=> freed[c] > 0 \/ c = priv[t]
        BY <2>3, <3>1
      <3> QED
        BY <2>1, <3>2
    <2>6. \A a : Detached(a)' <=> Detached(a)
      BY <2>1, <2>2, <2>4, <2>5
    <2>7. \A a \in Node : InList(a)' <=> InList(a)
      BY <2>1, <2>6
    <2>8. \A a \in Node \ GivenBack' : nxt'[a] \notin GivenBack'
      <3> SUFFICES ASSUME NEW a \in Node, a \notin GivenBack, a # priv[t],
      nxt[a] = priv[t] PROVE FALSE
        BY <2>1, <2>5, <2>a DEF ForthInv
      <3>1. InList(a)
        BY <2>1, <2>4
      <3>2. ~Detached(priv[t])
        BY <3>1, <2>a DEF ForthInv
      <3> QED
        BY <2>1, <3>2
    <2>9. \A u \in Thread : ~At(u, {"back", "forth"}) /\ ~At(u, {"back", "forth"})'
      BY <2>1, <2>2, <2>4
    <2>10. \A a \in Node : InList(a)' => ~Detached(nxt[a])'
      BY <2>1, <2>6, <2>7, <2>a DEF ForthInv
    <2>11. \A a \in Node : InList(a)' /\ nxt'[a] # HEAD => prv'[nxt'[a]] = a
      BY <2>1, <2>7, <2>9, <2>a DEF ForthInv
    <2> QED
      BY <2>8, <2>9, <2>10, <2>11 DEF ForthInv
  <1>28. CASE UNCHANGED vars
    BY <1>28 DEF vars, ForthInv
  <1> QED
    BY <1>1, <1>2, <1>3, <1>4, <1>5, <1>6, <1>7, <1>8, <1>9, <1>10, <1>11, <1>12, <1>13, <1>14,
       <1>15, <1>16, <1>17, <1>18, <1>19, <1>20, <1>21, <1>22, <1>23, <1>24, <1>25, <1>26, <1>27,
       <1>28
       DEF Next, Accept, Search, Receive, Key, Quit

\* While nobody adds, the links back mirror those forward.
LEMMA BackNext == IInv /\ [Next]_vars => (met = {} => BackInv)'
  <1> SUFFICES ASSUME IInv, [Next]_vars PROVE (met = {} => BackInv)'
    OBVIOUS
  <1>a. /\ TypeOK /\ CallInv /\ QueueInv /\ LinkInv /\ FreshInv
        /\ (Undisturbed' => Undisturbed) /\ (met' = {} => met = {})
        /\ Undisturbed => QuitInv /\ OrderInv /\ ForthInv
        /\ met = {} => BackInv
    BY Parts, MetGrows
  <1> USE TcpServerAssumption, <1>a
      DEF TcpServerAssumption, hostVars, accVars, quitVars, restVars, sharedVars, serverVars,
          serveVars, keyRest, listVars, walkVars, Thread, NULL, HEAD, Node, Client, MeetIn,
          Adding, Quitting, Unlinking, Searching, At, Linked, InList, Detached, GivenBack,
          Undisturbed, RxUses,
          AcceptGoes, RxGoes, KeyGoes, QuitGoes, Calls, AccPcs, RxPcs, KeyPcs, QuitPcs
  <1>1. CASE Connect
    BY <1>1 DEF Connect, BackInv
  <1>2. CASE AccWait
    BY <1>2 DEF AccWait, BackInv
  <1>3. CASE AccAccept
    BY <1>3 DEF AccAccept, BackInv
  <1>4. CASE AccLink
    BY <1>4, SMTT(30) DEF AccLink, TypeOK, CallInv, LinkInv, QuitInv, QueueInv, FreshInv, OrderInv,
                ForthInv, BackInv
  <1>5. CASE AccChain
    <2> SUFFICES ASSUME met' = {} PROVE BackInv'
      OBVIOUS
    <2>a. met = {} /\ QuitInv /\ OrderInv /\ ForthInv /\ BackInv
      BY DEF Undisturbed
    <2>1. /\ accNew \in Client /\ UNCHANGED <<arrived, backlog, accNew, accPrev, freed, rxPc,
                                              pos, found, cur,
                 quitFlag, running, keyPc, quitPc, priv, before, after, met>>
          /\ accPc = "chain" /\ accPc' = "last"
      BY <1>5 DEF AccChain, TypeOK, CallInv
    <2>2. \A a \in Node : nxt'[a] = IF a = accNew THEN HEAD ELSE nxt[a]
      BY <1>5, <2>1 DEF AccChain, TypeOK
    <2>3. \A a \in Node : prv'[a] = IF a = accNew THEN accPrev ELSE IF a = HEAD THEN accNew ELSE prv[a]
      BY <1>5, <2>1 DEF AccChain, TypeOK
    <2>4. ~Linked(accNew) /\ \A a \in Node : prv[a] # accNew
      <3>1. ~Linked(accNew)
        BY <2>1 DEF QueueInv
      <3>2. ASSUME NEW a \in Node, prv[a] = accNew PROVE FALSE
        <4>1. prv[a] # NULL
          BY <2>1, <3>2
        <4>2. Linked(a) /\ Linked(prv[a])
          BY <4>1 DEF LinkInv
        <4> QED
          BY <3>1, <3>2, <4>2
      <3> QED
        BY <3>1, <3>2
    <2>5. /\ accPrev \in Node /\ ~Detached(accPrev) /\ nxt[accPrev] = HEAD /\ prv[HEAD] = accPrev
          /\ accPrev # accNew
      BY <2>1, <2>4, <2>a DEF BackInv, TypeOK, LinkInv
    <2>6. ~Detached(accNew)
      BY <2>1, <2>4 DEF LinkInv, CallInv, TypeOK
    <2>7. \A a \in Node : (Detached(a)' <=> Detached(a)) /\ (Linked(a)' <=> Linked(a) \/ a = accNew)
      BY <2>1, <2>2
    <2>8. \A a \in Node : InList(a)' => ~Detached(prv[a])'
      BY <2>1, <2>3, <2>5, <2>6, <2>7, <2>a DEF BackInv, TypeOK
    <2>9. \A a \in Node : a \notin GivenBack => prv'[a] \notin GivenBack
      BY <2>1, <2>3, <2>5, <2>6, <2>a DEF BackInv
    <2>10. ASSUME NEW a \in Node, InList(a)', a # accNew,
                  \A u \in Thread : At(u, {"forth"}) => after[u] # a
           PROVE  nxt'[prv'[a]] = a
      <3>1. CASE a = HEAD
        BY <2>1, <2>2, <2>3, <3>1
      <3>2. CASE a # HEAD
        <4>1. InList(a) /\ prv'[a] = prv[a] /\ prv[a] \in Node /\ prv[a] # accNew
          BY <2>3, <2>4, <2>7, <2>10, <3>2 DEF LinkInv, TypeOK
        <4>2. nxt[prv[a]] = a
          BY <2>1, <2>10, <2>a, <4>1 DEF BackInv
        <4> QED
          BY <2>2, <4>1, <4>2
      <3> QED
        BY <3>1, <3>2
    <2>11. \A u \in Thread : ~At(u, {"back", "forth"})
      BY <2>1, <2>a DEF BackInv
    <2>12. nxt'[accPrev] = HEAD /\ prv'[HEAD] = accNew /\ ~Detached(accPrev)'
      BY <2>1, <2>2, <2>3, <2>5, <2>7
    <2> QED
      BY <2>1, <2>8, <2>9, <2>10, <2>11, <2>12 DEF BackInv
  <1>6. CASE AccLast
    BY <1>6 DEF AccLast, TypeOK, CallInv, LinkInv, QuitInv, QueueInv, FreshInv, OrderInv,
                ForthInv, BackInv
  <1>7. CASE AccFails
    BY <1>7 DEF AccFails, BackInv
  <1>8. CASE RxGet
    BY <1>8 DEF RxGet, BackInv
  <1>9. CASE RxWalk
    BY <1>9 DEF RxWalk, BackInv
  <1>10. CASE RxFound
    BY <1>10 DEF RxFound, BackInv
  <1>11. CASE RxAdopt
    BY <1>11 DEF RxAdopt, BackInv
  <1>12. CASE RxServe
    BY <1>12 DEF RxServe, BackInv
  <1>13. CASE RxFails
    BY <1>13 DEF RxFails, TypeOK, CallInv, LinkInv, QuitInv, QueueInv, FreshInv, OrderInv,
                 ForthInv, BackInv
  <1>14. CASE RxQuitDone
    BY <1>14 DEF RxQuitDone, BackInv
  <1>15. CASE RxDown
    BY <1>15 DEF RxDown, BackInv
  <1>16. CASE RxReport
    BY <1>16 DEF RxReport, BackInv
  <1>17. CASE KeyPressed
    BY <1>17 DEF KeyPressed, BackInv
  <1>18. CASE KeyTest
    BY <1>18, SMTT(30) DEF KeyTest, TypeOK, CallInv, LinkInv, QuitInv, QueueInv, FreshInv, OrderInv,
                 ForthInv, BackInv
  <1>19. CASE KeyQuitDone
    BY <1>19 DEF KeyQuitDone, BackInv
  <1>20. CASE KeyDown
    BY <1>20 DEF KeyDown, BackInv
  <1>21. ASSUME NEW t \in Thread, QuitTest(t) PROVE (met = {} => BackInv)'
    BY <1>21 DEF QuitTest, BackInv
  <1>22. ASSUME NEW t \in Thread, QuitSet(t) PROVE (met = {} => BackInv)'
    BY <1>22 DEF QuitSet, BackInv
  <1>23. ASSUME NEW t \in Thread, QuitRead(t) PROVE (met = {} => BackInv)'
    BY <1>23, SMTT(30) DEF QuitRead, TypeOK, CallInv, LinkInv, QuitInv, QueueInv, FreshInv, OrderInv,
                 ForthInv, BackInv
  <1>24. ASSUME NEW t \in Thread, QuitBack(t) PROVE (met = {} => BackInv)'
    <2> SUFFICES ASSUME met' = {} PROVE BackInv'
      OBVIOUS
    <2>a. met = {} /\ QuitInv /\ OrderInv /\ ForthInv /\ BackInv
      BY DEF Undisturbed
    <2> DEFINE c == priv[t]
    <2>1. /\ UNCHANGED <<nxt, freed, accPc, accNew, accPrev, priv, before, after>>
          /\ quitPc[t] = "back" /\ quitPc'[t] = "forth"
          /\ \A u \in Thread : u # t => quitPc'[u] = quitPc[u]
      BY <1>24 DEF QuitBack, TypeOK
    <2>2. \A a \in Node : prv'[a] = IF a = after[t] THEN before[t] ELSE prv[a]
      BY <1>24 DEF QuitBack, TypeOK
    <2>3. \A u \in Thread : u # t => ~Quitting(u)
      BY <2>1, <2>a DEF QuitInv
    <2>4. c \in Client /\ c \notin GivenBack /\ Linked(c) /\ before[t] \in Node /\ after[t] \in Node
      BY <2>1, <2>a DEF QuitInv, CallInv, TypeOK, LinkInv
    <2>5. InList(c) /\ before[t] = prv[c] /\ before[t] # c /\ after[t] = nxt[c] /\ ~Adding
      BY <2>1, <2>3, <2>4, <2>a DEF ForthInv, OrderInv, BackInv
    <2>6. \A a : Detached(a)' <=> Detached(a)
      BY <2>1, <2>3
    <2>7. ~Detached(before[t])
      BY <2>4, <2>5, <2>a DEF BackInv
    <2>8. \A a \in Node : InList(a)' => ~Detached(prv[a])'
      BY <2>1, <2>2, <2>6, <2>7, <2>a DEF BackInv
    <2>9. \A a \in Node : a \notin GivenBack => prv'[a] \notin GivenBack
      BY <2>2, <2>7, <2>a DEF BackInv
    <2>10. \A a \in Node : InList(a) /\ a # after[t] => nxt[prv[a]] = a
      BY <2>1, <2>3, <2>5, <2>a DEF BackInv
    <2>11. \A a \in Node : InList(a)' /\ a # after[t] => nxt'[prv'[a]] = a
      BY <2>1, <2>2, <2>6, <2>10
    <2>12. \A a \in Node : InList(a) => prv'[a] # c
      <3>1. \A a \in Node : InList(a) /\ a # after[t] => prv[a] # c
        BY <2>5, <2>10
      <3> QED
        BY <2>2, <2>5, <3>1
    <2>13. \A u \in Thread : At(u, {"back", "forth"})' => u = t
      BY <2>1, <2>3
    <2>14. prv'[after[t]] = before[t] /\ At(t, {"forth"})'
      BY <2>1, <2>2, <2>4
    <2>15. \A a \in Node : InList(a)' <=> InList(a)
      BY <2>1, <2>6
    <2> HIDE DEF c
    <2>16. /\ \A a \in Node : InList(a)' => ~Detached(prv[a])'
           /\ \A a \in Node \ GivenBack' : prv'[a] \notin GivenBack'
           /\ \A a \in Node : InList(a)' /\ (\A u \in Thread : At(u, {"forth"})' => after'[u] # a)
                => nxt'[prv'[a]] = a
      BY <2>1, <2>8, <2>9, <2>11, <2>14
    <2>17. \A u \in Thread : At(u, {"back", "forth"})' => after'[u] = nxt'[priv'[u]]
      BY <2>1, <2>5, <2>13 DEF c
    <2>18. \A u \in Thread : At(u, {"forth"})' =>
             /\ prv'[after'[u]] = before'[u]
             /\ \A a \in Node : InList(a)' => prv'[a] # priv'[u]
      BY <2>1, <2>12, <2>13, <2>14, <2>15 DEF c
    <2>19. ~Adding' /\ accPc' \notin {"chain", "last"}
      BY <2>1, <2>5
    <2> QED
      BY <2>16, <2>17, <2>18, <2>19 DEF BackInv
  <1>25. ASSUME NEW t \in Thread, QuitForth(t) PROVE (met = {} => BackInv)'
    <2> SUFFICES ASSUME met' = {} PROVE BackInv'
      OBVIOUS
    <2>a. met = {} /\ QuitInv /\ OrderInv /\ ForthInv /\ BackInv
      BY DEF Undisturbed
    <2> DEFINE c == priv[t]
    <2>1. /\ UNCHANGED <<prv, freed, accPc, accNew, accPrev, priv, before, after>>
          /\ quitPc[t] = "forth" /\ quitPc'[t] = "self"
          /\ \A u \in Thread : u # t => quitPc'[u] = quitPc[u]
      BY <1>25 DEF QuitForth, TypeOK
    <2>2. \A a \in Node : nxt'[a] = IF a = before[t] THEN after[t] ELSE nxt[a]
      BY <1>25 DEF QuitForth, TypeOK
    <2>3. \A u \in Thread : u # t => ~Quitting(u)
      BY <2>1, <2>a DEF QuitInv
    <2>4. c \in Client /\ c \notin GivenBack /\ Linked(c) /\ before[t] \in Node /\ after[t] \in Node
      BY <2>1, <2>a DEF QuitInv, CallInv, TypeOK, LinkInv
    <2>5. /\ InList(c) /\ before[t] = prv[c] /\ after[t] # c /\ prv[after[t]] = before[t] /\ ~Adding
          /\ \A a \in Node : InList(a) => prv[a] # c
      BY <2>1, <2>3, <2>4, <2>a DEF ForthInv, OrderInv, BackInv
    <2>6. \A a : Detached(a)' <=> Detached(a) \/ a = c
      BY <2>1, <2>3
    <2>7. \A a \in Node : Linked(a)' <=> Linked(a)
      BY <2>1, <2>2, <2>4 DEF LinkInv
    <2>8. \A a \in Node : InList(a)' <=> InList(a) /\ a # c
      BY <2>6, <2>7
    <2>9. \A a \in Node : InList(a)' => ~Detached(prv[a])'
      BY <2>1, <2>5, <2>6, <2>8, <2>a DEF BackInv
    <2>10. \A a \in Node : InList(a) /\ a # after[t] => nxt[prv[a]] = a
      BY <2>1, <2>3, <2>5, <2>a DEF BackInv
    <2>11. nxt[before[t]] = c
      BY <2>4, <2>5, <2>10
    <2>12. \A a \in Node : InList(a)' => nxt'[prv[a]] = a
      <3> SUFFICES ASSUME NEW a \in Node, InList(a) /\ a # c PROVE nxt'[prv[a]] = a
        BY <2>8
      <3>1. prv[a] \in Node
        BY DEF LinkInv, TypeOK
      <3>2. CASE a = after[t]
        BY <2>2, <2>4, <2>5, <3>2
      <3>3. CASE a # after[t]
        BY <2>2, <2>10, <2>11, <3>1, <3>3
      <3> QED
        BY <3>2, <3>3
    <2>13. \A u \in Thread : ~At(u, {"back", "forth"})'
      BY <2>1, <2>3
    <2>14. \A a \in Node \ GivenBack' : prv'[a] \notin GivenBack'
      BY <2>1, <2>a DEF BackInv
    <2> QED
      BY <2>1, <2>5, <2>9, <2>12, <2>13, <2>14 DEF BackInv
  <1>26. ASSUME NEW t \in Thread, QuitSelf(t) PROVE (met = {} => BackInv)'
    <2> SUFFICES ASSUME met' = {} PROVE BackInv'
      OBVIOUS
    <2>a. met = {} /\ QuitInv /\ OrderInv /\ ForthInv /\ BackInv
      BY DEF Undisturbed
    <2> DEFINE c == priv[t]
    <2>1. /\ UNCHANGED <<freed, accPc, accNew, accPrev, priv>>
          /\ quitPc[t] = "self" /\ quitPc'[t] = "free"
          /\ \A u \in Thread : u # t => quitPc'[u] = quitPc[u]
      BY <1>26 DEF QuitSelf, TypeOK
    <2>2. \A a \in Node : /\ nxt'[a] = (IF a = c THEN c ELSE nxt[a])
                         /\ prv'[a] = (IF a = c THEN c ELSE prv[a])
      BY <1>26 DEF QuitSelf, TypeOK
    <2>3. \A u \in Thread : u # t => ~Quitting(u)
      BY <2>1, <2>a DEF QuitInv
    <2>4. c \in Client /\ c \notin GivenBack /\ Linked(c) /\ Detached(c)
      BY <2>1, <2>a DEF QuitInv, CallInv, TypeOK, LinkInv
    <2>5. \A a : Detached(a)' <=> Detached(a)
      BY <2>1, <2>3
    <2>6. \A a \in Node : InList(a)' <=> InList(a)
      BY <2>2, <2>4, <2>5
    <2>7. \A a \in Node : InList(a) => a # c /\ prv[a] # c /\ prv[a] \in Node /\ ~Detached(prv[a])
      BY <2>4, <2>a DEF BackInv, LinkInv, TypeOK
    <2>8. \A a \in Node : InList(a) => prv'[a] = prv[a] /\ nxt'[prv'[a]] = nxt[prv[a]]
      BY <2>2, <2>7
    <2>9. \A u \in Thread : ~At(u, {"back", "forth"}) /\ ~At(u, {"back", "forth"})'
      BY <2>1, <2>3
    <2>10. \A a \in Node : InList(a)' => ~Detached(prv[a])'
      BY <2>5, <2>6, <2>7, <2>8
    <2>11. \A a \in Node \ GivenBack' : prv'[a] \notin GivenBack'
      BY <2>1, <2>2, <2>4, <2>a DEF BackInv
    <2>12. \A a \in Node : InList(a)' /\ ~(accPc' = "last" /\ a = accNew') => nxt'[prv'[a]] = a
      BY <2>1, <2>6, <2>8, <2>9, <2>a DEF BackInv
    <2>13. Adding' => ~Detached(accPrev)' /\ nxt'[accPrev'] = HEAD
      <3> SUFFICES ASSUME Adding PROVE ~Detached(accPrev)' /\ nxt'[accPrev] = HEAD
        BY <2>1
      <3>1. ~Detached(accPrev) /\ nxt[accPrev] = HEAD /\ accPrev \in Node /\ accPrev # c
        BY <2>4, <2>a DEF BackInv, TypeOK
      <3> QED
        BY <2>1, <2>2, <2>5, <3>1
    <2>14. (accPc' = "chain" => prv'[HEAD] = accPrev') /\ (accPc' = "last" => prv'[HEAD] = accNew')
      BY <2>1, <2>2, <2>4, <2>a DEF BackInv
    <2> QED
      BY <2>9, <2>10, <2>11, <2>12, <2>13, <2>14 DEF BackInv
  <1>27. ASSUME NEW t \in Thread, QuitFree(t) PROVE (met = {} => BackInv)'
    <2> SUFFICES ASSUME met' = {} PROVE BackInv'
      OBVIOUS
    <2>a. met = {} /\ QuitInv /\ OrderInv /\ ForthInv /\ BackInv
      BY DEF Undisturbed
    <2>1. /\ UNCHANGED <<arrived, backlog, nxt, prv, accPc, accNew, accPrev, rxPc, pos, found, cur,
                 quitFlag, running, keyPc, priv, before, after, met>>
          /\ quitPc[t] = "free" /\ priv[t] \in Client
      BY <1>27 DEF QuitFree, TypeOK, CallInv
    <2>2. \A u \in Thread : quitPc'[u] = IF u = t THEN "out" ELSE quitPc[u]
      BY <1>27 DEF QuitFree, TypeOK
    <2>3. \A c \in Client : freed'[c] = IF c # priv[t] THEN freed[c] ELSE IF freed[c] = 0 THEN 1 ELSE 2
      BY <1>27, <2>1 DEF QuitFree, TypeOK
    <2>4. \A u \in Thread : u # t => ~Quitting(u)
      BY <2>1, <2>a DEF QuitInv
    <2>5. \A a : a \in GivenBack' <=> a \in GivenBack \/ a = priv[t]
      <3>1. \A c \in Client : freed[c] \in 0..2
        BY DEF TypeOK
      <3>2. \A c \in Client : freed'[c] > 0 <=> freed[c] > 0 \/ c = priv[t]
        BY <2>3, <3>1
      <3> QED
        BY <2>1, <3>2
    <2>6. \A a : Detached(a)' <=> Detached(a)
      BY <2>1, <2>2, <2>4, <2>5
    <2>7. \A a \in Node : InList(a)' <=> InList(a)
      BY <2>1, <2>6
    <2>8. \A a \in Node \ GivenBack' : prv'[a] \notin GivenBack'
      <3> SUFFICES ASSUME NEW a \in Node, a \notin GivenBack, a # priv[t],
      prv[a] = priv[t] PROVE FALSE
        BY <2>1, <2>5, <2>a DEF BackInv
      <3>1. InList(a)
        BY <2>1, <2>4 DEF LinkInv
      <3>2. ~Detached(priv[t])
        BY <3>1, <2>a DEF BackInv
      <3> QED
        BY <2>1, <3>2
    <2>9. \A u \in Thread : ~At(u, {"back", "forth"}) /\ ~At(u, {"back", "forth"})'
      BY <2>1, <2>2, <2>4
    <2>10. \A a \in Node : InList(a)' => ~Detached(prv[a])'
      BY <2>1, <2>6, <2>7, <2>a DEF BackInv
    <2>11. \A a \in Node : InList(a)' /\ ~(accPc' = "last" /\ a = accNew') => nxt'[prv'[a]] = a
      BY <2>1, <2>7, <2>9, <2>a DEF BackInv
    <2>12. /\ Adding' => ~Detached(accPrev)' /\ nxt'[accPrev'] = HEAD
           /\ accPc' = "chain" => prv'[HEAD] = accPrev'
           /\ accPc' = "last" => prv'[HEAD] = accNew'
      BY <2>1, <2>6, <2>a DEF BackInv
    <2> QED
      BY <2>8, <2>9, <2>10, <2>11, <2>12 DEF BackInv
  <1>28. CASE UNCHANGED vars
    BY <1>28 DEF vars, BackInv
  <1> QED
    BY <1>1, <1>2, <1>3, <1>4, <1>5, <1>6, <1>7, <1>8, <1>9, <1>10, <1>11, <1>12, <1>13, <1>14,
       <1>15, <1>16, <1>17, <1>18, <1>19, <1>20, <1>21, <1>22, <1>23, <1>24, <1>25, <1>26, <1>27,
       <1>28
       DEF Next, Accept, Search, Receive, Key, Quit

\* At first the list is its head.
LEMMA InvInit == Init => IInv
  <1> SUFFICES ASSUME Init PROVE IInv
    OBVIOUS
  <1> USE TcpServerAssumption
      DEF Init, TcpServerAssumption, Thread, NULL, HEAD, Node, Client, Quitting, Adding, Searching,
          At, Linked, InList, Detached, GivenBack, Undisturbed, RxUses
  <1>1. TypeOK
    <2>1. backlog \in Seq(Client)
      OBVIOUS
    <2>2. nxt \in [Node -> Node \cup {NULL}] /\ prv \in [Node -> Node \cup {NULL}]
      OBVIOUS
    <2>3. /\ freed \in [Client -> 0..2] /\ quitPc \in [Thread -> QuitPcs]
          /\ priv \in [Thread -> Client \cup {NULL}]
          /\ before \in [Thread -> Node] /\ after \in [Thread -> Node]
      BY DEF QuitPcs
    <2>4. HEAD \in Node /\ arrived \in 0..MaxClients /\ met \subseteq {"list", "quit"}
      OBVIOUS
    <2> QED
      BY <2>1, <2>2, <2>3, <2>4 DEF TypeOK, AccPcs, RxPcs, KeyPcs
  <1>2. CallInv /\ QueueInv /\ LinkInv /\ FreshInv /\ BusyMeansServed
    BY DEF CallInv, QueueInv, LinkInv, FreshInv, BusyMeansServed
  <1>3. QuitInv /\ OrderInv /\ ForthInv /\ BackInv
    BY DEF QuitInv, OrderInv, ForthInv, BackInv
  <1> QED
    BY <1>1, <1>2, <1>3 DEF IInv

\* Each step keeps the invariant.
LEMMA InvNext == IInv /\ [Next]_vars => IInv'
  <1> SUFFICES ASSUME IInv, [Next]_vars PROVE IInv'
    OBVIOUS
  <1>1. TypeOK' /\ CallInv' /\ BusyMeansServed' /\ QueueInv' /\ LinkInv' /\ FreshInv'
    BY TypeNext, CallNext, QueueNext, LinkNext, FreshNext
  <1>2. (Undisturbed => QuitInv)' /\ (Undisturbed => OrderInv)' /\ (Undisturbed => ForthInv)'
    BY QuitNext, OrderNext, ForthNext
  <1>3. (met = {} => BackInv)'
    BY BackNext
  <1> QED
    BY <1>1, <1>2, <1>3 DEF IInv

\* The invariant, as far as it holds beside what met, in every state.
LEMMA Inductive == Spec => []IInv
  <1>1. Init => IInv
    BY InvInit
  <1>2. IInv /\ [Next]_vars => IInv'
    BY InvNext
  <1> QED
    BY <1>1, <1>2, PTL DEF Spec

\* The links, the places in the code and the flags keep their types: nobody follows a
\* link that calloc left empty.
THEOREM TypeCorrect == Spec => []TypeOK
  <1>1. IInv => TypeOK
    BY DEF IInv
  <1> QED
    BY <1>1, Inductive, PTL

\* Memory is given back once and no entry leads to it afterwards, unless the key task
\* quits a client under the receive thread; before the key is pressed the receive thread
\* uses none of it, from the copy of the entry (146) to tcp_client_quit (163).
THEOREM FreedOnceAlways == Spec => []FreedOnce
  <1>1. IInv => FreedOnce
    <2> SUFFICES ASSUME IInv PROVE FreedOnce
      OBVIOUS
    <2>1. Undisturbed => QuitInv /\ ForthInv
      BY Parts
    <2>2. met = {} => BackInv
      BY Parts
    <2>3. ASSUME keyPc = "idle", NEW c \in GivenBack, RxUses(c) PROVE FALSE
      <3>1. Undisturbed /\ TypeOK /\ CallInv
        BY <2>3, Parts DEF CallInv
      <3>2. c = cur /\ RxUses(cur)
        BY <2>3 DEF RxUses
      <3>3. cur \notin GivenBack
        BY <2>1, <2>3, <3>1, <3>2 DEF QuitInv
      <3> QED
        BY <2>3, <3>2, <3>3
    <2>4. Undisturbed => \A c \in Client : freed[c] <= 1
      BY <2>1 DEF QuitInv
    <2>5. Undisturbed => \A a \in Node \ GivenBack : nxt[a] \notin GivenBack
      BY <2>1 DEF ForthInv
    <2>6. met = {} => \A a \in Node \ GivenBack : prv[a] \notin GivenBack
      BY <2>2 DEF BackInv
    <2> QED
      BY <2>3, <2>4, <2>5, <2>6 DEF FreedOnce, Undisturbed
  <1> QED
    BY <1>1, Inductive, PTL

\* The server counts as busy only while it serves a client (192).
THEOREM BusyMeansServedAlways == Spec => []BusyMeansServed
  <1>1. IInv => BusyMeansServed
    BY DEF IInv
  <1> QED
    BY <1>1, Inductive, PTL
=============================================================================
