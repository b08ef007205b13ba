------------------------------- MODULE TcpServer -------------------------------
(***************************************************************************)
(* The TCP print server (wifi_app_task_Print.c): a thread that accepts     *)
(* connections, a thread that receives from one client after the other,    *)
(* and the key task, which shuts the server down before an update          *)
(* (disableTCPTask).  They share the client list, a doubly linked one      *)
(* (include_lib/system/generic/list.h) of which only some accesses take    *)
(* the mutex, and three flags without one; a step is one access of another *)
(* thread's data, in the order of the source.                              *)
(*                                                                         *)
(* Connections are numbered in the order they arrive, and the number is    *)
(* the address of the client's entry: memory that was given back keeps its *)
(* contents and is not handed out again.  met notes the meetings after     *)
(* which a thread may use such memory, see there.                          *)
(***************************************************************************)
EXTENDS Naturals, SequencesExt

CONSTANTS
  MaxClients,  \* bound: connections that arrive
  Backlog,     \* listen(2): connections the stack keeps for accept
  MayFail      \* calloc or sock_accept may fail, which ends the accept thread

ASSUME TcpServerAssumption ==
  /\ MaxClients \in Nat /\ Backlog \in Nat
  /\ MayFail \in BOOLEAN

Client == 1..MaxClients
HEAD == 0                    \* &Printer_server_info.client_head
NULL == MaxClients + 1
Node == Client \cup {HEAD}
Thread == {"rx", "key"}      \* the callers of tcp_client_quit

VARIABLES
  arrived,   \* connections so far
  backlog,   \* connections the stack holds for sock_accept
  nxt, prv,  \* the links of the list's head and of the entries
  freed,     \* freed[c]: times the memory of c was given back; 2 is more than once
  accPc,     \* where Printer_Tcp_Sock_Accpet is
  accNew,    \* its client_info, once accepted
  accPrev,   \* the last entry, as __list_add got it
  rxPc,      \* where Printer_Tcp_Recv_handler is
  pos, found,  \* where get_tcp_client_info is in the list, and the entry before
  cur,       \* client_infoCCC
  quitFlag,  \* OEMQuitFlag
  running,   \* MEP.SocketTaskRunning
  keyPc,     \* where disableTCPTask is
  quitPc,    \* quitPc[t]: where t is in tcp_client_quit
  priv,      \* priv[t]: its argument
  before, after,  \* before[t], after[t]: what __list_del got
  met        \* history: "list", once list_del met list_add_tail, and "quit", once the key
             \* task deleted an entry while the receive thread searched or deleted one

hostVars == <<arrived, backlog>>
listVars == <<nxt, prv>>
accVars  == <<accPc, accNew, accPrev>>
walkVars == <<pos, found>>
quitVars == <<quitPc, priv, before, after>>
vars == <<hostVars, listVars, freed, accVars, rxPc, walkVars, cur, quitFlag, running,
          keyPc, quitVars, met>>

AccPcs == {"wait", "accept", "link", "chain", "last", "dead"}
RxPcs == {"get", "walk", "adopt", "serve", "recv", "quit", "down", "report"}
KeyPcs == {"idle", "test", "quit", "down", "done"}
QuitPcs == {"out", "test", "set", "read", "back", "forth", "self", "free"}

\* No thread follows a link that was never set (calloc), whatever meets what.
TypeOK ==
  /\ arrived \in 0..MaxClients /\ backlog \in Seq(Client)
  /\ nxt \in [Node -> Node \cup {NULL}] /\ prv \in [Node -> Node \cup {NULL}]
  /\ freed \in [Client -> 0..2]
  /\ accPc \in AccPcs /\ accNew \in Client \cup {NULL} /\ accPrev \in Node
  /\ rxPc \in RxPcs /\ pos \in Node /\ found \in Client \cup {NULL}
  /\ cur \in Client \cup {NULL}
  /\ quitFlag \in BOOLEAN /\ running \in BOOLEAN
  /\ keyPc \in KeyPcs
  /\ quitPc \in [Thread -> QuitPcs] /\ priv \in [Thread -> Client \cup {NULL}]
  /\ before \in [Thread -> Node] /\ after \in [Thread -> Node]
  /\ met \subseteq {"list", "quit"}

Init ==
  /\ arrived = 0 /\ backlog = <<>>
  /\ nxt = [a \in Node |-> IF a = HEAD THEN HEAD ELSE NULL] /\ prv = nxt
  /\ freed = [c \in Client |-> 0]
  /\ accPc = "wait" /\ accNew = NULL /\ accPrev = HEAD
  /\ rxPc = "get" /\ pos = HEAD /\ found = NULL /\ cur = NULL
  /\ quitFlag = FALSE /\ running = FALSE
  /\ keyPc = "idle"
  /\ quitPc = [t \in Thread |-> "out"] /\ priv = [t \in Thread |-> NULL]
  /\ before = [t \in Thread |-> HEAD] /\ after = [t \in Thread |-> HEAD]
  /\ met = {}

----------------------------------------------------------------------------
(* The meetings that are told apart                                        *)

Adding == accPc \in {"chain", "last"}        \* in list_add_tail, with the mutex
Unlinking(t) == quitPc[t] \in {"back", "forth"}
Quitting(t) == quitPc[t] \notin {"out", "test"}
Searching == rxPc \in {"get", "walk", "adopt"}

MeetIn(what, meeting) == met' = IF meeting THEN met \cup {what} ELSE met

----------------------------------------------------------------------------
(* The network stack                                                       *)

serverVars == <<listVars, freed, rxPc, walkVars, cur, quitFlag, running, keyPc, quitVars>>

Connect ==
  /\ arrived < MaxClients /\ Len(backlog) < Backlog
  /\ arrived' = arrived + 1
  /\ backlog' = Append(backlog, arrived + 1)
  /\ UNCHANGED <<accVars, serverVars, met>>

----------------------------------------------------------------------------
(* Printer_Tcp_Sock_Accpet                                                 *)

restVars == <<freed, rxPc, walkVars, cur, quitFlag, running, keyPc, quitVars>>

AcceptGoes(from, to) == accPc = from /\ accPc' = to

\* Nobody is being served: wait for the next connection.
AccWait ==
  /\ ~running
  /\ AcceptGoes("wait", "accept")
  /\ UNCHANGED <<hostVars, listVars, accNew, accPrev, restVars, met>>

AccAccept ==
  /\ backlog # <<>>
  /\ AcceptGoes("accept", "link")
  /\ accNew' = Head(backlog)
  /\ backlog' = Tail(backlog)
  /\ UNCHANGED <<arrived, listVars, accPrev, restVars, met>>

\* list_add_tail, with the mutex, reads head->prev, ...
AccLink ==
  /\ rxPc # "walk"
  /\ AcceptGoes("link", "chain")
  /\ accPrev' = prv[HEAD]
  /\ MeetIn("list", \E t \in Thread : Unlinking(t))
  /\ UNCHANGED <<hostVars, listVars, accNew, restVars>>

\* Mutant: the new entry's next is not set.
AccChainOpen ==
  /\ AcceptGoes("chain", "last")
  /\ prv' = [prv EXCEPT ![HEAD] = accNew, ![accNew] = accPrev]
  /\ UNCHANGED <<hostVars, nxt, accNew, accPrev, restVars, met>>

\* ... makes the new entry the head's last (only this thread reads head->prev), ...
AccChain ==
  /\ AcceptGoes("chain", "last")
  /\ nxt' = [nxt EXCEPT ![accNew] = HEAD]
  /\ prv' = [prv EXCEPT ![HEAD] = accNew, ![accNew] = accPrev]
  /\ UNCHANGED <<hostVars, accNew, accPrev, restVars, met>>

\* ... and chains it to the entry that was the last.
AccLast ==
  /\ AcceptGoes("last", "wait")
  /\ nxt' = [nxt EXCEPT ![accPrev] = accNew]
  /\ accNew' = NULL /\ accPrev' = HEAD
  /\ UNCHANGED <<hostVars, prv, restVars, met>>

\* calloc or sock_accept fails: the thread returns and is not started again.
AccFails ==
  /\ MayFail
  /\ AcceptGoes("wait", "dead") \/ AcceptGoes("accept", "dead")
  /\ UNCHANGED <<hostVars, listVars, accNew, accPrev, restVars, met>>

----------------------------------------------------------------------------
(* tcp_client_quit, called by thread t; the flag guards it without a lock,  *)
(* and list_del goes without the mutex                                     *)

sharedVars == <<hostVars, accVars, walkVars, cur, running>>

Calls(t, c) ==
  /\ quitPc' = [quitPc EXCEPT ![t] = "test"]
  /\ priv' = [priv EXCEPT ![t] = c]
  /\ UNCHANGED <<before, after>>

QuitGoes(t, from, to) == quitPc[t] = from /\ quitPc' = [quitPc EXCEPT ![t] = to]

\* The key task comes while the receive thread is not just serving the same client, or
\* both come.
QuitTest(t) ==
  /\ QuitGoes(t, "test", IF quitFlag THEN "out" ELSE "set")
  /\ MeetIn("quit",
            /\ ~quitFlag
            /\ \/ t = "key" /\ (Quitting("rx") \/ Searching \/ priv["key"] # cur)
               \/ t = "rx" /\ Quitting("key"))
  /\ UNCHANGED <<sharedVars, listVars, freed, quitFlag, rxPc, keyPc, priv, before, after>>

\* closesocket ends a sock_recv that may fail at any time.
QuitSet(t) ==
  /\ QuitGoes(t, "set", "read")
  /\ quitFlag' = TRUE
  /\ UNCHANGED <<sharedVars, listVars, freed, rxPc, keyPc, priv, before, after, met>>

\* list_del reads the entry's neighbours (head->prev changes under the mutex only), ...
QuitRead(t) ==
  /\ QuitGoes(t, "read", "back")
  /\ before' = [before EXCEPT ![t] = prv[priv[t]]]
  /\ after' = [after EXCEPT ![t] = nxt[priv[t]]]
  /\ MeetIn("list", Adding)
  /\ UNCHANGED <<sharedVars, listVars, freed, quitFlag, rxPc, keyPc, priv>>

\* ... links them back ...
QuitBack(t) ==
  /\ QuitGoes(t, "back", "forth")
  /\ prv' = [prv EXCEPT ![after[t]] = before[t]]
  /\ UNCHANGED <<sharedVars, nxt, freed, quitFlag, rxPc, keyPc, priv, before, after, met>>

\* Mutant: the entry stays in the list.
QuitForthForgotten(t) ==
  /\ QuitGoes(t, "forth", "self")
  /\ UNCHANGED <<sharedVars, listVars, freed, quitFlag, rxPc, keyPc, priv, before, after, met>>

\* ... and forth ...
QuitForth(t) ==
  /\ QuitGoes(t, "forth", "self")
  /\ nxt' = [nxt EXCEPT ![before[t]] = after[t]]
  /\ UNCHANGED <<sharedVars, prv, freed, quitFlag, rxPc, keyPc, priv, before, after, met>>

\* ... and makes the entry a list of its own.
QuitSelf(t) ==
  /\ QuitGoes(t, "self", "free")
  /\ nxt' = [nxt EXCEPT ![priv[t]] = priv[t]]
  /\ prv' = [prv EXCEPT ![priv[t]] = priv[t]]
  /\ before' = [before EXCEPT ![t] = HEAD] /\ after' = [after EXCEPT ![t] = HEAD]
  /\ UNCHANGED <<sharedVars, freed, quitFlag, rxPc, keyPc, priv, met>>

QuitFree(t) ==
  /\ QuitGoes(t, "free", "out")
  /\ freed' = [freed EXCEPT ![priv[t]] = IF @ = 0 THEN 1 ELSE 2]
  /\ UNCHANGED <<sharedVars, listVars, quitFlag, rxPc, keyPc, priv, before, after, met>>

----------------------------------------------------------------------------
(* Printer_Tcp_Recv_handler                                                *)

serveVars == <<hostVars, listVars, freed, accVars, keyPc>>

RxGoes(from, to) == rxPc = from /\ rxPc' = to

\* get_tcp_client_info takes the mutex ...
RxGet ==
  /\ ~Adding
  /\ RxGoes("get", "walk")
  /\ pos' = nxt[HEAD] /\ found' = NULL
  /\ UNCHANGED <<serveVars, cur, quitFlag, running, quitVars, met>>

\* ... and goes through the list: the entry before the head is the last.
RxWalk ==
  /\ pos # HEAD
  /\ RxGoes("walk", "walk")
  /\ found' = pos /\ pos' = nxt[pos]
  /\ UNCHANGED <<serveVars, cur, quitFlag, running, quitVars, met>>

\* Without an entry it searches again, after five ticks as in any case.
RxFound ==
  /\ pos = HEAD
  /\ RxGoes("walk", IF found = NULL THEN "get" ELSE "adopt")
  /\ cur' = found /\ found' = NULL
  /\ UNCHANGED <<serveVars, pos, quitFlag, running, quitVars, met>>

\* Mutant: the flag of the last client is kept.
RxAdoptKeepsFlag ==
  /\ RxGoes("adopt", "serve")
  /\ UNCHANGED <<serveVars, walkVars, cur, quitFlag, running, quitVars, met>>

\* Copies the entry.
RxAdopt ==
  /\ RxGoes("adopt", "serve")
  /\ quitFlag' = FALSE
  /\ UNCHANGED <<serveVars, walkVars, cur, running, quitVars, met>>

RxServe ==
  /\ RxGoes("serve", "recv")
  /\ running' = TRUE
  /\ UNCHANGED <<serveVars, walkVars, cur, quitFlag, quitVars, met>>

\* sock_recv fails: the client has closed its end, or the key task the socket; what it
\* delivers before is the matter of Channels.
RxFails ==
  /\ RxGoes("recv", "quit")
  /\ Calls("rx", cur)
  /\ UNCHANGED <<serveVars, walkVars, cur, quitFlag, running, met>>

RxQuitDone ==
  /\ quitPc["rx"] = "out"
  /\ RxGoes("quit", "down")
  /\ UNCHANGED <<serveVars, walkVars, cur, quitFlag, running, quitVars, met>>

\* Mutant: the server is left marked as busy.
RxDownStaysRunning ==
  /\ RxGoes("down", "report")
  /\ UNCHANGED <<serveVars, walkVars, cur, quitFlag, running, quitVars, met>>

RxDown ==
  /\ RxGoes("down", "report")
  /\ running' = FALSE
  /\ UNCHANGED <<serveVars, walkVars, cur, quitFlag, quitVars, met>>

\* isSocketClosed(client_infoCCC->fd): reads the entry that was given back, see FreedOnce;
\* what it reads is only printed.
RxReport ==
  /\ RxGoes("report", "get")
  /\ MeetIn("quit", Quitting("key"))
  /\ UNCHANGED <<serveVars, walkVars, cur, quitFlag, running, quitVars>>

----------------------------------------------------------------------------
(* disableTCPTask, called by KeyOperation                                  *)

KeyGoes(from, to) == keyPc = from /\ keyPc' = to

keyRest == <<hostVars, accVars, walkVars, cur, listVars, freed, quitFlag, rxPc, met>>

KeyPressed ==
  /\ KeyGoes("idle", "test")
  /\ UNCHANGED <<keyRest, running, quitVars>>

KeyTest ==
  /\ IF cur = NULL
     THEN KeyGoes("test", "down") /\ UNCHANGED quitVars
     ELSE KeyGoes("test", "quit") /\ Calls("key", cur)
  /\ UNCHANGED <<keyRest, running>>

KeyQuitDone ==
  /\ quitPc["key"] = "out"
  /\ KeyGoes("quit", "down")
  /\ UNCHANGED <<keyRest, running, quitVars>>

KeyDown ==
  /\ KeyGoes("down", "done")
  /\ running' = FALSE
  /\ UNCHANGED <<keyRest, quitVars>>

----------------------------------------------------------------------------

Accept == AccWait \/ AccAccept \/ AccLink \/ AccChain \/ AccLast
Quit(t) ==
  \/ QuitTest(t) \/ QuitSet(t)
  \/ QuitRead(t) \/ QuitBack(t) \/ QuitForth(t) \/ QuitSelf(t) \/ QuitFree(t)
Search == RxGet \/ RxWalk \/ RxFound
Receive ==
  \/ Search \/ RxAdopt \/ RxServe \/ RxFails \/ RxQuitDone \/ RxDown \/ RxReport
  \/ Quit("rx")
Key == KeyTest \/ KeyQuitDone \/ KeyDown \/ Quit("key")

Next == Connect \/ Accept \/ AccFails \/ Receive \/ KeyPressed \/ Key

Spec == Init /\ [][Next]_vars

\* The threads are scheduled, a client does not stay for ever (RxFails), and the mutex is given to
\* the thread that waits for it: between two searches the receive thread sleeps.
Fairness ==
  /\ WF_vars(Accept) /\ WF_vars(Receive) /\ WF_vars(Key)
  /\ SF_vars(AccLink)
LiveSpec == Spec /\ Fairness

----------------------------------------------------------------------------
(* Properties                                                              *)

GivenBack == {c \in Client : freed[c] > 0}

\* What tcp_client_quit (273-286) gives back is given back once, and no entry that is
\* still there leads the search to it, unless the key task quits a client while the receive
\* thread searches or quits one; without the other meeting the links back are as good.
\* Until the key is pressed the receive thread uses no entry that was given back, neither
\* for the copy (146) and sock_recv (154) nor in tcp_client_quit.  One use is left out,
\* since it comes too late for every client: isSocketClosed (166) reads the entry that
\* was freed at 163, see RxReport.
RxUses(c) == cur = c /\ (rxPc \in {"adopt", "serve", "recv"} \/ quitPc["rx"] # "out")

FreedOnce ==
  /\ "quit" \notin met =>
       /\ \A c \in Client : freed[c] <= 1
       /\ \A a \in Node \ GivenBack : nxt[a] \notin GivenBack
  /\ met = {} => \A a \in Node \ GivenBack : prv[a] \notin GivenBack
  /\ keyPc = "idle" => \A c \in GivenBack : ~RxUses(c)

\* SocketTaskRunning, written by two threads and read by a third, is set only
\* while a client is served: the accept thread never waits for nobody (192).
BusyMeansServed == running => rxPc \in {"recv", "quit", "down"} /\ cur # NULL

InBacklog(c) == \E i \in DOMAIN backlog : backlog[i] = c

\* Accepted, and list_add_tail is done with it.
Accepted(c) == c <= arrived /\ ~InBacklog(c) /\ accNew # c

\* A client that was accepted is served and released in the end, although the receive
\* thread takes the latest entry of the list and others may be accepted in front of it,
\* unless one of the meetings happened: list_del (280), without the mutex, may undo
\* what list_add_tail (213) writes.
AcceptedIsServed ==
  \A c \in Client : Accepted(c) ~> (freed[c] > 0 \/ met # {})

\* A connection the stack holds is accepted in the end, whoever came before, however they
\* left and even if list_del met list_add_tail, unless the accept thread ended on an
\* error or the key task deleted an entry under the receive thread, whose search may
\* then go round for ever with the mutex.
ConnectionIsAccepted ==
  \A c \in Client : InBacklog(c) ~> (accPc = "dead" \/ Accepted(c) \/ "quit" \in met)

\* After disableTCPTask no client is served ("disable tcp server",
\* AppDriverBase.c:1205).
DisabledServesNobody == keyPc = "done" => rxPc # "recv"
=============================================================================
