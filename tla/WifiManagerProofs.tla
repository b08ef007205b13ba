--------------------------- MODULE WifiManagerProofs ---------------------------
(***************************************************************************)
(* Proofs about WifiManager, for any number of requests and motor runs:    *)
(* its types, and that a stored request is never forgotten.                *)
(***************************************************************************)
EXTENDS WifiManager, TLAPS

\* The credentials wifi_demo_task uses, or is about to use, are not the stored ones.
Behind ==
  \/ pc \in {"poll", "wait"} /\ tried # stored
  \/ pc = "enter" /\ info # stored

\* A callback has an event; only a timeout is retried; it finds the radio on.
CallbackInv ==
  /\ cbPc # "idle" => event # "none"
  /\ cbPc \in {"off", "start"} => event = "timeout"
  /\ cbPc = "wifi_off" => radio

\* A radio that is off under the task was turned off by a callback, which says so.
RadioInv ==
  pc \in {"read", "enter"} /\ ~radio =>
    \/ cbPc = "stop"
    \/ off /\ (cbPc # "idle" \/ start \/ event = "fail")

\* A task that is behind leaves its loop, and starts again when the writers are done.
FlagInv ==
  Behind =>
    /\ reqPc = "off" \/ cbPc = "stop" \/ off
    /\ reqPc = "idle" /\ cbPc = "idle" => start \/ event = "fail"

IInv == TypeOK /\ CallbackInv /\ RadioInv /\ FlagInv

LEMMA Initially == Init => IInv
  <1> SUFFICES ASSUME Init PROVE IInv
    OBVIOUS
  <1>1. TypeOK
    <2>1. 1 \in Credentials
      BY WifiManagerAssumption DEF Credentials
    <2>2. 0 \in 0..MaxRuns
      BY WifiManagerAssumption
    <2> QED
      BY <2>1, <2>2 DEF Init, TypeOK
  <1>2. CallbackInv /\ RadioInv /\ FlagInv
    BY DEF Init, CallbackInv, RadioInv, FlagInv, Behind
  <1> QED
    BY <1>1, <1>2 DEF IInv

(* The types                                                               *)

LEMMA TypeNext == IInv /\ Next => TypeOK'
  <1> SUFFICES ASSUME IInv, Next PROVE TypeOK'
    OBVIOUS
  <1> USE DEF IInv, TypeOK,
          Goes, CallbackGoes, RequestGoes, flagVars, taskVars, stackVars, motorVars,
          callbackRest
  <1>1. CASE Restart
    BY <1>1, ZenonT(40) DEF Restart
  <1>2. CASE On
    BY <1>2 DEF On
  <1>3. CASE Read
    BY <1>3 DEF Read
  <1>4. CASE Enter
    BY <1>4 DEF Enter
  <1>5. CASE Poll
    BY <1>5 DEF Poll
  <1>6. CASE Wait
    BY <1>6 DEF Wait
  <1>7. CASE Connected
    BY <1>7 DEF Connected
  <1>8. CASE Fails("fail")
    BY <1>8 DEF Fails
  <1>9. CASE Fails("timeout")
    BY <1>9 DEF Fails
  <1>10. CASE WifiOff
    BY <1>10, ZenonT(40) DEF WifiOff
  <1>11. CASE StopSetsOff
    BY <1>11 DEF StopSetsOff
  <1>12. CASE StopClearsStart
    BY <1>12, ZenonT(40) DEF StopClearsStart
  <1>13. CASE RetrySetsOff
    BY <1>13 DEF RetrySetsOff
  <1>14. CASE RetrySetsStart
    BY <1>14 DEF RetrySetsStart
  <1>15. CASE RequestSaves
    BY <1>15, WifiManagerAssumption DEF RequestSaves, Credentials
  <1>16. CASE RequestSetsOff
    BY <1>16 DEF RequestSetsOff
  <1>17. CASE RequestSetsStart
    BY <1>17 DEF RequestSetsStart
  <1>18. CASE MotorStarts
    BY <1>18, WifiManagerAssumption DEF MotorStarts
  <1>19. CASE MotorStops
    <2>1. /\ motor' \in BOOLEAN
          /\ UNCHANGED <<stored, reqPc, pc, info, off, start, radio, link, tried, event,
                         cbPc, runs>>
      BY <1>19 DEF MotorStops
    <2> QED
      BY <2>1
  <1>20. CASE NotFound
    BY <1>20 DEF NotFound
  <1>21. CASE Disconnected
    BY <1>21 DEF Disconnected
  <1>22. CASE ReturnStaMode
    BY <1>22 DEF ReturnStaMode
  <1> QED
    BY <1>1, <1>2, <1>3, <1>4, <1>5, <1>6, <1>7, <1>8, <1>9, <1>10,
       <1>11, <1>12, <1>13, <1>14, <1>15, <1>16, <1>17, <1>18, <1>19,
       <1>20, <1>21, <1>22
       DEF Next, Manager, Stack, Callback, Request

(* Who turned the radio off, and that the task is told                     *)

LEMMA CallbackRadioNext == IInv /\ Next => (CallbackInv /\ RadioInv)'
  <1> SUFFICES ASSUME IInv, Next PROVE (CallbackInv /\ RadioInv)'
    OBVIOUS
  <1> USE DEF IInv, TypeOK, CallbackInv, RadioInv,
          Goes, CallbackGoes, RequestGoes, flagVars, taskVars, stackVars, motorVars,
          callbackRest
  <1>1. CASE Restart
    BY <1>1 DEF Restart
  <1>2. CASE On
    BY <1>2 DEF On
  <1>3. CASE Read
    BY <1>3 DEF Read
  <1>4. CASE Enter
    BY <1>4 DEF Enter
  <1>5. CASE Poll
    BY <1>5 DEF Poll
  <1>6. CASE Wait
    BY <1>6 DEF Wait
  <1>7. CASE Connected
    BY <1>7 DEF Connected
  <1>8. CASE Fails("fail")
    BY <1>8 DEF Fails
  <1>9. CASE Fails("timeout")
    BY <1>9 DEF Fails
  <1>10. CASE WifiOff
    BY <1>10 DEF WifiOff
  <1>11. CASE StopSetsOff
    BY <1>11 DEF StopSetsOff
  <1>12. CASE StopClearsStart
    BY <1>12 DEF StopClearsStart
  <1>13. CASE RetrySetsOff
    BY <1>13 DEF RetrySetsOff
  <1>14. CASE RetrySetsStart
    BY <1>14 DEF RetrySetsStart
  <1>15. CASE RequestSaves
    BY <1>15 DEF RequestSaves
  <1>16. CASE RequestSetsOff
    BY <1>16 DEF RequestSetsOff
  <1>17. CASE RequestSetsStart
    BY <1>17 DEF RequestSetsStart
  <1>18. CASE MotorStarts
    BY <1>18 DEF MotorStarts
  <1>19. CASE MotorStops
    BY <1>19 DEF MotorStops
  <1>20. CASE NotFound
    BY <1>20 DEF NotFound
  <1>21. CASE Disconnected
    BY <1>21 DEF Disconnected
  <1>22. CASE ReturnStaMode
    BY <1>22 DEF ReturnStaMode
  <1> QED
    BY <1>1, <1>2, <1>3, <1>4, <1>5, <1>6, <1>7, <1>8, <1>9, <1>10,
       <1>11, <1>12, <1>13, <1>14, <1>15, <1>16, <1>17, <1>18, <1>19,
       <1>20, <1>21, <1>22
       DEF Next, Manager, Stack, Callback, Request

LEMMA FlagNext == IInv /\ Next => FlagInv'
  <1> SUFFICES ASSUME IInv, Next PROVE FlagInv'
    OBVIOUS
  <1> USE DEF IInv, TypeOK, CallbackInv, RadioInv, FlagInv, Behind,
          Goes, CallbackGoes, RequestGoes, flagVars, taskVars, stackVars, motorVars,
          callbackRest
  <1>1. CASE Restart
    BY <1>1 DEF Restart
  <1>2. CASE On
    BY <1>2 DEF On
  <1>3. CASE Read
    BY <1>3 DEF Read
  <1>4. CASE Enter
    BY <1>4 DEF Enter
  <1>5. CASE Poll
    BY <1>5 DEF Poll
  <1>6. CASE Wait
    BY <1>6 DEF Wait
  <1>7. CASE Connected
    BY <1>7 DEF Connected
  <1>8. CASE Fails("fail")
    BY <1>8 DEF Fails
  <1>9. CASE Fails("timeout")
    BY <1>9 DEF Fails
  <1>10. CASE WifiOff
    BY <1>10 DEF WifiOff
  <1>11. CASE StopSetsOff
    BY <1>11 DEF StopSetsOff
  <1>12. CASE StopClearsStart
    BY <1>12 DEF StopClearsStart
  <1>13. CASE RetrySetsOff
    BY <1>13 DEF RetrySetsOff
  <1>14. CASE RetrySetsStart
    BY <1>14 DEF RetrySetsStart
  <1>15. CASE RequestSaves
    BY <1>15 DEF RequestSaves
  <1>16. CASE RequestSetsOff
    BY <1>16 DEF RequestSetsOff
  <1>17. CASE RequestSetsStart
    BY <1>17 DEF RequestSetsStart
  <1>18. CASE MotorStarts
    BY <1>18 DEF MotorStarts
  <1>19. CASE MotorStops
    BY <1>19 DEF MotorStops
  <1>20. CASE NotFound
    BY <1>20 DEF NotFound
  <1>21. CASE Disconnected
    BY <1>21 DEF Disconnected
  <1>22. CASE ReturnStaMode
    BY <1>22 DEF ReturnStaMode
  <1> QED
    BY <1>1, <1>2, <1>3, <1>4, <1>5, <1>6, <1>7, <1>8, <1>9, <1>10,
       <1>11, <1>12, <1>13, <1>14, <1>15, <1>16, <1>17, <1>18, <1>19,
       <1>20, <1>21, <1>22
       DEF Next, Manager, Stack, Callback, Request

LEMMA Inductive == Spec => []IInv
  <1>1. IInv /\ [Next]_vars => IInv'
    <2> SUFFICES ASSUME IInv, [Next]_vars PROVE IInv'
      OBVIOUS
    <2>1. CASE Next
      BY <2>1, TypeNext, CallbackRadioNext, FlagNext DEF IInv
    <2>2. CASE UNCHANGED vars
      BY <2>2 DEF vars, taskVars, flagVars, stackVars, motorVars, IInv, TypeOK,
                  CallbackInv, RadioInv, FlagInv, Behind
    <2> QED
      BY <2>1, <2>2
  <1> QED
    BY Initially, <1>1, PTL DEF Spec

\* The flags, the tasks and the association keep their types, and only a radio that
\* is on has an association, however the three tasks interleave.
THEOREM TypeCorrect == Spec => []TypeOK
  BY Inductive, PTL DEF IInv

\* New credentials that were not tried yet are never forgotten, however many requests,
\* failures, timeouts and motor runs there are: a request may only be stopped by an
\* association failure that is reported beside it.
THEOREM NeverForgotten == Spec => []RequestPending
  <1>1. IInv => RequestPending
    BY DEF IInv, TypeOK, FlagInv, Behind, RequestPending, StoppedByFailure
  <1> QED
    BY <1>1, Inductive, PTL
=============================================================================
