------------------------------ MODULE WifiManager ------------------------------
(***************************************************************************)
(* The WiFi manager (wifi_app_task.c).  Three tasks share the flags        *)
(* Wifi_Set_Status and startWifiAGN without a lock: wifi_demo_task, which  *)
(* starts WiFi and polls the flags; the WiFi stack's task, which reports   *)
(* how an association ended (wifi_event_callback); and DataManagementTask, *)
(* which stores new credentials and asks for a restart (CommandNVSWiFi).   *)
(* The application may besides enter the station mode again by itself.     *)
(* Credentials are numbered in the order they are stored.                  *)
(***************************************************************************)
EXTENDS Naturals

CONSTANTS
  MaxRequests,  \* bound: new credentials
  MaxRuns       \* bound: runs of the step motor

ASSUME WifiManagerAssumption == MaxRequests \in Nat /\ MaxRuns \in Nat

VARIABLES
  stored,   \* the credentials in flash
  reqPc,    \* where CommandNVSWiFi is
  pc,       \* where wifi_demo_task is
  info,     \* its local copy of the credentials, 0 at first
  off,      \* Wifi_Set_Status is OFF
  start,    \* startWifiAGN
  radio,    \* between wifi_on and wifi_off
  link,     \* the association: "none", "trying", "connected", or "lost" when it ended
            \* and the callback only told the application
  tried,    \* the credentials it was last tried with, 0 at first
  event,    \* the last failure the stack reported
  cbPc,     \* where wifi_event_callback is
  motor,    \* SMP.Status is Running
  runs

flagVars  == <<off, start>>
taskVars  == <<pc, info>>
stackVars == <<radio, link, tried, event>>
motorVars == <<motor, runs>>
vars == <<stored, reqPc, taskVars, flagVars, stackVars, cbPc, motorVars>>

Credentials == 1 .. MaxRequests + 1

\* Only a radio that is on has an association.
TypeOK ==
  /\ stored \in Credentials /\ reqPc \in {"idle", "off", "start"}
  /\ pc \in {"restart", "on", "read", "enter", "poll", "wait"}
  /\ info \in Credentials \cup {0} /\ tried \in Credentials \cup {0}
  /\ off \in BOOLEAN /\ start \in BOOLEAN /\ radio \in BOOLEAN
  /\ link \in {"none", "trying", "connected", "lost"} /\ (link # "none" => radio)
  /\ event \in {"none", "fail", "timeout"}
  /\ cbPc \in {"idle", "wifi_off", "stop", "clear", "off", "start"}
  /\ motor \in BOOLEAN /\ runs \in 0..MaxRuns

Init ==
  /\ stored = 1 /\ reqPc = "idle"
  /\ pc = "restart" /\ info = 0
  /\ off = FALSE /\ start = FALSE
  /\ radio = FALSE /\ link = "none" /\ tried = 0 /\ event = "none"
  /\ cbPc = "idle"
  /\ motor = FALSE /\ runs = 0

----------------------------------------------------------------------------
(* wifi_demo_task                                                          *)

Goes(from, to) == pc = from /\ pc' = to

Restart ==
  /\ Goes("restart", "on")
  /\ off' = FALSE
  /\ UNCHANGED <<stored, reqPc, info, start, stackVars, cbPc, motorVars>>

On ==
  /\ Goes("on", "read")
  /\ radio' = TRUE
  /\ UNCHANGED <<stored, reqPc, info, flagVars, link, tried, event, cbPc, motorVars>>

\* wifi_get_mode_stored_info, half a second later.
Read ==
  /\ Goes("read", "enter")
  /\ info' = stored
  /\ UNCHANGED <<stored, reqPc, flagVars, stackVars, cbPc, motorVars>>

\* wifi_enter_sta_mode: without effect when the callback has just called wifi_off.
Enter ==
  /\ Goes("enter", "poll")
  /\ IF radio THEN link' = "trying" /\ tried' = info ELSE UNCHANGED <<link, tried>>
  /\ UNCHANGED <<stored, reqPc, info, flagVars, radio, event, cbPc, motorVars>>

Poll ==
  /\ off
  /\ Goes("poll", "wait")
  /\ UNCHANGED <<stored, reqPc, info, flagVars, stackVars, cbPc, motorVars>>

\* Once the motor has stopped and the start flag is set.
Wait ==
  /\ start /\ ~motor
  /\ Goes("wait", "restart")
  /\ UNCHANGED <<stored, reqPc, info, flagVars, stackVars, cbPc, motorVars>>

----------------------------------------------------------------------------
(* The WiFi stack, and the callback it reports to                          *)

callbackRest == <<stored, reqPc, taskVars, tried, motorVars>>

Connected ==
  /\ link = "trying" /\ cbPc = "idle"
  /\ link' = "connected"
  /\ UNCHANGED <<callbackRest, flagVars, radio, event, cbPc>>

\* TIMEOUT_NOT_FOUND_SSID: net_event_notify only.
NotFound ==
  /\ link = "trying" /\ cbPc = "idle"
  /\ link' = "lost"
  /\ UNCHANGED <<callbackRest, flagVars, radio, event, cbPc>>

\* STA_DISCONNECT: net_event_notify only.
Disconnected ==
  /\ link = "connected" /\ cbPc = "idle"
  /\ link' = "lost"
  /\ UNCHANGED <<callbackRest, flagVars, radio, event, cbPc>>

\* ASSOCIAT_FAIL or ASSOCIAT_TIMEOUT: both call WifiStopManual.
Fails(how) ==
  /\ link = "trying" /\ cbPc = "idle"
  /\ event' = how
  /\ cbPc' = "wifi_off"
  /\ UNCHANGED <<callbackRest, flagVars, radio, link>>

CallbackGoes(from, to) == cbPc = from /\ cbPc' = to

\* Mutant: the association is left.
WifiOffLeavesLink ==
  /\ CallbackGoes("wifi_off", "stop")
  /\ radio' = FALSE
  /\ UNCHANGED <<callbackRest, flagVars, link, event>>

WifiOff ==
  /\ CallbackGoes("wifi_off", "stop")
  /\ radio' = FALSE /\ link' = "none"
  /\ UNCHANGED <<callbackRest, flagVars, event>>

StopSetsOff ==
  /\ CallbackGoes("stop", "clear")
  /\ off' = TRUE
  /\ UNCHANGED <<callbackRest, start, radio, link, event>>

\* Mutant: a timeout stops WiFi as a failure does.
StopClearsAlways ==
  /\ CallbackGoes("clear", "idle")
  /\ start' = FALSE
  /\ UNCHANGED <<callbackRest, off, radio, link, event>>

\* After a timeout WiFiStartManual follows.
StopClearsStart ==
  /\ CallbackGoes("clear", IF event = "timeout" THEN "off" ELSE "idle")
  /\ start' = FALSE
  /\ UNCHANGED <<callbackRest, off, radio, link, event>>

RetrySetsOff ==
  /\ CallbackGoes("off", "start")
  /\ off' = TRUE
  /\ UNCHANGED <<callbackRest, start, radio, link, event>>

RetrySetsStart ==
  /\ CallbackGoes("start", "idle")
  /\ start' = TRUE
  /\ UNCHANGED <<callbackRest, off, radio, link, event>>

----------------------------------------------------------------------------
(* The application: app_music calls wifi_return_sta_mode when it handles   *)
(* the event of a lost association, the server that assigns the address    *)
(* when it answers.  It may come late, and need not come at all.  Reading  *)
(* the credentials and entering is one step: a restart that passes between *)
(* the two would have to fit in, with the half second between On and Read. *)

ReturnStaMode ==
  /\ radio
  /\ link' = "trying" /\ tried' = stored
  /\ UNCHANGED <<stored, reqPc, taskVars, flagVars, radio, event, cbPc, motorVars>>

----------------------------------------------------------------------------
(* CommandNVSWiFi: SaveWifiInfo, then WiFiStartManual                       *)

RequestGoes(from, to) == reqPc = from /\ reqPc' = to

RequestSaves ==
  /\ stored < MaxRequests + 1
  /\ RequestGoes("idle", "off")
  /\ stored' = stored + 1
  /\ UNCHANGED <<taskVars, flagVars, stackVars, cbPc, motorVars>>

\* Mutant: the task is not told to leave its loop.
RequestKeepsOn ==
  /\ RequestGoes("off", "start")
  /\ UNCHANGED <<stored, taskVars, flagVars, stackVars, cbPc, motorVars>>

RequestSetsOff ==
  /\ RequestGoes("off", "start")
  /\ off' = TRUE
  /\ UNCHANGED <<stored, taskVars, start, stackVars, cbPc, motorVars>>

RequestSetsStart ==
  /\ RequestGoes("start", "idle")
  /\ start' = TRUE
  /\ UNCHANGED <<stored, taskVars, off, stackVars, cbPc, motorVars>>

----------------------------------------------------------------------------
(* The step motor, see PrintEngine                                         *)

MotorStarts ==
  /\ ~motor /\ runs < MaxRuns
  /\ motor' = TRUE /\ runs' = runs + 1
  /\ UNCHANGED <<stored, reqPc, taskVars, flagVars, stackVars, cbPc>>

MotorStops ==
  /\ motor
  /\ motor' = FALSE
  /\ UNCHANGED <<stored, reqPc, taskVars, flagVars, stackVars, cbPc, runs>>

----------------------------------------------------------------------------

Manager == Restart \/ On \/ Read \/ Enter \/ Poll \/ Wait
Stack == Connected \/ NotFound \/ Fails("fail") \/ Fails("timeout")
Callback == WifiOff \/ StopSetsOff \/ StopClearsStart \/ RetrySetsOff \/ RetrySetsStart
Request == RequestSetsOff \/ RequestSetsStart

Next ==
  \/ Manager \/ Stack \/ Disconnected \/ Callback \/ ReturnStaMode
  \/ RequestSaves \/ Request
  \/ MotorStarts \/ MotorStops

Spec == Init /\ [][Next]_vars

\* The tasks are scheduled, every attempt ends (wifi_set_sta_connect_timeout) and
\* so does every run of the motor (MotorStops of PrintEngine); the host owes nothing.
Fairness ==
  /\ WF_vars(Manager) /\ WF_vars(Stack) /\ WF_vars(Callback) /\ WF_vars(Request)
  /\ WF_vars(MotorStops)
LiveSpec == Spec /\ Fairness

----------------------------------------------------------------------------
(* Properties                                                              *)

\* WifiStopManual after a failed association: WiFi stays off until it is asked for.
\* A request that comes while the failure is being reported is stopped with it.
StoppedByFailure == event = "fail" /\ off /\ ~start

\* New credentials that were not tried yet are never forgotten: somebody still holds
\* the request, the flags show it, or the task is about to read the credentials.  No
\* restart that runs beside the request and no timeout of the attempt before may
\* clear it; wifi_demo_task resets Wifi_Set_Status before it reads the credentials,
\* CommandNVSWiFi stores them before it sets the flags.
RequestPending ==
  tried # stored /\ ~StoppedByFailure =>
    \/ reqPc # "idle" \/ cbPc # "idle"
    \/ off /\ start
    \/ pc \in {"restart", "on", "read"}
    \/ pc = "enter" /\ info = stored

\* The last credentials are tried in the end, whatever happens to the attempts with
\* the ones before and however long the printer prints meanwhile.
LatestTried == []<>(tried = stored \/ StoppedByFailure)

\* After an association timeout there is a next attempt, however the restart interleaves
\* with new requests, with restarts already under way and with the printer ("when the
\* step motor stopped and start WiFi flag is set,then restart", 723).  It is the only
\* end of an attempt the manager answers with another one: after an association
\* failure WiFi stays off, and an access point that is not found or was lost is only
\* notified.
TriedAgain == link = "none" /\ event = "timeout" ~> link = "trying"
=============================================================================
