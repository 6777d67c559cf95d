---------------------------- MODULE NetFailover -----------------------------
(***************************************************************************)
(* The network a unit is on: WiFiManager.cpp (scan, fallback AP), the      *)
(* takeover policy of CellularModule.cpp, the modem bring-up and socket    *)
(* recovery of Cellular.cpp, and the transport MQTTClient.cpp picks.       *)
(*                                                                         *)
(* The main loop calls them in the order wifi, mqtt, shell, modules; one   *)
(* turn of the model is a turn in which the MQTT retry is due.  net.http   *)
(* runs on a task of its own.  The air, the carrier and the modem's        *)
(* hardware are the environment: what goes wrong costs one of MaxEvents.   *)
(*                                                                         *)
(* Times are what the code compares them with: a hold is off, running or   *)
(* over; a bring-up deadline is far while no phase has stalled, near once  *)
(* one has, and over.  A broker reached over a working link answers.       *)
(***************************************************************************)
EXTENDS Naturals

CONSTANTS
  ApPassword,     \* BOOLEAN: apMayStart
  ApTimeout,      \* BOOLEAN: wifi.ap_timeout_s > 0
  LinkModes,      \* what cellular.link_mode may say when it is read
  Gnss,           \* BOOLEAN: the GNSS module powers the modem too
  Operator,       \* who types cell.reset: "nobody", "idle" (somebody, outside a
                  \* bring-up) or "any" (somebody, at any time)
  Faults,         \* which calls may fail: "reset", "wake", "bus", "remote"
  RecycleStreak,  \* CELL_RECYCLE_STREAK
  ResetStreak,    \* CELL_RESET_STREAK
  FailStreak,     \* the 3 of cellular.activation_fail_streak
  MaxEvents       \* bound on what goes wrong

ASSUME SettingAssumption ==
  /\ ApPassword \in BOOLEAN /\ ApTimeout \in BOOLEAN
  /\ Gnss \in BOOLEAN /\ Operator \in {"nobody", "idle", "any"}
  /\ Faults \subseteq {"reset", "wake", "bus", "remote"}
  /\ LinkModes \subseteq {"fallback", "standby"} /\ LinkModes # {}
ASSUME StreakAssumption ==
  /\ RecycleStreak \in Nat /\ ResetStreak \in Nat /\ FailStreak \in Nat
  /\ 0 < RecycleStreak /\ RecycleStreak < ResetStreak /\ 0 < FailStreak
  /\ MaxEvents \in Nat

VARIABLES
  turn,        \* what the main loop calls next
  air,         \* the configured networks: "unset" (there are none), "none" in
               \* range, "seen" (they refuse), "open"
  link,        \* WiFi.status() == WL_CONNECTED
  status,      \* WiFiManager::_status
  apActive,    \* _apActive
  apOver,      \* ap_timeout_s has passed
  state,       \* CellularModule::_state
  downHold,    \* _wifiDownSince
  upHold,      \* _wifiUpSince
  actFails,    \* _actFails
  actPhase,    \* s_actPhase
  deadline,    \* s_actDeadline
  alive,       \* Cellular::_modemAlive
  started,     \* Cellular::_started
  linkUp,      \* s_linkUp
  probeDue,    \* s_lastHealthMs is 0 or a minute old
  fails,       \* s_openFails, s_sendFails
  queued,      \* s_recoverQueued
  answers,     \* the modem answers AT
  coverage,    \* it can register
  pdp,         \* its data context is up
  wedge,       \* what its sockets need: "none", "bearer" (recycle), "modem" (reset)
  offered,     \* s_cellularActive
  session,     \* transport of the live MQTT session, or "none"
  leftUp,      \* the last yield left the context up
  worker,      \* the net.http task uses the modem
  events

wifiVars  == <<link, status, apActive, apOver>>
holdVars  == <<state, downHold, upHold, actFails>>
actVars   == <<actPhase, deadline>>
linkVars  == <<alive, started, linkUp>>
sockVars  == <<probeDue, fails, queued>>
modemVars == <<answers, coverage, pdp, wedge>>
mqttVars  == <<offered, session, leftUp>>
vars == <<turn, air, wifiVars, holdVars, actVars, linkVars, sockVars, modemVars,
          mqttVars, worker, events>>

Turns     == {"setup", "wifi", "mqtt", "shell", "modules", "yield"}
Airs      == {"unset", "none", "seen", "open"}
Kinds     == {"open", "send"}
Steps     == {"recycle", "reset"}
Holds     == {"off", "running", "over"}
ActPhases == {"init", "power_on", "sim", "radio_cfg", "register", "bearer"}

WifiType  == /\ link \in BOOLEAN /\ apActive \in BOOLEAN /\ apOver \in BOOLEAN
             /\ status \in {"connected", "scanning", "all_failed"}
HoldType  == /\ state \in {"standby", "activating", "active"}
             /\ downHold \in Holds /\ upHold \in Holds
             /\ actFails \in 0..(FailStreak - 1)
ActType   == actPhase \in ActPhases /\ deadline \in {"far", "near", "over"}
LinkType  == alive \in BOOLEAN /\ started \in BOOLEAN /\ linkUp \in BOOLEAN
SockType  == /\ probeDue \in BOOLEAN
             /\ fails \in [Kinds -> 0..(ResetStreak - 1)]
             /\ queued \subseteq Steps
ModemType == /\ answers \in BOOLEAN /\ coverage \in BOOLEAN /\ pdp \in BOOLEAN
             /\ wedge \in {"none", "bearer", "modem"}
MqttType  == /\ offered \in BOOLEAN /\ leftUp \in BOOLEAN
             /\ session \in {"none", "wifi", "cellular"}

\* The type invariant; no failure streak outlives the reset it earns.
TypeOK ==
  /\ turn \in Turns /\ air \in Airs /\ worker \in BOOLEAN /\ events \in Nat
  /\ WifiType /\ HoldType /\ ActType /\ LinkType /\ SockType /\ ModemType /\ MqttType

Init ==
  /\ turn = "setup"
  /\ air \in Airs /\ link = FALSE
  /\ status = "scanning" /\ apActive = FALSE /\ apOver = FALSE
  /\ state = "standby" /\ downHold = "off" /\ upHold = "off" /\ actFails = 0
  /\ actPhase = "init" /\ deadline = "far"
  /\ alive = FALSE /\ started = FALSE /\ linkUp = FALSE
  /\ probeDue = TRUE /\ fails = [k \in Kinds |-> 0] /\ queued = {}
  /\ answers \in BOOLEAN /\ coverage \in BOOLEAN /\ pdp = FALSE /\ wedge = "none"
  /\ offered = FALSE /\ session = "none"
  /\ leftUp = FALSE /\ worker = FALSE
  /\ events = 0

Spend == events < MaxEvents /\ events' = events + 1

-----------------------------------------------------------------------------
(* WiFiManager *)

startFallbackAP ==
  /\ apActive' = ApPassword
  /\ apOver' = FALSE

\* scanAndConnect, called with the AP down.
scanAndConnect ==
  \/ /\ air = "unset"
     /\ status' = "scanning" /\ link' = FALSE
     /\ startFallbackAP
  \/ /\ air \in {"none", "seen"}
     /\ status' = "all_failed" /\ link' = FALSE
     /\ startFallbackAP
  \/ /\ air = "open"
     /\ status' = "connected" /\ link' = TRUE
     /\ apActive' = FALSE /\ apOver' = FALSE

WiFiBegin ==
  /\ turn = "setup" /\ turn' = "wifi"
  /\ scanAndConnect
  /\ UNCHANGED <<air, holdVars, actVars, linkVars, sockVars, modemVars, mqttVars,
                 worker, events>>

\* Mutant: the AP stays up until somebody uses it.
RescanWithoutTimeout == ~apActive /\ status # "all_failed" /\ ~link

\* When loop() scans again: the AP timed out, or a connected unit lost its link.
RescanDue == \/ apActive /\ ApTimeout /\ apOver
             \/ ~apActive /\ status # "all_failed" /\ ~link

WiFiLoop ==
  /\ turn = "wifi" /\ turn' = "mqtt"
  /\ IF RescanDue THEN scanAndConnect ELSE UNCHANGED wifiVars
  /\ UNCHANGED <<air, holdVars, actVars, linkVars, sockVars, modemVars, mqttVars,
                 worker, events>>

-----------------------------------------------------------------------------
(* Cellular: resets, recycles and what a socket failure earns *)

Forgotten == IF session = "cellular" THEN "none" ELSE session

ResetWorks == alive' = TRUE /\ answers' = TRUE /\ pdp' = FALSE /\ wedge' = "none"

\* The modem does not come back within a minute, or the PMU refuses and
\* nothing is cycled.
ResetFails ==
  /\ "reset" \in Faults
  /\ alive' = FALSE
  /\ \/ answers' = FALSE /\ pdp' = FALSE /\ wedge' = "none"
     \/ UNCHANGED <<answers, pdp, wedge>>

\* Mutant: the reset leaves the link flag standing.
DropKeepsStarted == started' = started /\ queued' = {} /\ session' = Forgotten

DropFlags == started' = FALSE /\ queued' = {} /\ session' = Forgotten

\* hardReset with the bus in hand.
PowerCycle ==
  /\ DropFlags
  /\ \/ ResetWorks /\ UNCHANGED events
     \/ ResetFails /\ Spend

\* An AT bus the net.http task holds for the whole wait.
BusBusy == "bus" \in Faults /\ worker /\ Spend

\* The recycle of socketRecoverRun: context down and up again.
Recycle ==
  /\ pdp' = (answers /\ coverage)
  /\ wedge' = IF wedge = "bearer" THEN "none" ELSE wedge
  /\ session' = Forgotten
  /\ UNCHANGED <<alive, started, queued, answers, events>>

cellRecoverStep(streak) ==
  IF streak >= ResetStreak THEN "reset"
  ELSE IF streak = RecycleStreak THEN "recycle" ELSE "none"

\* Mutant: the streak that earned a reset goes on.
CountedOn(kind, opened) ==
  [k \in Kinds |-> IF k = kind THEN fails[k] + 1 ELSE IF opened THEN 0 ELSE fails[k]]

\* The streaks after a failure, on a socket that had been opened for it or not.
Counted(kind, opened) ==
  [k \in Kinds |->
    IF k # kind THEN IF opened THEN 0 ELSE fails[k]
    ELSE IF cellRecoverStep(fails[k] + 1) = "reset" THEN 0 ELSE fails[k] + 1]

\* socketRecover on the main task, which runs the step at once.
SocketFailsHere(kind) ==
  /\ session = "cellular" => kind = "send"
  /\ fails' = Counted(kind, session = "none" /\ kind = "send")
  /\ probeDue' = TRUE
  /\ \/ cellRecoverStep(fails[kind] + 1) = "reset" /\ PowerCycle
     \/ cellRecoverStep(fails[kind] + 1) = "recycle" /\ Recycle
     \/ /\ cellRecoverStep(fails[kind] + 1) = "none"
        /\ session' = Forgotten
        /\ UNCHANGED <<alive, started, queued, answers, pdp, wedge, events>>
  /\ UNCHANGED <<linkUp, coverage>>

SocketsWork == answers /\ coverage /\ pdp /\ wedge = "none"

-----------------------------------------------------------------------------
(* MQTTClient::loop *)

transportWanted ==
  IF status = "connected" /\ link THEN "wifi"
  ELSE IF offered THEN "cellular" ELSE "none"

MqttStep ==
  /\ turn = "mqtt" /\ turn' = "shell"
  /\ UNCHANGED <<air, wifiVars, holdVars, actVars, offered, leftUp, worker>>

\* The session is on the transport it should be on, or there is none to use.
MqttKeeps ==
  /\ MqttStep
  /\ session = transportWanted /\ (session = "cellular" => SocketsWork)
  /\ fails' = IF session = "cellular" THEN [fails EXCEPT !["send"] = 0] ELSE fails
  /\ UNCHANGED <<session, linkVars, probeDue, queued, modemVars, events>>

\* The session is on a transport that should not carry it; the same call dials.
MqttSwitches ==
  /\ turn = "mqtt"
  /\ session # "none" /\ session # transportWanted
  /\ session' = "none"
  /\ UNCHANGED <<turn, air, wifiVars, holdVars, actVars, linkVars, sockVars, modemVars,
                 offered, leftUp, worker, events>>

MqttConnects ==
  /\ MqttStep
  /\ session = "none" /\ transportWanted # "none"
  /\ transportWanted = "cellular" => SocketsWork
  /\ session' = transportWanted
  /\ fails' = IF session' = "cellular" THEN [k \in Kinds |-> 0] ELSE fails
  /\ UNCHANGED <<linkVars, probeDue, queued, modemVars, events>>

\* A dial or a live session over sockets that do not carry.  A failed lookup
\* or a keepalive that ran out counts nothing.
MqttModemFails ==
  /\ MqttStep
  /\ transportWanted = "cellular" /\ session # "wifi" /\ ~SocketsWork
  /\ \/ \E kind \in Kinds : SocketFailsHere(kind)
     \/ /\ ~(answers /\ coverage /\ pdp)
        /\ session' = "none"
        /\ UNCHANGED <<linkVars, sockVars, modemVars, events>>

-----------------------------------------------------------------------------
(* Shell and the net.http task *)

ShellLoop ==
  /\ turn = "shell" /\ turn' = "modules"
  /\ UNCHANGED <<air, wifiVars, holdVars, actVars, linkVars, sockVars, modemVars,
                 mqttVars, worker, events>>

CellReset ==
  /\ turn = "shell" /\ turn' = "modules"
  /\ Operator # "nobody" /\ (Operator = "idle" => actPhase = "init")
  /\ \/ Spend /\ DropFlags /\ (ResetWorks \/ ResetFails)
     \/ BusBusy /\ UNCHANGED <<alive, started, queued, answers, pdp, wedge, session>>
  /\ UNCHANGED <<air, wifiVars, holdVars, actVars, linkUp, probeDue, fails,
                 coverage, offered, leftUp, worker>>

WorkerFrame ==
  UNCHANGED <<turn, air, wifiVars, holdVars, actVars, linkVars, modemVars, mqttVars>>

\* net.http takes the modem while WiFi is down; slot 1 takes one fetch.
HttpStart ==
  /\ ~worker /\ transportWanted # "wifi"
  /\ alive /\ answers /\ coverage /\ pdp
  /\ started /\ linkUp
  /\ worker' = TRUE
  /\ WorkerFrame /\ UNCHANGED <<sockVars, events>>

\* socketRecover off the driver task: counts, and queues the step it earns.
HttpSocketFails(kind) ==
  /\ worker
  /\ \/ ~SocketsWork /\ UNCHANGED events
     \/ SocketsWork /\ "remote" \in Faults /\ Spend
  /\ fails' = Counted(kind, kind = "send")
  /\ probeDue' = TRUE
  /\ queued' = queued \cup ({cellRecoverStep(fails[kind] + 1)} \cap Steps)
  /\ worker' = FALSE
  /\ WorkerFrame

\* It worked; or the lookup or the wait failed, which counts nothing.
HttpDone ==
  /\ worker
  /\ \/ SocketsWork /\ fails' = [k \in Kinds |-> 0]
     \/ ~(answers /\ coverage /\ pdp) /\ UNCHANGED fails
  /\ worker' = FALSE
  /\ WorkerFrame /\ UNCHANGED <<probeDue, queued, events>>

-----------------------------------------------------------------------------
(* CellularModule::loop *)

CellStep ==
  /\ turn = "modules" /\ turn' = IF state = "active" /\ alive /\ started THEN "yield" ELSE "wifi"
  /\ UNCHANGED <<air, wifiVars, worker>>

CellStandby ==
  /\ CellStep /\ state = "standby"
  /\ downHold' = IF status = "connected" THEN "off"
                 ELSE IF downHold = "off" THEN "running" ELSE downHold
  /\ state' = IF status # "connected" /\ downHold = "over" THEN "activating" ELSE state
  /\ UNCHANGED <<upHold, actFails, actVars, linkVars, sockVars, modemVars, mqttVars, events>>

\* tickActivation with one phase left as it is or passed, PENDING.
ActPending(next, late) ==
  /\ CellStep /\ state = "activating" /\ ~started
  /\ deadline # "over"
  /\ actPhase' = next
  /\ deadline' = IF late THEN "near" ELSE deadline
  /\ UNCHANGED <<holdVars, started, linkUp, sockVars, coverage, wedge, mqttVars>>

ActInit ==
  /\ CellStep /\ state = "activating" /\ ~started
  /\ actPhase = "init" /\ actPhase' = "power_on"
  /\ deadline' = "far"
  /\ UNCHANGED <<holdVars, linkVars, sockVars, modemVars, mqttVars, events>>

\* powerOn: PWRKEY until the modem answers; at once when it is alive.
ActPowerOn ==
  /\ actPhase = "power_on" /\ ActPending("sim", FALSE)
  /\ alive' = TRUE
  /\ answers' = (answers \/ ~alive)
  /\ UNCHANGED <<pdp, events>>

ActSim ==
  /\ actPhase = "sim" /\ answers /\ ActPending("radio_cfg", FALSE)
  /\ UNCHANGED <<alive, answers, pdp, events>>

\* CFUN=0 takes the context down with the radio, when the modem hears it.
ActRadioCfg ==
  /\ actPhase = "radio_cfg"
  /\ \/ /\ ActPending("register", FALSE)
        /\ pdp' = (pdp /\ ~answers)
        /\ UNCHANGED events
     \/ ActPending("radio_cfg", TRUE) /\ BusBusy /\ UNCHANGED pdp
  /\ UNCHANGED <<alive, answers>>

\* Registered; still searching; denied or searching too long.
ActRegister ==
  /\ actPhase = "register"
  /\ \/ answers /\ coverage /\ ActPending("bearer", FALSE) /\ UNCHANGED events
     \/ /\ ~(answers /\ coverage) /\ UNCHANGED events
        /\ \E next \in {"register", "radio_cfg"} : ActPending(next, TRUE)
     \/ ActPending("register", TRUE) /\ BusBusy
  /\ UNCHANGED <<alive, answers, pdp>>

ActBearerFails ==
  /\ actPhase = "bearer"
  /\ \/ ~(answers /\ coverage) /\ ActPending("radio_cfg", TRUE) /\ UNCHANGED events
     \/ ActPending("bearer", TRUE) /\ BusBusy
  /\ UNCHANGED <<alive, answers, pdp>>

\* DONE: the link is offered to MQTTClient.
Activated ==
  /\ actFails' = 0 /\ state' = "active" /\ upHold' = "off"
  /\ offered' = TRUE /\ leftUp' = FALSE
  /\ actPhase' = "init"
  /\ UNCHANGED <<downHold, deadline, alive, probeDue, fails, answers, coverage, session,
                 events>>

ActAlreadyUp ==
  /\ CellStep /\ state = "activating" /\ started
  /\ Activated
  /\ UNCHANGED <<started, linkUp, queued, pdp, wedge>>

\* A fresh context works whatever wedged the last one, unless the modem did.
ActBearer ==
  /\ CellStep /\ state = "activating" /\ ~started /\ deadline # "over"
  /\ actPhase = "bearer" /\ answers /\ coverage
  /\ started' = TRUE /\ linkUp' = TRUE /\ queued' = {}
  /\ pdp' = TRUE
  /\ wedge' = IF ~pdp /\ wedge = "bearer" THEN "none" ELSE wedge
  /\ Activated

\* FAILED.  now was read before the phase blocked, so the hold may be over.
ActFailed ==
  /\ CellStep /\ state = "activating" /\ ~started
  /\ state' = "standby"
  /\ downHold' \in {"running", "over"}
  /\ actPhase' = "init"
  /\ actFails' = IF actFails + 1 >= FailStreak THEN 0 ELSE actFails + 1
  /\ UNCHANGED <<upHold, deadline, linkUp, probeDue, fails, coverage, offered, leftUp>>

\* The third failure in a row resets the modem.
StreakReset ==
  \/ actFails + 1 >= FailStreak /\ DropFlags /\ (ResetWorks \/ ResetFails)
  \/ /\ actFails + 1 < FailStreak
     /\ UNCHANGED <<alive, started, queued, answers, pdp, wedge, session>>

\* The modem does not wake, or the bus stays taken.
ActPhaseFails ==
  /\ ActFailed /\ deadline # "over"
  /\ Spend
  /\ \/ actPhase = "power_on" /\ ~alive /\ "wake" \in Faults
     \/ /\ actPhase = "sim" \/ (actPhase = "power_on" /\ ~alive)
        /\ worker /\ "bus" \in Faults
  /\ StreakReset

\* A modem that counts as alive and does not answer has no SIM to show.
ActNoSim ==
  /\ ActFailed /\ deadline # "over"
  /\ actPhase = "sim" /\ ~answers
  /\ UNCHANGED events
  /\ StreakReset

\* The deadline, whose reset the third failure repeats.
ActExpires ==
  /\ ActFailed /\ actPhase # "init" /\ deadline = "over"
  /\ \/ PowerCycle
     \/ BusBusy /\ UNCHANGED <<alive, started, queued, answers, pdp, wedge, session>>

\* A reset or a lost link: withdrawn, and brought up again.
CellLost ==
  /\ CellStep /\ state = "active" /\ ~(alive /\ started)
  /\ state' = "activating" /\ offered' = FALSE
  /\ UNCHANGED <<downHold, upHold, actFails, actVars, linkVars, sockVars, modemVars,
                 session, leftUp, events>>

\* Cellular::loop.  Not due, or the bus is busy and the probe is a minute away.
ProbeSkipped ==
  /\ CellStep /\ state = "active" /\ alive /\ started
  /\ \/ ~probeDue /\ UNCHANGED <<probeDue, events>>
     \/ probeDue /\ probeDue' = FALSE /\ BusBusy
  /\ UNCHANGED <<holdVars, actVars, linkVars, fails, queued, modemVars, mqttVars>>

ProbeStep ==
  /\ CellStep /\ state = "active" /\ alive /\ started /\ probeDue
  /\ probeDue' = FALSE
  /\ UNCHANGED <<holdVars, actVars, fails, coverage, offered, leftUp>>

\* A reset another task queued goes before a recycle.
ProbeResets ==
  /\ ProbeStep /\ "reset" \in queued
  /\ PowerCycle
  /\ UNCHANGED linkUp

\* Mutant: the probe trusts the registration alone.
LostUnregistered == ~(answers /\ coverage)

\* What isRegistered and isGprsConnectedRaw see, once a queued recycle is run.
Lost == ~(answers /\ coverage) \/ (queued = {} /\ ~pdp)

\* What is queued is run, and the link is still there.
ProbeFinds ==
  /\ ProbeStep /\ "reset" \notin queued /\ ~Lost
  /\ \/ /\ queued # {}
        /\ pdp' = TRUE /\ wedge' = IF wedge = "bearer" THEN "none" ELSE wedge
        /\ session' = Forgotten
     \/ queued = {} /\ UNCHANGED <<pdp, wedge, session>>
  /\ queued' = {}
  /\ UNCHANGED <<linkVars, answers, events>>

\* The link is gone, even after a recycle.
ProbeLoses ==
  /\ ProbeStep /\ "reset" \notin queued /\ Lost
  /\ started' = FALSE /\ linkUp' = FALSE
  /\ pdp' = (pdp /\ queued = {})
  /\ session' = Forgotten
  /\ queued' = {}
  /\ UNCHANGED <<alive, answers, wedge, events>>

YieldStep ==
  /\ turn = "yield" /\ turn' = "wifi"
  /\ UNCHANGED <<air, wifiVars, actFails, actVars, alive, sockVars, answers, coverage,
                 wedge, worker>>

\* The end of ACTIVE: WiFi is down, or not up for a minute yet.
CellHolds ==
  /\ YieldStep
  /\ status # "connected" \/ upHold # "over"
  /\ upHold' = IF status # "connected" THEN "off"
               ELSE IF upHold = "off" THEN "running" ELSE upHold
  /\ UNCHANGED <<state, downHold, started, linkUp, pdp, mqttVars, events>>

\* Mutant: the bring-up thinks the closed context is still there.
DownStillStarted ==
  /\ started' = started /\ linkUp' = FALSE /\ pdp' = FALSE
  /\ session' = Forgotten /\ leftUp' = FALSE

dataLinkDown ==
  /\ started' = FALSE /\ linkUp' = FALSE /\ pdp' = FALSE
  /\ session' = Forgotten /\ leftUp' = FALSE

\* Withdrawn, and the context closed unless link_mode keeps it warm.
CellYields ==
  /\ YieldStep
  /\ status = "connected" /\ upHold = "over"
  /\ state' = "standby" /\ offered' = FALSE
  /\ downHold' = "off" /\ upHold' = "off"
  /\ \/ /\ "fallback" \in LinkModes /\ alive
        /\ dataLinkDown
        /\ UNCHANGED events
     \/ /\ "fallback" \in LinkModes /\ alive /\ BusBusy
        /\ leftUp' = TRUE
        /\ UNCHANGED <<started, linkUp, pdp, session>>
     \/ /\ "standby" \in LinkModes \/ ~alive
        /\ leftUp' = TRUE
        /\ UNCHANGED <<started, linkUp, pdp, session, events>>

\* GNSSModule::loop: powerOn, which may time out.
GnssPowerOn ==
  /\ Gnss /\ turn = "modules" /\ ~alive
  /\ alive' = TRUE /\ answers' = TRUE
  /\ UNCHANGED <<turn, air, wifiVars, holdVars, actVars, started, linkUp, sockVars,
                 coverage, pdp, wedge, mqttVars, worker, events>>

-----------------------------------------------------------------------------
(* Time and the environment *)

TimeFrame ==
  UNCHANGED <<turn, air, link, status, apActive, state, actFails, actPhase, linkVars,
              fails, queued, modemVars, mqttVars, worker, events>>

ApTimesOut ==
  /\ apActive /\ ApTimeout /\ ~apOver /\ apOver' = TRUE
  /\ TimeFrame /\ UNCHANGED <<downHold, upHold, deadline, probeDue>>
DownHoldPasses ==
  /\ downHold = "running" /\ downHold' = "over"
  /\ TimeFrame /\ UNCHANGED <<apOver, upHold, deadline, probeDue>>
UpHoldPasses ==
  /\ upHold = "running" /\ upHold' = "over"
  /\ TimeFrame /\ UNCHANGED <<apOver, downHold, deadline, probeDue>>
DeadlinePasses ==
  /\ actPhase # "init" /\ deadline = "near" /\ deadline' = "over"
  /\ TimeFrame /\ UNCHANGED <<apOver, downHold, upHold, probeDue>>
ProbeFallsDue ==
  /\ ~probeDue /\ probeDue' = TRUE
  /\ TimeFrame /\ UNCHANGED <<apOver, downHold, upHold, deadline>>

EnvFrame ==
  UNCHANGED <<turn, status, apActive, apOver, holdVars, actVars, linkVars, sockVars,
              mqttVars, worker>>

AirChanges ==
  /\ Spend
  /\ air # "unset" /\ air' \in Airs \ {air, "unset"}
  /\ link' = (link /\ air' = "open")
  /\ EnvFrame /\ UNCHANGED modemVars
CoverageChanges ==
  /\ Spend
  /\ coverage' = ~coverage
  /\ pdp' = (pdp /\ coverage')
  /\ EnvFrame /\ UNCHANGED <<air, link, answers, wedge>>
ContextLost ==
  /\ Spend
  /\ pdp /\ pdp' = FALSE
  /\ EnvFrame /\ UNCHANGED <<air, link, answers, coverage, wedge>>
SocketsWedge ==
  /\ Spend
  /\ pdp /\ wedge = "none" /\ wedge' \in {"bearer", "modem"}
  /\ EnvFrame /\ UNCHANGED <<air, link, answers, coverage, pdp>>
ModemHangs ==
  /\ Spend
  /\ answers /\ answers' = FALSE
  /\ EnvFrame /\ UNCHANGED <<air, link, coverage, pdp, wedge>>
\* A modem that was slow to boot answers after all.
ModemWakes ==
  /\ ~answers /\ ~alive /\ answers' = TRUE
  /\ EnvFrame /\ UNCHANGED <<air, link, coverage, pdp, wedge, events>>

-----------------------------------------------------------------------------
WiFiStep  == WiFiBegin \/ WiFiLoop
MqttLoop  == MqttKeeps \/ MqttSwitches \/ MqttConnects \/ MqttModemFails
ShellStep == ShellLoop \/ CellReset
ActStep   == \/ ActInit \/ ActPowerOn \/ ActSim \/ ActRadioCfg \/ ActRegister
             \/ ActBearerFails \/ ActBearer \/ ActAlreadyUp \/ ActPhaseFails \/ ActNoSim
             \/ ActExpires
CellLoop  == \/ CellStandby \/ ActStep \/ CellLost
             \/ ProbeSkipped \/ ProbeResets \/ ProbeFinds \/ ProbeLoses
             \/ CellHolds \/ CellYields
HttpTask  == HttpStart \/ HttpDone \/ \E kind \in Kinds : HttpSocketFails(kind)
Time      == ApTimesOut \/ DownHoldPasses \/ UpHoldPasses \/ DeadlinePasses \/ ProbeFallsDue
Env       == \/ AirChanges \/ CoverageChanges \/ ContextLost \/ SocketsWedge
             \/ ModemHangs \/ ModemWakes

MainLoop == WiFiStep \/ MqttLoop \/ ShellStep \/ CellLoop

Next == MainLoop \/ GnssPowerOn \/ HttpTask \/ Time \/ Env

Spec == Init /\ [][Next]_vars

\* The loop turns and time passes; nothing is asked of a fetch, of the GNSS
\* module or of the environment.
Fairness ==
  /\ WF_vars(MainLoop)
  /\ WF_vars(ApTimesOut) /\ WF_vars(DownHoldPasses) /\ WF_vars(UpHoldPasses)
  /\ WF_vars(DeadlinePasses) /\ WF_vars(ProbeFallsDue)

FairSpec == Spec /\ Fairness

-----------------------------------------------------------------------------
\* A link that counts as activated runs on a modem that counts as alive:
\* otherwise loop() drops the link for the dead modem, tickActivation reports
\* the same link as up, and the two alternate.
StartedAlive == started => alive

\* WiFi that comes back is found: scanAndConnect runs again after a failure.
WifiReturns == []<>(air # "open") \/ []<>(status = "connected" /\ link)

\* Without WiFi and with coverage the session comes up on the modem, whatever
\* wedged it: lost contexts, wedged sockets, hung modems, failed resets.
TakesOver ==
  []<>(status = "connected") \/ []<>~coverage \/ []<>(session = "cellular")

\* With WiFi back for good the modem link is withdrawn for good and the session
\* is not on it; the data context is closed too, unless link_mode kept it or a
\* fetch held the bus.
YieldsBack ==
  \/ []<>(status # "connected")
  \/ <>[](state = "standby" /\ ~offered /\ session # "cellular" /\ (started => leftUp))
=============================================================================
