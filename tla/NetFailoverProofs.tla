------------------------ MODULE NetFailoverProofs ---------------------------
(***************************************************************************)
(* Type correctness of NetFailover, and that an activated link runs on a   *)
(* modem that counts as alive, for every streak, every setting and every   *)
(* number of things that go wrong.                                         *)
(***************************************************************************)
EXTENDS NetFailover, TLAPS

Streaks == [Kinds -> 0..(ResetStreak - 1)]

\* A streak stops short of the count that earns a reset.
LEMMA CountedType ==
  ASSUME fails \in Streaks, NEW kind \in Kinds, NEW opened \in BOOLEAN
  PROVE  Counted(kind, opened) \in Streaks
<1> SUFFICES ASSUME NEW k \in Kinds
             PROVE  Counted(kind, opened)[k] \in 0..(ResetStreak - 1)
  BY DEF Counted, Streaks
<1>1. fails[k] \in 0..(ResetStreak - 1)
  BY DEF Streaks
<1>2. CASE k # kind
  BY <1>1, <1>2, StreakAssumption DEF Counted
<1>3. CASE k = kind
  BY <1>1, <1>3, StreakAssumption DEF Counted, cellRecoverStep
<1>4. QED
  BY <1>2, <1>3

LEMMA TypeInit == Init => TypeOK
<1> SUFFICES ASSUME Init PROVE TypeOK
  OBVIOUS
<1>1. WifiType /\ ActType /\ LinkType /\ ModemType /\ MqttType
  BY DEF Init, WifiType, ActType, LinkType, ModemType, MqttType, ActPhases
<1>2. HoldType /\ SockType
  BY StreakAssumption DEF Init, HoldType, SockType, Holds
<1>3. QED
  BY <1>1, <1>2 DEF Init, TypeOK, Turns

\* What a step leaves alone keeps its type.
LEMMA Frames ==
  /\ WifiType /\ UNCHANGED wifiVars => WifiType'
  /\ HoldType /\ UNCHANGED holdVars => HoldType'
  /\ ActType /\ UNCHANGED actVars => ActType'
  /\ LinkType /\ UNCHANGED linkVars => LinkType'
  /\ SockType /\ UNCHANGED sockVars => SockType'
  /\ ModemType /\ UNCHANGED modemVars => ModemType'
  /\ MqttType /\ UNCHANGED mqttVars => MqttType'
<1>1. WifiType /\ UNCHANGED wifiVars => WifiType'
  BY DEF WifiType, wifiVars
<1>2. HoldType /\ UNCHANGED holdVars => HoldType'
  BY DEF HoldType, holdVars
<1>3. ActType /\ UNCHANGED actVars => ActType'
  BY DEF ActType, actVars
<1>4. LinkType /\ UNCHANGED linkVars => LinkType'
  BY DEF LinkType, linkVars
<1>5. SockType /\ UNCHANGED sockVars => SockType'
  BY DEF SockType, sockVars
<1>6. ModemType /\ UNCHANGED modemVars => ModemType'
  BY DEF ModemType, modemVars
<1>7. MqttType /\ UNCHANGED mqttVars => MqttType'
  BY DEF MqttType, mqttVars
<1>8. QED
  BY <1>1, <1>2, <1>3, <1>4, <1>5, <1>6, <1>7

\* A socket failure on the main task, with the step it earns.
LEMMA SocketFailsType ==
  ASSUME TypeOK, NEW kind \in Kinds, SocketFailsHere(kind)
  PROVE  /\ LinkType' /\ SockType' /\ ModemType' /\ events' \in Nat
         /\ session' \in {"none", "wifi", "cellular"}
<1>1. fails' \in Streaks
  <2>1. fails' = Counted(kind, session = "none" /\ kind = "send")
    BY DEF SocketFailsHere
  <2>2. (session = "none" /\ kind = "send") \in BOOLEAN
    OBVIOUS
  <2>3. QED
    BY <2>1, <2>2, CountedType DEF TypeOK, SockType, Streaks
<1>2. SockType'
  BY <1>1 DEF TypeOK, SockType, SocketFailsHere, PowerCycle, DropFlags, Recycle, Streaks
<1>3. LinkType'
  BY DEF TypeOK, LinkType, SocketFailsHere, PowerCycle, DropFlags, ResetWorks, ResetFails,
     Recycle
<1>4. ModemType'
  BY DEF TypeOK, ModemType, SocketFailsHere, PowerCycle, ResetWorks, ResetFails, Recycle
<1>5. events' \in Nat
  BY DEF TypeOK, SocketFailsHere, PowerCycle, Spend, Recycle
<1>6. session' \in {"none", "wifi", "cellular"}
  BY DEF TypeOK, MqttType, SocketFailsHere, PowerCycle, DropFlags, Recycle, Forgotten
<1>7. QED
  BY <1>2, <1>3, <1>4, <1>5, <1>6

\* The call of CellularModule::loop, whatever it does.
LEMMA CellStepType ==
  ASSUME TypeOK, CellStep
  PROVE  turn' \in Turns /\ UNCHANGED <<air, worker, wifiVars>>
<1>1. turn' \in {"wifi", "yield"}
  BY Zenon DEF CellStep
<1>2. QED
  BY <1>1 DEF CellStep, Turns

\* Every step keeps the types.
LEMMA TypeStep ==
  ASSUME TypeOK, [Next]_vars PROVE TypeOK'
<1> USE Frames
<1>1. CASE WiFiBegin
  <2>1. WifiType'
    BY <1>1, SettingAssumption DEF WiFiBegin, scanAndConnect, startFallbackAP,
      TypeOK, WifiType, wifiVars
  <2>2. QED
    BY <1>1, <2>1 DEF WiFiBegin, TypeOK, Turns
<1>2. CASE WiFiLoop
  <2>1. WifiType'
    BY <1>2, SettingAssumption DEF WiFiLoop, scanAndConnect, startFallbackAP,
      wifiVars, TypeOK, WifiType
  <2>2. QED
    BY <1>2, <2>1 DEF WiFiLoop, TypeOK, Turns
<1>3. CASE MqttKeeps
  <2>1. SockType'
    BY <1>3, StreakAssumption DEF MqttKeeps, Kinds, MqttStep, TypeOK, SockType,
      sockVars
  <2>2. MqttType'
    BY <1>3 DEF MqttKeeps, MqttStep, TypeOK, MqttType, mqttVars
  <2>3. QED
    BY <1>3, <2>1, <2>2 DEF MqttKeeps, MqttStep, TypeOK, Turns
<1>4. CASE MqttSwitches
  <2>1. MqttType'
    BY <1>4 DEF MqttSwitches, TypeOK, MqttType, mqttVars
  <2>2. QED
    BY <1>4, <2>1 DEF MqttSwitches, TypeOK, Turns
<1>5. CASE MqttConnects
  <2>1. SockType'
    BY <1>5, StreakAssumption DEF MqttConnects, MqttStep, TypeOK, SockType, sockVars
  <2>2. MqttType'
    BY <1>5 DEF MqttConnects, MqttStep, transportWanted, TypeOK, MqttType, mqttVars
  <2>3. QED
    BY <1>5, <2>1, <2>2 DEF MqttConnects, MqttStep, TypeOK, Turns
<1>6. CASE MqttModemFails
  <2>1. /\ turn' \in Turns /\ UNCHANGED <<air, worker, wifiVars, holdVars, actVars, offered, leftUp>>
    BY <1>6 DEF MqttModemFails, MqttStep, Turns
  <2>2. CASE \E kind \in Kinds : SocketFailsHere(kind)
    <3>1. /\ LinkType' /\ SockType' /\ ModemType' /\ events' \in Nat
          /\ session' \in {"none", "wifi", "cellular"}
      BY <2>2, SocketFailsType
    <3>2. MqttType'
      BY <2>1, <3>1 DEF TypeOK, MqttType
    <3>3. QED
      BY <2>1, <3>1, <3>2 DEF TypeOK
  <2>3. CASE session' = "none" /\ UNCHANGED <<linkVars, sockVars, modemVars, events>>
    <3>1. MqttType'
      BY <2>1, <2>3 DEF TypeOK, MqttType
    <3>2. QED
      BY <2>1, <2>3, <3>1 DEF TypeOK
  <2>4. QED
    BY <1>6, <2>2, <2>3 DEF MqttModemFails
<1>7. CASE ShellLoop
  <2>1. QED
    BY <1>7 DEF ShellLoop, TypeOK, Turns
<1>8. CASE CellReset
  <2>1. LinkType'
    BY <1>8 DEF CellReset, DropFlags, ResetWorks, ResetFails, Forgotten, TypeOK,
      LinkType, linkVars
  <2>2. SockType'
    BY <1>8, StreakAssumption DEF CellReset, DropFlags, ResetWorks, ResetFails,
      Forgotten, TypeOK, SockType, sockVars
  <2>3. ModemType'
    BY <1>8 DEF CellReset, DropFlags, ResetWorks, ResetFails, Forgotten, TypeOK,
      ModemType, modemVars
  <2>4. MqttType'
    BY <1>8 DEF CellReset, DropFlags, ResetWorks, ResetFails, Forgotten, TypeOK,
      MqttType, mqttVars
  <2>5. air' \in Airs /\ events' \in Nat
    BY <1>8 DEF CellReset, Spend, BusBusy, TypeOK
  <2>6. QED
    BY <1>8, <2>1, <2>2, <2>3, <2>4, <2>5 DEF CellReset, TypeOK, Turns
<1>9. CASE CellStandby
  <2>1. CellStep
    BY <1>9 DEF CellStandby
  <2>2. turn' \in Turns /\ UNCHANGED <<air, worker, wifiVars>>
    BY <2>1, CellStepType
  <2>3. HoldType'
    BY <1>9, StreakAssumption DEF CellStandby, Holds, TypeOK, HoldType, holdVars
  <2>4. QED
    BY <1>9, <2>2, <2>3 DEF CellStandby, TypeOK
<1>10. CASE ActInit
  <2>1. CellStep
    BY <1>10 DEF ActInit
  <2>2. turn' \in Turns /\ UNCHANGED <<air, worker, wifiVars>>
    BY <2>1, CellStepType
  <2>3. ActType'
    BY <1>10 DEF ActInit, ActPhases, TypeOK, ActType, actVars
  <2>4. QED
    BY <1>10, <2>2, <2>3 DEF ActInit, TypeOK
<1>11. CASE ActPowerOn
  <2>1. CellStep
    BY <1>11 DEF ActPowerOn, ActPending
  <2>2. turn' \in Turns /\ UNCHANGED <<air, worker, wifiVars>>
    BY <2>1, CellStepType
  <2>3. ActType'
    BY <1>11 DEF ActPowerOn, ActPending, ActPhases, TypeOK, ActType, actVars
  <2>4. LinkType'
    BY <1>11 DEF ActPowerOn, ActPending, TypeOK, LinkType, linkVars
  <2>5. ModemType'
    BY <1>11 DEF ActPowerOn, ActPending, TypeOK, ModemType, modemVars
  <2>6. QED
    BY <1>11, <2>2, <2>3, <2>4, <2>5 DEF ActPowerOn, ActPending, TypeOK
<1>12. CASE ActSim
  <2>1. CellStep
    BY <1>12 DEF ActSim, ActPending
  <2>2. turn' \in Turns /\ UNCHANGED <<air, worker, wifiVars>>
    BY <2>1, CellStepType
  <2>3. ActType'
    BY <1>12 DEF ActSim, ActPending, ActPhases, TypeOK, ActType, actVars
  <2>4. LinkType'
    BY <1>12 DEF ActSim, ActPending, TypeOK, LinkType, linkVars
  <2>5. ModemType'
    BY <1>12 DEF ActSim, ActPending, TypeOK, ModemType, modemVars
  <2>6. QED
    BY <1>12, <2>2, <2>3, <2>4, <2>5 DEF ActSim, ActPending, TypeOK
<1>13. CASE ActRadioCfg
  <2>1. CellStep
    BY <1>13 DEF ActRadioCfg, ActPending
  <2>2. turn' \in Turns /\ UNCHANGED <<air, worker, wifiVars>>
    BY <2>1, CellStepType
  <2>3. ActType'
    BY <1>13 DEF ActRadioCfg, ActPending, ActPhases, TypeOK, ActType, actVars
  <2>4. LinkType'
    BY <1>13 DEF ActRadioCfg, ActPending, TypeOK, LinkType, linkVars
  <2>5. ModemType'
    BY <1>13 DEF ActRadioCfg, ActPending, TypeOK, ModemType, modemVars
  <2>6. air' \in Airs /\ events' \in Nat
    BY <1>13, <2>1, CellStepType DEF ActRadioCfg, ActPending, BusBusy, Spend, TypeOK
  <2>7. QED
    BY <1>13, <2>2, <2>3, <2>4, <2>5, <2>6 DEF ActRadioCfg, ActPending, TypeOK
<1>14. CASE ActRegister
  <2>1. CellStep
    BY <1>14 DEF ActRegister, ActPending
  <2>2. turn' \in Turns /\ UNCHANGED <<air, worker, wifiVars>>
    BY <2>1, CellStepType
  <2>3. ActType'
    BY <1>14 DEF ActRegister, ActPending, ActPhases, TypeOK, ActType, actVars
  <2>4. LinkType'
    BY <1>14 DEF ActRegister, ActPending, TypeOK, LinkType, linkVars
  <2>5. ModemType'
    BY <1>14 DEF ActRegister, ActPending, TypeOK, ModemType, modemVars
  <2>6. air' \in Airs /\ events' \in Nat
    BY <1>14, <2>1, CellStepType DEF ActRegister, ActPending, BusBusy, Spend, TypeOK
  <2>7. QED
    BY <1>14, <2>2, <2>3, <2>4, <2>5, <2>6 DEF ActRegister, ActPending, TypeOK
<1>15. CASE ActBearerFails
  <2>1. CellStep
    BY <1>15 DEF ActBearerFails, ActPending
  <2>2. turn' \in Turns /\ UNCHANGED <<air, worker, wifiVars>>
    BY <2>1, CellStepType
  <2>3. ActType'
    BY <1>15 DEF ActBearerFails, ActPending, ActPhases, TypeOK, ActType, actVars
  <2>4. LinkType'
    BY <1>15 DEF ActBearerFails, ActPending, TypeOK, LinkType, linkVars
  <2>5. ModemType'
    BY <1>15 DEF ActBearerFails, ActPending, TypeOK, ModemType, modemVars
  <2>6. air' \in Airs /\ events' \in Nat
    BY <1>15, <2>1, CellStepType DEF ActBearerFails, ActPending, BusBusy, Spend,
      TypeOK
  <2>7. QED
    BY <1>15, <2>2, <2>3, <2>4, <2>5, <2>6 DEF ActBearerFails, ActPending, TypeOK
<1>16. CASE ActBearer
  <2>1. CellStep
    BY <1>16 DEF ActBearer
  <2>2. turn' \in Turns /\ UNCHANGED <<air, worker, wifiVars>>
    BY <2>1, CellStepType
  <2>3. HoldType'
    BY <1>16, StreakAssumption DEF ActBearer, Activated, Holds, TypeOK, HoldType,
      holdVars
  <2>4. ActType'
    BY <1>16 DEF ActBearer, Activated, ActPhases, TypeOK, ActType, actVars
  <2>5. LinkType'
    BY <1>16 DEF ActBearer, Activated, TypeOK, LinkType, linkVars
  <2>6. SockType'
    BY <1>16, StreakAssumption DEF ActBearer, Activated, Steps, TypeOK, SockType,
      sockVars
  <2>7. ModemType'
    BY <1>16 DEF ActBearer, Activated, TypeOK, ModemType, modemVars
  <2>8. MqttType'
    BY <1>16 DEF ActBearer, Activated, TypeOK, MqttType, mqttVars
  <2>9. air' \in Airs /\ events' \in Nat
    BY <1>16, <2>1, CellStepType DEF ActBearer, Activated, TypeOK
  <2>10. QED
    BY <1>16, <2>2, <2>3, <2>4, <2>5, <2>6, <2>7, <2>8, <2>9 DEF ActBearer, TypeOK
<1>17. CASE ActAlreadyUp
  <2>1. CellStep
    BY <1>17 DEF ActAlreadyUp
  <2>2. turn' \in Turns /\ UNCHANGED <<air, worker, wifiVars>>
    BY <2>1, CellStepType
  <2>3. HoldType'
    BY <1>17, StreakAssumption DEF ActAlreadyUp, Activated, Holds, TypeOK, HoldType,
      holdVars
  <2>4. ActType'
    BY <1>17 DEF ActAlreadyUp, Activated, ActPhases, TypeOK, ActType, actVars
  <2>5. LinkType'
    BY <1>17 DEF ActAlreadyUp, Activated, TypeOK, LinkType, linkVars
  <2>6. SockType'
    BY <1>17, StreakAssumption DEF ActAlreadyUp, Activated, TypeOK, SockType,
      sockVars
  <2>7. ModemType'
    BY <1>17 DEF ActAlreadyUp, Activated, TypeOK, ModemType, modemVars
  <2>8. MqttType'
    BY <1>17 DEF ActAlreadyUp, Activated, TypeOK, MqttType, mqttVars
  <2>9. air' \in Airs /\ events' \in Nat
    BY <1>17, <2>1, CellStepType DEF ActAlreadyUp, Activated, TypeOK
  <2>10. QED
    BY <1>17, <2>2, <2>3, <2>4, <2>5, <2>6, <2>7, <2>8, <2>9 DEF ActAlreadyUp,
      TypeOK
<1>18. CASE ActPhaseFails
  <2>1. CellStep
    BY <1>18 DEF ActPhaseFails, ActFailed
  <2>2. turn' \in Turns /\ UNCHANGED <<air, worker, wifiVars>>
    BY <2>1, CellStepType
  <2>3. HoldType'
    BY <1>18, StreakAssumption DEF ActPhaseFails, ActFailed, Holds, TypeOK,
      HoldType, holdVars
  <2>4. ActType'
    BY <1>18 DEF ActPhaseFails, ActFailed, ActPhases, TypeOK, ActType, actVars
  <2>5. LinkType'
    BY <1>18 DEF ActPhaseFails, ActFailed, StreakReset, DropFlags, ResetWorks,
      ResetFails, Forgotten, TypeOK, LinkType, linkVars
  <2>6. SockType'
    BY <1>18, StreakAssumption DEF ActPhaseFails, ActFailed, StreakReset, DropFlags,
      ResetWorks, ResetFails, Forgotten, TypeOK, SockType, sockVars
  <2>7. ModemType'
    BY <1>18 DEF ActPhaseFails, ActFailed, StreakReset, DropFlags, ResetWorks,
      ResetFails, Forgotten, TypeOK, ModemType, modemVars
  <2>8. MqttType'
    BY <1>18 DEF ActPhaseFails, ActFailed, StreakReset, DropFlags, ResetWorks,
      ResetFails, Forgotten, TypeOK, MqttType, mqttVars
  <2>9. air' \in Airs /\ events' \in Nat
    BY <1>18, <2>1, CellStepType DEF ActPhaseFails, ActFailed, StreakReset,
      DropFlags, ResetWorks, ResetFails, Forgotten, Spend, BusBusy, TypeOK
  <2>10. QED
    BY <1>18, <2>2, <2>3, <2>4, <2>5, <2>6, <2>7, <2>8, <2>9 DEF ActPhaseFails,
      ActFailed, TypeOK
<1>19. CASE ActNoSim
  <2>1. CellStep
    BY <1>19 DEF ActNoSim, ActFailed
  <2>2. turn' \in Turns /\ UNCHANGED <<air, worker, wifiVars>>
    BY <2>1, CellStepType
  <2>3. HoldType'
    BY <1>19, StreakAssumption DEF ActNoSim, ActFailed, Holds, TypeOK, HoldType,
      holdVars
  <2>4. ActType'
    BY <1>19 DEF ActNoSim, ActFailed, ActPhases, TypeOK, ActType, actVars
  <2>5. LinkType'
    BY <1>19 DEF ActNoSim, ActFailed, StreakReset, DropFlags, ResetWorks,
      ResetFails, Forgotten, TypeOK, LinkType, linkVars
  <2>6. SockType'
    BY <1>19, StreakAssumption DEF ActNoSim, ActFailed, StreakReset, DropFlags,
      ResetWorks, ResetFails, Forgotten, TypeOK, SockType, sockVars
  <2>7. ModemType'
    BY <1>19 DEF ActNoSim, ActFailed, StreakReset, DropFlags, ResetWorks,
      ResetFails, Forgotten, TypeOK, ModemType, modemVars
  <2>8. MqttType'
    BY <1>19 DEF ActNoSim, ActFailed, StreakReset, DropFlags, ResetWorks,
      ResetFails, Forgotten, TypeOK, MqttType, mqttVars
  <2>9. air' \in Airs /\ events' \in Nat
    BY <1>19, <2>1, CellStepType DEF ActNoSim, ActFailed, StreakReset, DropFlags,
      ResetWorks, ResetFails, Forgotten, Spend, BusBusy, TypeOK
  <2>10. QED
    BY <1>19, <2>2, <2>3, <2>4, <2>5, <2>6, <2>7, <2>8, <2>9 DEF ActNoSim,
      ActFailed, TypeOK
<1>20. CASE ActExpires
  <2>1. CellStep
    BY <1>20 DEF ActExpires, ActFailed
  <2>2. turn' \in Turns /\ UNCHANGED <<air, worker, wifiVars>>
    BY <2>1, CellStepType
  <2>3. HoldType'
    BY <1>20, StreakAssumption DEF ActExpires, ActFailed, Holds, TypeOK, HoldType,
      holdVars
  <2>4. ActType'
    BY <1>20 DEF ActExpires, ActFailed, ActPhases, TypeOK, ActType, actVars
  <2>5. LinkType'
    BY <1>20 DEF ActExpires, ActFailed, PowerCycle, DropFlags, ResetWorks,
      ResetFails, Forgotten, TypeOK, LinkType, linkVars
  <2>6. SockType'
    BY <1>20, StreakAssumption DEF ActExpires, ActFailed, PowerCycle, DropFlags,
      ResetWorks, ResetFails, Forgotten, TypeOK, SockType, sockVars
  <2>7. ModemType'
    BY <1>20 DEF ActExpires, ActFailed, PowerCycle, DropFlags, ResetWorks,
      ResetFails, Forgotten, TypeOK, ModemType, modemVars
  <2>8. MqttType'
    BY <1>20 DEF ActExpires, ActFailed, PowerCycle, DropFlags, ResetWorks,
      ResetFails, Forgotten, TypeOK, MqttType, mqttVars
  <2>9. air' \in Airs /\ events' \in Nat
    BY <1>20, <2>1, CellStepType DEF ActExpires, ActFailed, PowerCycle, DropFlags,
      ResetWorks, ResetFails, Forgotten, Spend, BusBusy, TypeOK
  <2>10. QED
    BY <1>20, <2>2, <2>3, <2>4, <2>5, <2>6, <2>7, <2>8, <2>9 DEF ActExpires,
      ActFailed, TypeOK
<1>21. CASE CellLost
  <2>1. CellStep
    BY <1>21 DEF CellLost
  <2>2. turn' \in Turns /\ UNCHANGED <<air, worker, wifiVars>>
    BY <2>1, CellStepType
  <2>3. HoldType'
    BY <1>21, StreakAssumption DEF CellLost, TypeOK, HoldType, holdVars
  <2>4. MqttType'
    BY <1>21 DEF CellLost, TypeOK, MqttType, mqttVars
  <2>5. QED
    BY <1>21, <2>2, <2>3, <2>4 DEF CellLost, TypeOK
<1>22. CASE ProbeSkipped
  <2>1. CellStep
    BY <1>22 DEF ProbeSkipped
  <2>2. turn' \in Turns /\ UNCHANGED <<air, worker, wifiVars>>
    BY <2>1, CellStepType
  <2>3. SockType'
    BY <1>22, StreakAssumption DEF ProbeSkipped, TypeOK, SockType, sockVars
  <2>4. air' \in Airs /\ events' \in Nat
    BY <1>22, <2>1, CellStepType DEF ProbeSkipped, BusBusy, Spend, TypeOK
  <2>5. QED
    BY <1>22, <2>2, <2>3, <2>4 DEF ProbeSkipped, TypeOK
<1>23. CASE ProbeResets
  <2>1. CellStep
    BY <1>23 DEF ProbeResets, ProbeStep
  <2>2. turn' \in Turns /\ UNCHANGED <<air, worker, wifiVars>>
    BY <2>1, CellStepType
  <2>3. LinkType'
    BY <1>23 DEF ProbeResets, PowerCycle, DropFlags, ResetWorks, ResetFails,
      Forgotten, ProbeStep, TypeOK, LinkType, linkVars
  <2>4. SockType'
    BY <1>23, StreakAssumption DEF ProbeResets, ProbeStep, PowerCycle, DropFlags,
      ResetWorks, ResetFails, Forgotten, TypeOK, SockType, sockVars
  <2>5. ModemType'
    BY <1>23 DEF ProbeResets, ProbeStep, PowerCycle, DropFlags, ResetWorks,
      ResetFails, Forgotten, TypeOK, ModemType, modemVars
  <2>6. MqttType'
    BY <1>23 DEF ProbeResets, ProbeStep, PowerCycle, DropFlags, ResetWorks,
      ResetFails, Forgotten, TypeOK, MqttType, mqttVars
  <2>7. air' \in Airs /\ events' \in Nat
    BY <1>23, <2>1, CellStepType DEF ProbeResets, PowerCycle, Spend, TypeOK
  <2>8. QED
    BY <1>23, <2>2, <2>3, <2>4, <2>5, <2>6, <2>7 DEF ProbeResets, ProbeStep, TypeOK
<1>24. CASE ProbeFinds
  <2>1. CellStep
    BY <1>24 DEF ProbeFinds, ProbeStep
  <2>2. turn' \in Turns /\ UNCHANGED <<air, worker, wifiVars>>
    BY <2>1, CellStepType
  <2>3. SockType'
    BY <1>24, StreakAssumption DEF ProbeFinds, ProbeStep, TypeOK, SockType, sockVars
  <2>4. ModemType'
    BY <1>24 DEF ProbeFinds, ProbeStep, TypeOK, ModemType, modemVars
  <2>5. MqttType'
    BY <1>24 DEF ProbeFinds, ProbeStep, Forgotten, TypeOK, MqttType, mqttVars
  <2>6. QED
    BY <1>24, <2>2, <2>3, <2>4, <2>5 DEF ProbeFinds, ProbeStep, TypeOK
<1>25. CASE ProbeLoses
  <2>1. CellStep
    BY <1>25 DEF ProbeLoses, ProbeStep
  <2>2. turn' \in Turns /\ UNCHANGED <<air, worker, wifiVars>>
    BY <2>1, CellStepType
  <2>3. LinkType'
    BY <1>25 DEF ProbeLoses, ProbeStep, TypeOK, LinkType, linkVars
  <2>4. SockType'
    BY <1>25, StreakAssumption DEF ProbeLoses, ProbeStep, TypeOK, SockType, sockVars
  <2>5. ModemType'
    BY <1>25 DEF ProbeLoses, ProbeStep, TypeOK, ModemType, modemVars
  <2>6. MqttType'
    BY <1>25 DEF ProbeLoses, ProbeStep, Forgotten, TypeOK, MqttType, mqttVars
  <2>7. QED
    BY <1>25, <2>2, <2>3, <2>4, <2>5, <2>6 DEF ProbeLoses, ProbeStep, TypeOK
<1>26. CASE CellHolds
  <2>1. HoldType'
    BY <1>26, StreakAssumption DEF CellHolds, YieldStep, Holds, TypeOK, HoldType,
      holdVars
  <2>2. LinkType'
    BY <1>26 DEF CellHolds, YieldStep, TypeOK, LinkType, linkVars
  <2>3. ModemType'
    BY <1>26 DEF CellHolds, YieldStep, TypeOK, ModemType, modemVars
  <2>4. QED
    BY <1>26, <2>1, <2>2, <2>3 DEF CellHolds, YieldStep, TypeOK, Turns
<1>27. CASE CellYields
  <2>1. HoldType'
    BY <1>27, StreakAssumption DEF CellYields, YieldStep, Holds, TypeOK, HoldType,
      holdVars
  <2>2. LinkType'
    BY <1>27 DEF CellYields, YieldStep, dataLinkDown, TypeOK, LinkType, linkVars
  <2>3. ModemType'
    BY <1>27 DEF CellYields, YieldStep, dataLinkDown, TypeOK, ModemType, modemVars
  <2>4. MqttType'
    BY <1>27 DEF CellYields, dataLinkDown, Forgotten, YieldStep, TypeOK, MqttType,
      mqttVars
  <2>5. air' \in Airs /\ events' \in Nat
    BY <1>27 DEF CellYields, BusBusy, Spend, YieldStep, TypeOK
  <2>6. QED
    BY <1>27, <2>1, <2>2, <2>3, <2>4, <2>5 DEF CellYields, YieldStep, TypeOK, Turns
<1>28. CASE GnssPowerOn
  <2>1. LinkType'
    BY <1>28 DEF GnssPowerOn, TypeOK, LinkType, linkVars
  <2>2. ModemType'
    BY <1>28 DEF GnssPowerOn, TypeOK, ModemType, modemVars
  <2>3. QED
    BY <1>28, <2>1, <2>2 DEF GnssPowerOn, TypeOK, Turns
<1>29. CASE HttpStart
  <2>1. QED
    BY <1>29 DEF HttpStart, WorkerFrame, TypeOK
<1>30. CASE HttpDone
  <2>1. SockType'
    BY <1>30, StreakAssumption DEF HttpDone, WorkerFrame, TypeOK, SockType, sockVars
  <2>2. QED
    BY <1>30, <2>1 DEF HttpDone, WorkerFrame, TypeOK
<1>31. CASE \E kind \in Kinds : HttpSocketFails(kind)
  <2> PICK kind \in Kinds : HttpSocketFails(kind)
    BY <1>31
  <2>1. fails' \in Streaks
    <3>1. fails' = Counted(kind, kind = "send")
      BY DEF HttpSocketFails
    <3>2. (kind = "send") \in BOOLEAN
      OBVIOUS
    <3>3. QED
      BY <3>1, <3>2, CountedType DEF TypeOK, SockType, Streaks
  <2>2. SockType'
    BY <2>1 DEF TypeOK, SockType, HttpSocketFails, Streaks
  <2>3. events' \in Nat
    BY DEF TypeOK, HttpSocketFails, Spend
  <2>4. QED
    BY <2>2, <2>3 DEF TypeOK, HttpSocketFails, WorkerFrame
<1>32. CASE ApTimesOut
  <2>1. WifiType'
    BY <1>32, SettingAssumption DEF ApTimesOut, TimeFrame, TypeOK, WifiType,
      wifiVars
  <2>2. HoldType'
    BY <1>32, StreakAssumption DEF ApTimesOut, TimeFrame, Holds, TypeOK, HoldType,
      holdVars
  <2>3. ActType'
    BY <1>32 DEF ApTimesOut, TimeFrame, TypeOK, ActType, actVars
  <2>4. SockType'
    BY <1>32, StreakAssumption DEF ApTimesOut, TimeFrame, TypeOK, SockType, sockVars
  <2>5. QED
    BY <1>32, <2>1, <2>2, <2>3, <2>4 DEF ApTimesOut, TimeFrame, TypeOK
<1>33. CASE DownHoldPasses
  <2>1. WifiType'
    BY <1>33, SettingAssumption DEF DownHoldPasses, TimeFrame, TypeOK, WifiType,
      wifiVars
  <2>2. HoldType'
    BY <1>33, StreakAssumption DEF DownHoldPasses, TimeFrame, Holds, TypeOK,
      HoldType, holdVars
  <2>3. ActType'
    BY <1>33 DEF DownHoldPasses, TimeFrame, TypeOK, ActType, actVars
  <2>4. SockType'
    BY <1>33, StreakAssumption DEF DownHoldPasses, TimeFrame, TypeOK, SockType,
      sockVars
  <2>5. QED
    BY <1>33, <2>1, <2>2, <2>3, <2>4 DEF DownHoldPasses, TimeFrame, TypeOK
<1>34. CASE UpHoldPasses
  <2>1. WifiType'
    BY <1>34, SettingAssumption DEF UpHoldPasses, TimeFrame, TypeOK, WifiType,
      wifiVars
  <2>2. HoldType'
    BY <1>34, StreakAssumption DEF UpHoldPasses, TimeFrame, Holds, TypeOK, HoldType,
      holdVars
  <2>3. ActType'
    BY <1>34 DEF UpHoldPasses, TimeFrame, TypeOK, ActType, actVars
  <2>4. SockType'
    BY <1>34, StreakAssumption DEF UpHoldPasses, TimeFrame, TypeOK, SockType,
      sockVars
  <2>5. QED
    BY <1>34, <2>1, <2>2, <2>3, <2>4 DEF UpHoldPasses, TimeFrame, TypeOK
<1>35. CASE DeadlinePasses
  <2>1. WifiType'
    BY <1>35, SettingAssumption DEF DeadlinePasses, TimeFrame, TypeOK, WifiType,
      wifiVars
  <2>2. HoldType'
    BY <1>35, StreakAssumption DEF DeadlinePasses, TimeFrame, Holds, TypeOK,
      HoldType, holdVars
  <2>3. ActType'
    BY <1>35 DEF DeadlinePasses, TimeFrame, TypeOK, ActType, actVars
  <2>4. SockType'
    BY <1>35, StreakAssumption DEF DeadlinePasses, TimeFrame, TypeOK, SockType,
      sockVars
  <2>5. QED
    BY <1>35, <2>1, <2>2, <2>3, <2>4 DEF DeadlinePasses, TimeFrame, TypeOK
<1>36. CASE ProbeFallsDue
  <2>1. WifiType'
    BY <1>36, SettingAssumption DEF ProbeFallsDue, TimeFrame, TypeOK, WifiType,
      wifiVars
  <2>2. HoldType'
    BY <1>36, StreakAssumption DEF ProbeFallsDue, TimeFrame, Holds, TypeOK,
      HoldType, holdVars
  <2>3. ActType'
    BY <1>36 DEF ProbeFallsDue, TimeFrame, TypeOK, ActType, actVars
  <2>4. SockType'
    BY <1>36, StreakAssumption DEF ProbeFallsDue, TimeFrame, TypeOK, SockType,
      sockVars
  <2>5. QED
    BY <1>36, <2>1, <2>2, <2>3, <2>4 DEF ProbeFallsDue, TimeFrame, TypeOK
<1>37. CASE AirChanges
  <2>1. WifiType'
    BY <1>37, SettingAssumption DEF AirChanges, EnvFrame, TypeOK, WifiType, wifiVars
  <2>2. air' \in Airs /\ events' \in Nat
    BY <1>37 DEF AirChanges, EnvFrame, Spend, Airs, TypeOK
  <2>3. QED
    BY <1>37, <2>1, <2>2 DEF AirChanges, EnvFrame, TypeOK
<1>38. CASE CoverageChanges
  <2>1. WifiType'
    BY <1>38, SettingAssumption DEF CoverageChanges, EnvFrame, TypeOK, WifiType,
      wifiVars
  <2>2. ModemType'
    BY <1>38 DEF CoverageChanges, EnvFrame, TypeOK, ModemType, modemVars
  <2>3. air' \in Airs /\ events' \in Nat
    BY <1>38 DEF CoverageChanges, EnvFrame, Spend, Airs, TypeOK
  <2>4. QED
    BY <1>38, <2>1, <2>2, <2>3 DEF CoverageChanges, EnvFrame, TypeOK
<1>39. CASE ContextLost
  <2>1. WifiType'
    BY <1>39, SettingAssumption DEF ContextLost, EnvFrame, TypeOK, WifiType,
      wifiVars
  <2>2. ModemType'
    BY <1>39 DEF ContextLost, EnvFrame, TypeOK, ModemType, modemVars
  <2>3. air' \in Airs /\ events' \in Nat
    BY <1>39 DEF ContextLost, EnvFrame, Spend, Airs, TypeOK
  <2>4. QED
    BY <1>39, <2>1, <2>2, <2>3 DEF ContextLost, EnvFrame, TypeOK
<1>40. CASE SocketsWedge
  <2>1. WifiType'
    BY <1>40, SettingAssumption DEF SocketsWedge, EnvFrame, TypeOK, WifiType,
      wifiVars
  <2>2. ModemType'
    BY <1>40 DEF SocketsWedge, EnvFrame, TypeOK, ModemType, modemVars
  <2>3. air' \in Airs /\ events' \in Nat
    BY <1>40 DEF SocketsWedge, EnvFrame, Spend, Airs, TypeOK
  <2>4. QED
    BY <1>40, <2>1, <2>2, <2>3 DEF SocketsWedge, EnvFrame, TypeOK
<1>41. CASE ModemHangs
  <2>1. WifiType'
    BY <1>41, SettingAssumption DEF ModemHangs, EnvFrame, TypeOK, WifiType, wifiVars
  <2>2. ModemType'
    BY <1>41 DEF ModemHangs, EnvFrame, TypeOK, ModemType, modemVars
  <2>3. air' \in Airs /\ events' \in Nat
    BY <1>41 DEF ModemHangs, EnvFrame, Spend, Airs, TypeOK
  <2>4. QED
    BY <1>41, <2>1, <2>2, <2>3 DEF ModemHangs, EnvFrame, TypeOK
<1>42. CASE ModemWakes
  <2>1. WifiType'
    BY <1>42, SettingAssumption DEF ModemWakes, EnvFrame, TypeOK, WifiType, wifiVars
  <2>2. ModemType'
    BY <1>42 DEF ModemWakes, EnvFrame, TypeOK, ModemType, modemVars
  <2>3. air' \in Airs /\ events' \in Nat
    BY <1>42 DEF ModemWakes, EnvFrame, Spend, Airs, TypeOK
  <2>4. QED
    BY <1>42, <2>1, <2>2, <2>3 DEF ModemWakes, EnvFrame, TypeOK
<1>43. CASE UNCHANGED vars
  BY <1>43 DEF vars, TypeOK
<1>44. QED
  BY <1>1, <1>2, <1>3, <1>4, <1>5, <1>6, <1>7, <1>8, <1>9, <1>10, <1>11, <1>12,
    <1>13, <1>14, <1>15, <1>16, <1>17, <1>18, <1>19, <1>20, <1>21, <1>22, <1>23,
    <1>24, <1>25, <1>26, <1>27, <1>28, <1>29, <1>30, <1>31, <1>32, <1>33, <1>34,
    <1>35, <1>36, <1>37, <1>38, <1>39, <1>40, <1>41, <1>42, <1>43
  DEF Next, MainLoop, WiFiStep, MqttLoop, ShellStep, ActStep, CellLoop, HttpTask, Time, Env

\* The type invariant of NetFailover holds whatever fails and whoever resets.
THEOREM TypeCorrect == Spec => []TypeOK
<1>1. TypeOK /\ [Next]_vars => TypeOK'
  BY TypeStep
<1>2. QED
  BY TypeInit, <1>1, PTL DEF Spec

-----------------------------------------------------------------------------
(* An activated link runs on a living modem *)

\* Past POWER_ON a bring-up has a modem that answered.
PhaseAlive == actPhase \in {"sim", "radio_cfg", "register", "bearer"} => alive

\* Only ACTIVE offers the link, and no bring-up is under way in it: so neither
\* an MQTT dial nor a probe resets the modem in the middle of one.
ActiveIdle == /\ offered => state = "active"
              /\ state = "active" => actPhase = "init"

AliveInv == StartedAlive /\ PhaseAlive /\ ActiveIdle

\* Steps that leave the bring-up and the flags of the link alone.
Quiet == UNCHANGED <<alive, started, actPhase, state, offered>>

LEMMA QuietKeeps == ASSUME AliveInv, Quiet PROVE AliveInv'
BY DEF Quiet, AliveInv, StartedAlive, PhaseAlive, ActiveIdle

\* A cell.reset that may fail comes only while no bring-up is under way.
SafeReset == Operator = "any" => "reset" \notin Faults

\* A modem an MQTT session failed on: a reset only hits it in ACTIVE.
LEMMA SocketFailsAlive ==
  ASSUME AliveInv, LinkType, NEW kind \in Kinds, SocketFailsHere(kind)
  PROVE  StartedAlive' /\ (alive' = alive \/ started' = FALSE)
BY DEF AliveInv, StartedAlive, LinkType, SocketFailsHere, PowerCycle, DropFlags,
  Recycle

LEMMA AliveStep ==
  ASSUME SafeReset, TypeOK, AliveInv, [Next]_vars PROVE AliveInv'
<1> USE DEF TypeOK
<1>1. CASE WiFiBegin
  BY <1>1, QuietKeeps DEF WiFiBegin, Quiet, holdVars, actVars, linkVars, mqttVars
<1>2. CASE WiFiLoop
  BY <1>2, QuietKeeps DEF WiFiLoop, Quiet, holdVars, actVars, linkVars, mqttVars
<1>3. CASE MqttKeeps
  BY <1>3, QuietKeeps DEF MqttKeeps, MqttStep, Quiet, holdVars, actVars, linkVars,
    mqttVars
<1>4. CASE MqttSwitches
  BY <1>4, QuietKeeps DEF MqttSwitches, Quiet, holdVars, actVars, linkVars, mqttVars
<1>5. CASE MqttConnects
  BY <1>5, QuietKeeps DEF MqttConnects, MqttStep, Quiet, holdVars, actVars,
    linkVars, mqttVars
<1>6. CASE ShellLoop
  BY <1>6, QuietKeeps DEF ShellLoop, Quiet, holdVars, actVars, linkVars, mqttVars
<1>7. CASE ProbeSkipped
  BY <1>7, QuietKeeps DEF ProbeSkipped, Quiet, holdVars, actVars, linkVars, mqttVars
<1>8. CASE ProbeFinds
  BY <1>8, QuietKeeps DEF ProbeFinds, ProbeStep, Quiet, holdVars, actVars, linkVars,
    mqttVars
<1>9. CASE HttpStart
  BY <1>9, QuietKeeps DEF HttpStart, WorkerFrame, Quiet, holdVars, actVars,
    linkVars, mqttVars
<1>10. CASE HttpDone
  BY <1>10, QuietKeeps DEF HttpDone, WorkerFrame, Quiet, holdVars, actVars,
    linkVars, mqttVars
<1>11. CASE Time
  BY <1>11, QuietKeeps DEF Time, ApTimesOut, DownHoldPasses, UpHoldPasses,
    DeadlinePasses, ProbeFallsDue, TimeFrame, Quiet, holdVars, actVars, linkVars,
    mqttVars
<1>12. CASE Env
  BY <1>12, QuietKeeps DEF Env, AirChanges, CoverageChanges, ContextLost,
    SocketsWedge, ModemHangs, ModemWakes, EnvFrame, Quiet, holdVars, actVars,
    linkVars, mqttVars
<1>13. CASE UNCHANGED vars
  BY <1>13, QuietKeeps DEF vars, Quiet, holdVars, actVars, linkVars, mqttVars
<1>14. CASE \E kind \in Kinds : HttpSocketFails(kind)
  BY <1>14, QuietKeeps DEF HttpSocketFails, WorkerFrame, Quiet, holdVars, actVars, linkVars, mqttVars
<1>15. CASE MqttModemFails
  <2>1. UNCHANGED <<actPhase, state, offered>>
    BY <1>15 DEF MqttModemFails, MqttStep, holdVars, actVars
  <2>3. CASE \E kind \in Kinds : SocketFailsHere(kind)
    <3>1. offered
      BY <1>15 DEF MqttModemFails, transportWanted
    <3>2. QED
      BY <2>1, <2>3, <3>1, SocketFailsAlive DEF AliveInv, PhaseAlive, ActiveIdle
  <2>4. CASE UNCHANGED linkVars
    BY <2>1, <2>4, QuietKeeps DEF Quiet, linkVars
  <2>5. QED
    BY <1>15, <2>3, <2>4 DEF MqttModemFails
<1>16. CASE CellReset
  <2>1. UNCHANGED <<actPhase, state, offered>>
    BY <1>16 DEF CellReset, holdVars, actVars
  <2>2. CASE UNCHANGED <<alive, started>>
    BY <2>1, <2>2, QuietKeeps DEF Quiet
  <2>3. CASE DropFlags /\ (ResetWorks \/ ResetFails)
    <3>1. alive' = TRUE \/ actPhase = "init"
      BY <1>16, <2>3, SettingAssumption DEF CellReset, ResetWorks, ResetFails, SafeReset
    <3>2. started' = FALSE
      BY <2>3 DEF DropFlags
    <3>3. QED
      BY <2>1, <3>1, <3>2 DEF AliveInv, StartedAlive, PhaseAlive, ActiveIdle
  <2>4. QED
    BY <1>16, <2>2, <2>3 DEF CellReset
<1>17. CASE CellStandby
  BY <1>17 DEF CellStandby, CellStep, AliveInv, StartedAlive, PhaseAlive,
    ActiveIdle, holdVars, actVars, linkVars, mqttVars, LinkType
<1>18. CASE ActInit
  BY <1>18 DEF ActInit, AliveInv, StartedAlive, PhaseAlive, ActiveIdle, holdVars,
    actVars, linkVars, mqttVars, LinkType
<1>19. CASE ActPowerOn
  BY <1>19 DEF ActPowerOn, ActPending, AliveInv, StartedAlive, PhaseAlive,
    ActiveIdle, holdVars, actVars, linkVars, mqttVars, LinkType
<1>20. CASE ActSim
  BY <1>20 DEF ActSim, ActPending, AliveInv, StartedAlive, PhaseAlive, ActiveIdle,
    holdVars, actVars, linkVars, mqttVars, LinkType
<1>21. CASE ActRadioCfg
  BY <1>21 DEF ActRadioCfg, ActPending, AliveInv, StartedAlive, PhaseAlive,
    ActiveIdle, holdVars, actVars, linkVars, mqttVars, LinkType
<1>22. CASE ActRegister
  BY <1>22 DEF ActRegister, ActPending, AliveInv, StartedAlive, PhaseAlive,
    ActiveIdle, holdVars, actVars, linkVars, mqttVars, LinkType
<1>23. CASE ActBearerFails
  BY <1>23 DEF ActBearerFails, ActPending, AliveInv, StartedAlive, PhaseAlive,
    ActiveIdle, holdVars, actVars, linkVars, mqttVars, LinkType
<1>24. CASE ActBearer
  BY <1>24 DEF ActBearer, Activated, AliveInv, StartedAlive, PhaseAlive, ActiveIdle,
    holdVars, actVars, linkVars, mqttVars, LinkType
<1>25. CASE ActAlreadyUp
  BY <1>25 DEF ActAlreadyUp, Activated, AliveInv, StartedAlive, PhaseAlive,
    ActiveIdle, holdVars, actVars, linkVars, mqttVars, LinkType
<1>26. CASE ActPhaseFails
  BY <1>26 DEF ActPhaseFails, ActFailed, StreakReset, DropFlags, ResetWorks,
    ResetFails, AliveInv, StartedAlive, PhaseAlive, ActiveIdle, holdVars, actVars,
    linkVars, mqttVars, LinkType
<1>27. CASE ActNoSim
  <2>1. started' = FALSE
    BY <1>27 DEF ActNoSim, ActFailed, StreakReset, DropFlags, LinkType
  <2>2. actPhase' = "init" /\ ~offered'
    BY <1>27 DEF ActNoSim, ActFailed, AliveInv, ActiveIdle
  <2>3. QED
    BY <2>1, <2>2 DEF AliveInv, StartedAlive, PhaseAlive, ActiveIdle
<1>28. CASE ActExpires
  BY <1>28 DEF ActExpires, ActFailed, PowerCycle, DropFlags, ResetWorks, ResetFails,
    AliveInv, StartedAlive, PhaseAlive, ActiveIdle, holdVars, actVars, linkVars,
    mqttVars, LinkType
<1>29. CASE CellLost
  BY <1>29 DEF CellLost, AliveInv, StartedAlive, PhaseAlive, ActiveIdle, holdVars,
    actVars, linkVars, mqttVars, LinkType
<1>30. CASE ProbeResets
  BY <1>30 DEF ProbeResets, ProbeStep, PowerCycle, DropFlags, ResetWorks,
    ResetFails, AliveInv, StartedAlive, PhaseAlive, ActiveIdle, holdVars, actVars,
    linkVars, mqttVars, LinkType
<1>31. CASE ProbeLoses
  BY <1>31 DEF ProbeLoses, ProbeStep, AliveInv, StartedAlive, PhaseAlive,
    ActiveIdle, holdVars, actVars, linkVars, mqttVars, LinkType
<1>32. CASE CellHolds
  BY <1>32 DEF CellHolds, YieldStep, AliveInv, StartedAlive, PhaseAlive, ActiveIdle,
    holdVars, actVars, linkVars, mqttVars, LinkType
<1>33. CASE CellYields
  BY <1>33 DEF CellYields, YieldStep, dataLinkDown, AliveInv, StartedAlive,
    PhaseAlive, ActiveIdle, holdVars, actVars, linkVars, mqttVars, LinkType
<1>34. CASE GnssPowerOn
  BY <1>34 DEF GnssPowerOn, AliveInv, StartedAlive, PhaseAlive, ActiveIdle,
    holdVars, actVars, linkVars, mqttVars, LinkType
<1>35. QED
  BY <1>1, <1>2, <1>3, <1>4, <1>5, <1>6, <1>7, <1>8, <1>9, <1>10, <1>11, <1>12,
    <1>13, <1>14, <1>15, <1>16, <1>17, <1>18, <1>19, <1>20, <1>21, <1>22, <1>23,
    <1>24, <1>25, <1>26, <1>27, <1>28, <1>29, <1>30, <1>31, <1>32, <1>33, <1>34
  DEF Next, MainLoop, WiFiStep, MqttLoop, ShellStep, ActStep, CellLoop, HttpTask

\* _started implies _modemAlive, unless cell.reset may fail in the middle of a
\* bring-up: hardReset drops both flags and leaves the phase to go on, so every
\* other reset must come where no phase is left to set _started again.
THEOREM ActivatedIsAlive == SafeReset => (Spec => []StartedAlive)
<1> SUFFICES ASSUME SafeReset PROVE Spec => []StartedAlive
  OBVIOUS
<1>1. Init => AliveInv
  BY DEF Init, AliveInv, StartedAlive, PhaseAlive, ActiveIdle
<1>2. TypeOK /\ AliveInv /\ [Next]_vars => AliveInv'
  BY AliveStep
<1>3. AliveInv => StartedAlive
  BY DEF AliveInv
<1>4. QED
  BY TypeCorrect, <1>1, <1>2, <1>3, PTL DEF Spec
=============================================================================
