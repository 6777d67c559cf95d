------------------------- MODULE MqttRecoveryProofs -------------------------
(***************************************************************************)
(* MqttRecovery for every budget, every set of hosts, ports and            *)
(* credentials, and resets between any two steps: type correctness, the    *)
(* bound on broker reboots, the snapshot, the reload and what a rollback   *)
(* undoes.                                                                 *)
(***************************************************************************)
EXTENDS MCMqttRecoverySafe, TLAPS

\* What connect() read of the budget when it decided to reboot.
BudgetRead == phase \in {"exhaust", "bump"} => ram.count < MaxReboots

TypeInv == TypeOK /\ BudgetRead

LEMMA CriticalType ==
  ASSUME NEW c \in Configs
  PROVE  /\ mqttCriticalJson(c) \in Configs
         /\ mqttCriticalJson(c).port # Missing
BY ConfigAssumption DEF mqttCriticalJson, Configs, Missing

LEMMA EffPortType ==
  ASSUME NEW c \in Configs
  PROVE  EffPort(c) \in Nat
<1>1. c.port \in Ports \cup {0, Missing}
  BY DEF Configs
<1>2. Ports \cup {0, Missing} \subseteq Nat
  <2>1. Missing \in Nat
    BY DEF Missing
  <2>2. Ports \subseteq Nat
    BY ConfigAssumption
  <2>3. QED
    BY <2>1, <2>2
<1>3. QED
  BY <1>1, <1>2 DEF EffPort, DefaultPort

LEMMA OutcomeType ==
  ASSUME NEW call PROVE Outcome(call) \subseteq BOOLEAN
BY DEF Outcome

LEMMA ResetRamType == ResetRam \in RamType
BY BudgetAssumption DEF ResetRam, RamType, Dials, Stored

LEMMA CountsType ==
  ASSUME TypeOK PROVE Counts \subseteq 0..MaxReboots
BY BudgetAssumption DEF TypeOK, NvsType, Counts

LEMMA TypeInit == Init => TypeInv
<1> SUFFICES ASSUME Init PROVE TypeInv
  OBVIOUS
<1>1. nvs \in NvsType
  BY BudgetAssumption DEF Init, NvsType, Stored
<1>2. disk \in Configs /\ doc \in Configs /\ down \in BOOLEAN
  BY ConfigAssumption, SwitchAssumption DEF Init
<1>3. QED
  BY <1>1, <1>2, ResetRamType DEF Init, TypeInv, TypeOK, BudgetRead, Phases, Stored

\* A connect starts with a well-typed pair of host and port.
LEMMA CopiedDialType ==
  ASSUME TypeOK PROVE CopiedDial \in Dials
BY EffPortType DEF TypeOK, CopiedDial, Dials, RamType, Configs

LEMMA ConnectingType ==
  ASSUME TypeOK, NEW dial \in Dials, Connecting(dial)
  PROVE  /\ ram' \in RamType
         /\ phase' = "connect"
         /\ tried' \subseteq Targets
<1>1. doc.cred \in Creds
  BY DEF TypeOK, Configs
<1>2. ram' \in RamType
  BY <1>1 DEF TypeOK, Connecting, RamType
<1>3. dial.host \in Hosts \cup {NoHost} /\ dial.port \in Nat
  BY DEF Dials
<1>4. QED
  BY <1>1, <1>2, <1>3 DEF TypeOK, Connecting, Targets

LEMMA TypeNext == TypeInv /\ [Next]_vars => TypeInv'
<1> SUFFICES ASSUME TypeInv, [Next]_vars PROVE TypeInv'
  OBVIOUS
<1> USE DEF TypeInv
<1>t. TypeOK
  OBVIOUS
<1>1. CASE RollBack
  <2>1. nvs.lg # NoConf => nvs.lg \in Configs
    BY <1>t DEF TypeOK, NvsType, Stored
  <2>2. doc' \in Configs /\ disk' \in Configs /\ phase' \in {"restored", "begin"}
    BY <1>1, <1>t, <2>1 DEF RollBack, TypeOK, mqttRollbackShould
  <2>3. QED
    BY <1>1, <1>t, <2>2 DEF RollBack, TypeOK, BudgetRead, Phases
<1>2. CASE mqttRebootCountClear
  <2>1. 0 \in 0..MaxReboots
    BY BudgetAssumption
  <2> DEFINE cleared == [nvs EXCEPT !.count = 0, !.aged = FALSE]
  <2>2. cleared \in NvsType
    BY <1>t, <2>1 DEF TypeOK, NvsType
  <2>3. nvs' = cleared \/ nvs' = nvs
    BY <1>2 DEF mqttRebootCountClear
  <2>4. nvs' \in NvsType
    BY <1>t, <2>2, <2>3 DEF TypeOK
  <2>5. QED
    BY <1>2, <1>t, <2>4 DEF mqttRebootCountClear, TypeOK, BudgetRead, Phases
<1>3. CASE mqttClearRbCfg
  <2>1. nvs' \in NvsType
    BY <1>3, <1>t DEF mqttClearRbCfg, TypeOK, NvsType, Stored
  <2>2. QED
    BY <1>3, <1>t, <2>1 DEF mqttClearRbCfg, TypeOK, BudgetRead, Phases
<1>4. CASE Begin
  <2>1. CopiedDial \in Dials
    BY <1>t, CopiedDialType
  <2>2. /\ ram' \in RamType /\ phase' = "connect"
        /\ tried' \subseteq Targets
    BY <1>4, <1>t, <2>1, ConnectingType DEF Begin
  <2>3. QED
    BY <1>4, <1>t, <2>2 DEF Begin, TypeOK, BudgetRead, Phases
<1>5. CASE ConnectOk
  <2>1. ram' \in RamType
    BY <1>5, <1>t DEF ConnectOk, TypeOK, RamType
  <2>2. DialTarget \in Targets
    BY <1>t DEF TypeOK, RamType, Dials, DialTarget, Targets
  <2>3. QED
    BY <1>5, <1>t, <2>1, <2>2 DEF ConnectOk, TypeOK, BudgetRead, Phases
<1>6. CASE SnapshotKeys
  <2>1. mqttCriticalJson(doc) \in Stored
    BY <1>t, CriticalType DEF TypeOK, Stored
  <2>2. nvs' \in NvsType /\ phase' \in {"upSet", "run"}
    BY <1>6, <1>t, <2>1 DEF SnapshotKeys, TypeOK, NvsType
  <2>3. QED
    BY <1>6, <1>t, <2>2 DEF SnapshotKeys, TypeOK, BudgetRead, Phases
<1>7. CASE SnapshotFlag
  <2>1. nvs' \in NvsType
    BY <1>7, <1>t DEF SnapshotFlag, TypeOK, NvsType
  <2>2. QED
    BY <1>7, <1>t, <2>1 DEF SnapshotFlag, TypeOK, BudgetRead, Phases
<1>8. CASE ConnectFails
  <2>1. PICK tls \in {FALSE, LowHeap}, defragCount \in Counts, count \in Counts :
          RetryOrReboot(tls, defragCount, count)
    BY <1>8, Zenon DEF ConnectFails, RetryOrReboot
  <2>2. defragCount \in 0..MaxReboots /\ count \in 0..MaxReboots
    BY <1>t, CountsType
  <2> DEFINE n      == IF ram.retry >= RebootAfter /\ ram.retry >= DefragAfter
                       THEN ram.retry ELSE ram.retry + 1
             defrag == DefragReboot(n, tls, defragCount)
             spent  == ~defrag /\ n >= RebootAfter /\ ~ram.halted
             halted == ram.halted \/ (spent /\ count >= MaxReboots)
             read   == IF defrag THEN defragCount ELSE count
  <2>3. n \in Nat
    BY <1>t DEF TypeOK, RamType
  <2>4. halted \in BOOLEAN /\ read \in 0..MaxReboots
    BY <1>t, <2>2 DEF TypeOK, RamType
  <2>5. ram' = [ram EXCEPT !.retry = n, !.halted = halted, !.count = read]
    BY <2>1 DEF RetryOrReboot
  <2>6. \/ phase' = "bump" /\ defrag
        \/ phase' = "exhaust" /\ ~defrag /\ count < MaxReboots
        \/ phase' = "run"
    BY <2>1 DEF RetryOrReboot
  <2>7. defrag => defragCount < MaxReboots
    BY DEF DefragReboot
  <2>8. defrag => read = defragCount
    OBVIOUS
  <2>9. ~defrag => read = count
    OBVIOUS
  <2> HIDE DEF n, defrag, halted, read
  <2>10. ram' \in RamType /\ ram'.count = read
    BY <1>t, <2>3, <2>4, <2>5 DEF TypeOK, RamType
  <2>11. BudgetRead'
    BY <2>6, <2>7, <2>8, <2>9, <2>10 DEF BudgetRead
  <2>12. phase' \in Phases
    BY <2>6 DEF Phases
  <2>13. UNCHANGED <<disk, doc, nvs, down, edits, tried, proven, asked, reboots>>
    BY <1>8 DEF ConnectFails
  <2>14. QED
    BY <1>t, <2>10, <2>11, <2>12, <2>13 DEF TypeOK
<1>9. CASE RecordFailing
  <2>1. mqttCriticalJson(doc) \in Stored
    BY <1>t, CriticalType DEF TypeOK, Stored
  <2>2. nvs' \in NvsType
    BY <1>9, <1>t, <2>1 DEF RecordFailing, TypeOK, NvsType
  <2>3. QED
    BY <1>9, <1>t, <2>2 DEF RecordFailing, TypeOK, BudgetRead, Phases
<1>10. CASE BrokerRestart
  <2>1. ram.count + 1 \in 0..MaxReboots
    BY <1>10, <1>t, BudgetAssumption DEF BrokerRestart, TypeOK, RamType, BudgetRead
  <2>2. nvs' \in NvsType
    BY <1>10, <1>t, <2>1 DEF BrokerRestart, Bumped, TypeOK, NvsType
  <2>3. QED
    BY <1>10, <1>t, <2>2, ResetRamType
       DEF BrokerRestart, Restarting, TypeOK, BudgetRead, Phases, Stored
<1>11. CASE Reinit
  <2>1. CopiedDial \in Dials
    BY <1>t, CopiedDialType
  <2>2. /\ ram' \in RamType /\ phase' = "connect"
        /\ tried' \subseteq Targets
    BY <1>11, <1>t, <2>1, ConnectingType DEF Reinit
  <2>3. QED
    BY <1>11, <1>t, <2>2 DEF Reinit, TypeOK, BudgetRead, Phases
<1>12. CASE Tick
  <2>1. ram.dial \in Dials
    BY <1>t DEF TypeOK, RamType
  <2>2. /\ ram' \in RamType /\ phase' = "connect"
        /\ tried' \subseteq Targets
    BY <1>12, <1>t, <2>1, ConnectingType DEF Tick
  <2>3. QED
    BY <1>12, <1>t, <2>2 DEF Tick, TypeOK, BudgetRead, Phases
<1>13. CASE LinkLost
  <2>1. ram' \in RamType
    BY <1>13, <1>t DEF LinkLost, TypeOK, RamType
  <2>2. QED
    BY <1>13, <1>t, <2>1 DEF LinkLost, TypeOK, BudgetRead
<1>14. ASSUME NEW c \in Written, CmdInbound(c) PROVE TypeInv'
  <2>1. c \in Stored
    BY ConfigAssumption DEF Stored
  <2>2. ram' \in RamType /\ edits' \in Nat
    BY <1>14, <1>t, <2>1 DEF CmdInbound, TypeOK, RamType
  <2>3. QED
    BY <1>14, <1>t, <2>2 DEF CmdInbound, Idle, TypeOK, BudgetRead
<1>15. CASE ApplyCmdConfig
  <2>1. ram.staged \in Configs
    BY <1>15, <1>t DEF ApplyCmdConfig, TypeOK, RamType, Stored
  <2>2. /\ [ram EXCEPT !.staged = NoConf] \in RamType
        /\ Dropped \in RamType
    BY <1>t DEF TypeOK, RamType, Stored, Dropped
  <2>3. ram' \in RamType /\ disk' \in Configs /\ doc' \in Configs
    BY <1>15, <1>t, <2>1, <2>2 DEF ApplyCmdConfig, TypeOK
  <2>4. QED
    BY <1>15, <1>t, <2>3 DEF ApplyCmdConfig, TypeOK, BudgetRead, Stored
<1>16. ASSUME NEW c \in Written, ConfigSet(c) PROVE TypeInv'
  <2>1. c \in Configs
    BY ConfigAssumption
  <2>2. QED
    BY <1>16, <1>t, <2>1 DEF ConfigSet, TypeOK, BudgetRead, Stored
<1>17. ASSUME NEW c \in Written, FileWrite(c) PROVE TypeInv'
  <2>1. c \in Configs
    BY ConfigAssumption
  <2>2. QED
    BY <1>17, <1>t, <2>1 DEF FileWrite, TypeOK, BudgetRead, Stored
<1>18. CASE ConfigReload
  <2>1. ram' \in RamType
    BY <1>18, <1>t DEF ConfigReload, TypeOK, RamType
  <2>2. QED
    BY <1>18, <1>t, <2>1 DEF ConfigReload, TypeOK, BudgetRead, Stored
<1>19. CASE Restart
  BY <1>19, <1>t, ResetRamType DEF Restart, Restarting, TypeOK, BudgetRead, Phases, Stored
<1>20. CASE Outage
  BY <1>20, <1>t DEF Outage, TypeOK, BudgetRead
<1>21. CASE Age
  <2>1. nvs' \in NvsType
    BY <1>21, <1>t DEF Age, TypeOK, NvsType
  <2>2. QED
    BY <1>21, <1>t, <2>1 DEF Age, TypeOK, BudgetRead
<1>22. CASE UNCHANGED vars
  BY <1>22, <1>t DEF vars, TypeOK, BudgetRead
<1>23. QED
  BY <1>1, <1>2, <1>3, <1>4, <1>5, <1>6, <1>7, <1>8, <1>9, <1>10, <1>11, <1>12,
     <1>13, <1>14, <1>15, <1>16, <1>17, <1>18, <1>19, <1>20, <1>21, <1>22
     DEF Next, BootStep, RecordStep, ConnectStep, LoopStep, EditStep, EnvStep

\* The configuration, the NVS records, the client's state and the counters are
\* well typed in every reachable state, whatever is edited, fails or resets;
\* in particular mqtt_reboots stays within mqtt.max_exhaust_reboots.
THEOREM TypeCorrect == Spec => []TypeOK
<1>1. TypeInv => TypeOK
  BY DEF TypeInv
<1>2. QED
  BY TypeInit, TypeNext, <1>1, PTL DEF Spec

-----------------------------------------------------------------------------
(***************************************************************************)
(* The bound.  Two budgets can be spent: one before a rollback, counted by *)
(* mqtt_reboots, and one after it, when the file holds the snapshot and no *)
(* further rollback can clear the count.                                   *)
(***************************************************************************)

SnapshotLive == nvs.lgSet /\ mqttCriticalJson(disk) = nvs.lg

\* The count covers the reboots, or one budget was spent before the snapshot.
Covered == \/ reboots <= nvs.count
           \/ reboots <= MaxReboots + nvs.count /\ SnapshotLive

\* A session ended the streak; an aged one starts again.
StreakOver ==
  /\ phase \in {"up", "upRb", "upLg", "upSet"} => reboots = 0
  /\ nvs.aged => reboots = 0

\* setup() has just read the file, and the snapshot has a port.
BootRead == (phase = "boot" => doc = disk) /\ nvs.lg.port # Missing

Restored == phase = "restored" => reboots <= MaxReboots /\ SnapshotLive

CountRead == phase \in {"exhaust", "bump"} =>
               ram.count = IF nvs.aged THEN 0 ELSE nvs.count

BudgetInv == Covered /\ StreakOver /\ BootRead /\ Restored /\ CountRead

LEMMA BudgetInit == Init => BudgetInv
BY DEF Init, BudgetInv, Covered, StreakOver, BootRead, Restored, CountRead, NoConf, Missing

LEMMA CountsExact ==
  ASSUME "nvs" \notin Faults
  PROVE  /\ Counts = {IF nvs.aged THEN 0 ELSE nvs.count}
         /\ Outcome("nvs") = {TRUE}
BY DEF Counts, Outcome

\* The snapshot is already critical: restoring it and serializing it again
\* gives it back.
LEMMA CriticalOfSnapshot ==
  ASSUME NEW c \in Configs, c.port # Missing
  PROVE  mqttCriticalJson(c) = c
BY DEF mqttCriticalJson, Configs

LEMMA BudgetNext ==
  ASSUME "nvs" \notin Faults
  PROVE  TypeInv /\ BudgetInv /\ [Next]_vars => BudgetInv'
<1> SUFFICES ASSUME TypeInv, BudgetInv, [Next]_vars PROVE BudgetInv'
  OBVIOUS
<1>t. /\ nvs \in NvsType /\ ram \in RamType /\ reboots \in Nat
      /\ disk \in Configs /\ doc \in Configs
  BY DEF TypeInv, TypeOK
<1>m. /\ MaxReboots \in Nat /\ nvs.count \in 0..MaxReboots /\ nvs.aged \in BOOLEAN
      /\ nvs.lgSet \in BOOLEAN /\ nvs.lg \in Stored
  BY <1>t, BudgetAssumption DEF NvsType
<1>f. /\ Counts = {IF nvs.aged THEN 0 ELSE nvs.count}
      /\ Outcome("nvs") = {TRUE}
  BY CountsExact
<1>1. CASE RollBack
  <2>1. CASE mqttRollbackShould(nvs.lg, nvs.lgSet, nvs.rb, mqttCriticalJson(doc))
    <3>1. nvs.lgSet /\ nvs.lg \in Configs /\ mqttCriticalJson(disk) # nvs.lg
      BY <1>1, <2>1, <1>m DEF RollBack, mqttRollbackShould, BudgetInv, BootRead, Stored
    <3>2. mqttCriticalJson(nvs.lg) = nvs.lg
      BY <3>1, CriticalOfSnapshot DEF BudgetInv, BootRead
    <3>3. reboots <= nvs.count /\ reboots <= MaxReboots
      BY <3>1, <1>m, <1>t DEF BudgetInv, Covered, SnapshotLive
    <3>4. /\ UNCHANGED <<nvs, reboots>>
          /\ phase' = "begin" \/ (phase' = "restored" /\ disk' = nvs.lg)
      BY <1>1, <1>f, <2>1 DEF RollBack
    <3>5. QED
      BY <3>1, <3>2, <3>3, <3>4
         DEF BudgetInv, Covered, StreakOver, BootRead, Restored, CountRead, SnapshotLive
  <2>2. CASE ~mqttRollbackShould(nvs.lg, nvs.lgSet, nvs.rb, mqttCriticalJson(doc))
    BY <1>1, <2>2
       DEF RollBack, BudgetInv, Covered, StreakOver, BootRead, Restored, CountRead, SnapshotLive
  <2>3. QED
    BY <2>1, <2>2
<1>2. CASE mqttRebootCountClear
  <2>1. nvs' = [nvs EXCEPT !.count = 0, !.aged = FALSE]
    BY <1>2, <1>f DEF mqttRebootCountClear
  <2>2. /\ nvs'.count = 0 /\ nvs'.aged = FALSE
        /\ nvs'.lg = nvs.lg /\ nvs'.lgSet = nvs.lgSet
    BY <2>1, <1>t DEF NvsType
  <2>3. CASE phase = "restored"
    BY <1>2, <2>2, <2>3, <1>t, <1>m
       DEF mqttRebootCountClear, BudgetInv, Covered, StreakOver, BootRead, Restored,
           CountRead, SnapshotLive
  <2>4. CASE phase = "up"
    BY <1>2, <2>2, <2>4, <1>t, <1>m
       DEF mqttRebootCountClear, BudgetInv, Covered, StreakOver, BootRead, Restored,
           CountRead, SnapshotLive
  <2>5. QED
    BY <1>2, <2>3, <2>4 DEF mqttRebootCountClear
<1>3. CASE mqttClearRbCfg
  <2>1. nvs' = [nvs EXCEPT !.rb = NoConf]
    BY <1>3, <1>f DEF mqttClearRbCfg
  <2>2. /\ nvs'.count = nvs.count /\ nvs'.aged = nvs.aged
        /\ nvs'.lg = nvs.lg /\ nvs'.lgSet = nvs.lgSet
    BY <2>1, <1>t DEF NvsType
  <2>3. QED
    BY <1>3, <2>2
       DEF mqttClearRbCfg, BudgetInv, Covered, StreakOver, BootRead, Restored, CountRead,
           SnapshotLive
<1>4. CASE Begin \/ Reinit \/ Tick
  BY <1>4
     DEF Begin, Reinit, Tick, Idle, Connecting, BudgetInv, Covered, StreakOver, BootRead,
         Restored, CountRead, SnapshotLive
<1>5. CASE ConnectOk
  BY <1>5, <1>m
     DEF ConnectOk, BudgetInv, Covered, StreakOver, BootRead, Restored, CountRead
<1>6. CASE SnapshotKeys
  <2>1. mqttCriticalJson(doc).port # Missing
    BY <1>t, CriticalType
  <2>2. /\ nvs'.count = nvs.count /\ nvs'.aged = nvs.aged
        /\ nvs'.lg \in {nvs.lg, mqttCriticalJson(doc)}
        /\ phase' \in {"upSet", "run"}
    BY <1>6, <1>t, <1>f DEF SnapshotKeys, NvsType
  <2>3. reboots = 0 /\ reboots' = 0
    BY <1>6 DEF SnapshotKeys, BudgetInv, StreakOver
  <2>4. QED
    BY <2>1, <2>2, <2>3, <1>m
       DEF BudgetInv, Covered, StreakOver, BootRead, Restored, CountRead
<1>7. CASE SnapshotFlag
  <2>1. /\ nvs'.count = nvs.count /\ nvs'.aged = nvs.aged /\ nvs'.lg = nvs.lg
    BY <1>7, <1>t, <1>f DEF SnapshotFlag, NvsType
  <2>2. reboots = 0 /\ reboots' = 0
    BY <1>7 DEF SnapshotFlag, BudgetInv, StreakOver
  <2>3. QED
    BY <1>7, <2>1, <2>2, <1>m
       DEF SnapshotFlag, BudgetInv, Covered, StreakOver, BootRead, Restored, CountRead
<1>8. CASE ConnectFails
  <2>1. PICK tls \in {FALSE, LowHeap}, defragCount \in Counts, count \in Counts :
          RetryOrReboot(tls, defragCount, count)
    BY <1>8, Zenon DEF ConnectFails
  <2>2. /\ defragCount = IF nvs.aged THEN 0 ELSE nvs.count
        /\ count = defragCount
    BY <1>f
  <2>3. ram'.count = defragCount /\ phase' \in {"bump", "exhaust", "run"}
    BY <2>1, <2>2, <1>t DEF RetryOrReboot, RamType
  <2>4. QED
    BY <1>8, <2>2, <2>3
       DEF ConnectFails, BudgetInv, Covered, StreakOver, BootRead, Restored, CountRead,
           SnapshotLive
<1>9. CASE RecordFailing
  <2>1. nvs' = [nvs EXCEPT !.rb = mqttCriticalJson(doc)]
    BY <1>9, <1>f DEF RecordFailing
  <2>2. /\ nvs'.count = nvs.count /\ nvs'.aged = nvs.aged
        /\ nvs'.lg = nvs.lg /\ nvs'.lgSet = nvs.lgSet
    BY <2>1, <1>t DEF NvsType
  <2>3. QED
    BY <1>9, <2>2
       DEF RecordFailing, BudgetInv, Covered, StreakOver, BootRead, Restored, CountRead,
           SnapshotLive
<1>10. CASE BrokerRestart
  <2>1. nvs' = [Bumped EXCEPT !.aged = FALSE]
    BY <1>10, <1>f DEF BrokerRestart
  <2>2. /\ nvs'.count = ram.count + 1 /\ nvs'.aged = FALSE
        /\ nvs'.lg = nvs.lg /\ nvs'.lgSet = nvs.lgSet
    BY <2>1, <1>t DEF Bumped, NvsType
  <2>3. ram.count = IF nvs.aged THEN 0 ELSE nvs.count
    BY <1>10 DEF BrokerRestart, BudgetInv, CountRead
  <2>4. nvs.aged => reboots = 0
    BY DEF BudgetInv, StreakOver
  <2>5. /\ phase' = "boot" /\ doc' = disk /\ disk' = disk
        /\ reboots' \in Nat /\ reboots' <= reboots + 1
    BY <1>10, <1>t DEF BrokerRestart, Restarting
  <2>6. Covered'
    BY <2>2, <2>3, <2>4, <2>5, <1>m, <1>t DEF BudgetInv, Covered, SnapshotLive
  <2>7. QED
    BY <2>2, <2>5, <2>6 DEF BudgetInv, StreakOver, BootRead, Restored, CountRead
<1>11. CASE LinkLost \/ Outage \/ (\E c \in Written : CmdInbound(c))
  BY <1>11
     DEF LinkLost, Outage, CmdInbound, Idle, BudgetInv, Covered, StreakOver, BootRead,
         Restored, CountRead, SnapshotLive
<1>12. CASE ApplyCmdConfig
  BY <1>12, <1>m
     DEF ApplyCmdConfig, BudgetInv, Covered, StreakOver, BootRead, Restored, CountRead
<1>13. CASE \E c \in Written : ConfigSet(c) \/ FileWrite(c)
  BY <1>13, <1>m
     DEF ConfigSet, FileWrite, BudgetInv, Covered, StreakOver, BootRead,
         Restored, CountRead
<1>14. CASE ConfigReload
  BY <1>14
     DEF ConfigReload, BudgetInv, Covered, StreakOver, BootRead, Restored,
         CountRead, SnapshotLive
<1>15. CASE Restart
  BY <1>15
     DEF Restart, Restarting, BudgetInv, Covered, StreakOver, BootRead, Restored,
         CountRead, SnapshotLive
<1>16. CASE Age
  <2>1. nvs'.count = nvs.count /\ nvs'.lg = nvs.lg
    BY <1>16, <1>t DEF Age, NvsType
  <2>2. QED
    BY <1>16, <2>1, <1>m DEF Age, BudgetInv, Covered, StreakOver, BootRead, Restored, CountRead
<1>17. CASE UNCHANGED vars
  BY <1>17
     DEF vars, BudgetInv, Covered, StreakOver, BootRead, Restored, CountRead, SnapshotLive
<1>18. QED
  BY <1>1, <1>2, <1>3, <1>4, <1>5, <1>6, <1>7, <1>8, <1>9, <1>10, <1>11, <1>12,
     <1>13, <1>14, <1>15, <1>16, <1>17
     DEF Next, BootStep, RecordStep, ConnectStep, LoopStep, EditStep, EnvStep

\* Broker reboots are bounded by twice the budget for every budget, every
\* configuration, low heap or not, with resets and failed file writes anywhere,
\* as long as the NVS reads and writes of the budget succeed.
THEOREM BoundedReboots ==
  ASSUME "nvs" \notin Faults
  PROVE  Spec => []RebootsBounded
<1>1. TypeInv /\ BudgetInv => RebootsBounded
  <2> SUFFICES ASSUME TypeInv, BudgetInv PROVE RebootsBounded
    OBVIOUS
  <2>1. reboots \in Nat /\ nvs.count \in 0..MaxReboots /\ MaxReboots \in Nat
    BY BudgetAssumption DEF TypeInv, TypeOK, NvsType
  <2>2. QED
    BY <2>1 DEF BudgetInv, Covered, RebootsBounded
<1>2. TypeInv /\ BudgetInv /\ [Next]_vars => BudgetInv'
  BY BudgetNext
<1>3. QED
  BY TypeInit, TypeNext, BudgetInit, <1>1, <1>2, PTL DEF Spec


-----------------------------------------------------------------------------
(***************************************************************************)
(* The snapshot.  It is sound when every written configuration names its   *)
(* port: nothing edits the document between a connect and its commit.      *)
(***************************************************************************)

PortsNamed ==
  /\ disk.port # Missing /\ doc.port # Missing
  /\ ram.staged.port # Missing /\ nvs.lg.port # Missing

\* What connect() sends is what the document says, and a session proves it.
SessionProves ==
  /\ phase \in {"connect", "up", "upRb", "upLg"} => ram.used = doc.cred
  /\ phase \in {"up", "upRb", "upLg"} => DialTarget \in proven

SnapshotProved == nvs.lg # NoConf => Target(nvs.lg) \in proven

SnapshotInv == PortsNamed /\ SessionProves /\ SnapshotProved

LEMMA SnapshotInit ==
  ASSUME \A c \in Written : c.port # Missing
  PROVE  Init => SnapshotInv
BY DEF Init, SnapshotInv, PortsNamed, SessionProves, SnapshotProved, ResetRam, NoConf, Missing

LEMMA SnapshotNext ==
  ASSUME \A c \in Written : c.port # Missing
  PROVE  TypeInv /\ SnapshotInv /\ [Next]_vars => SnapshotInv'
<1> SUFFICES ASSUME TypeInv, SnapshotInv, [Next]_vars PROVE SnapshotInv'
  OBVIOUS
<1>t. /\ nvs \in NvsType /\ ram \in RamType
      /\ disk \in Configs /\ doc \in Configs
  BY DEF TypeInv, TypeOK
<1>r. ResetRam.staged.port # Missing
  BY DEF ResetRam, NoConf, Missing
<1>1. CASE RollBack
  BY <1>1 DEF RollBack, SnapshotInv, PortsNamed, SessionProves, SnapshotProved
<1>2. CASE mqttRebootCountClear \/ mqttClearRbCfg \/ SnapshotFlag
  <2>1. nvs'.lg = nvs.lg
    BY <1>2, <1>t DEF mqttRebootCountClear, mqttClearRbCfg, SnapshotFlag, NvsType
  <2>2. QED
    BY <1>2, <2>1
       DEF mqttRebootCountClear, mqttClearRbCfg, SnapshotFlag, SnapshotInv, PortsNamed,
           SessionProves, SnapshotProved, DialTarget, Target
<1>3. CASE Begin \/ Reinit \/ Tick
  <2>1. ram'.used = doc.cred /\ ram'.staged = ram.staged
    BY <1>3, <1>t DEF Begin, Reinit, Tick, Connecting, RamType
  <2>2. phase' = "connect" /\ UNCHANGED <<disk, doc, nvs, proven>>
    BY <1>3 DEF Begin, Reinit, Tick, Connecting
  <2>3. QED
    BY <2>1, <2>2 DEF SnapshotInv, PortsNamed, SessionProves, SnapshotProved
<1>4. CASE ConnectOk
  <2>1. ram'.used = ram.used /\ ram'.dial = ram.dial /\ ram'.staged = ram.staged
    BY <1>4, <1>t DEF ConnectOk, RamType
  <2>2. QED
    BY <1>4, <2>1
       DEF ConnectOk, SnapshotInv, PortsNamed, SessionProves, SnapshotProved, DialTarget
<1>5. CASE SnapshotKeys
  <2>1. mqttCriticalJson(doc) = doc
    BY <1>t, CriticalOfSnapshot DEF SnapshotInv, PortsNamed
  <2>2. mqttSnapshotProven(doc, ram.dial) => Target(doc) \in proven
    BY <1>5 DEF SnapshotKeys, SnapshotInv, SessionProves, mqttSnapshotProven, Target, DialTarget
  <2>3. \/ nvs'.lg = nvs.lg
        \/ mqttSnapshotProven(doc, ram.dial) /\ nvs'.lg = mqttCriticalJson(doc)
    BY <1>5, <1>t DEF SnapshotKeys, NvsType
  <2>4. phase' \in {"upSet", "run"} /\ UNCHANGED <<disk, doc, ram, proven>>
    BY <1>5 DEF SnapshotKeys
  <2>5. QED
    BY <2>1, <2>2, <2>3, <2>4
       DEF SnapshotInv, PortsNamed, SessionProves, SnapshotProved
<1>6. CASE ConnectFails
  <2>1. PICK tls \in {FALSE, LowHeap}, defragCount \in Counts, count \in Counts :
          RetryOrReboot(tls, defragCount, count)
    BY <1>6, Zenon DEF ConnectFails
  <2>2. ram'.staged = ram.staged /\ phase' \in {"bump", "exhaust", "run"}
    BY <2>1, <1>t DEF RetryOrReboot, RamType
  <2>3. QED
    BY <1>6, <2>2 DEF ConnectFails, SnapshotInv, PortsNamed, SessionProves, SnapshotProved
<1>7. CASE RecordFailing
  <2>1. nvs'.lg = nvs.lg
    BY <1>7, <1>t DEF RecordFailing, NvsType
  <2>2. QED
    BY <1>7, <2>1 DEF RecordFailing, SnapshotInv, PortsNamed, SessionProves, SnapshotProved
<1>8. CASE BrokerRestart
  <2>1. nvs'.lg = nvs.lg
    BY <1>8, <1>t DEF BrokerRestart, Bumped, NvsType
  <2>2. QED
    BY <1>8, <2>1, <1>r
       DEF BrokerRestart, Restarting, SnapshotInv, PortsNamed, SessionProves, SnapshotProved
<1>9. CASE LinkLost \/ ConfigReload
  <2>1. ram'.staged = ram.staged /\ ram'.used = ram.used /\ ram'.dial = ram.dial
    BY <1>9, <1>t DEF LinkLost, ConfigReload, RamType
  <2>2. phase = "run"
    BY <1>9 DEF LinkLost, ConfigReload
  <2>3. QED
    BY <1>9, <2>1, <2>2
       DEF LinkLost, ConfigReload, SnapshotInv, PortsNamed, SessionProves, SnapshotProved
<1>10. ASSUME NEW c \in Written, CmdInbound(c) PROVE SnapshotInv'
  <2>1. ram'.staged = c
    BY <1>10, <1>t DEF CmdInbound, RamType
  <2>2. QED
    BY <1>10, <2>1
       DEF CmdInbound, Idle, SnapshotInv, PortsNamed, SessionProves, SnapshotProved
<1>11. CASE ApplyCmdConfig
  <2>1. ram'.staged = NoConf
    BY <1>11, <1>t DEF ApplyCmdConfig, Dropped, RamType
  <2>2. QED
    BY <1>11, <2>1
       DEF ApplyCmdConfig, SnapshotInv, PortsNamed, SessionProves, SnapshotProved,
           NoConf, Missing
<1>12. CASE \E c \in Written : ConfigSet(c) \/ FileWrite(c)
  BY <1>12
     DEF ConfigSet, FileWrite, SnapshotInv, PortsNamed, SessionProves, SnapshotProved
<1>13. CASE Restart
  BY <1>13, <1>r
     DEF Restart, Restarting, SnapshotInv, PortsNamed, SessionProves, SnapshotProved
<1>14. CASE Outage
  BY <1>14 DEF Outage, SnapshotInv, PortsNamed, SessionProves, SnapshotProved, DialTarget
<1>15. CASE Age
  <2>1. nvs'.lg = nvs.lg
    BY <1>15, <1>t DEF Age, NvsType
  <2>2. QED
    BY <1>15, <2>1 DEF Age, SnapshotInv, PortsNamed, SessionProves, SnapshotProved
<1>16. CASE UNCHANGED vars
  BY <1>16 DEF vars, SnapshotInv, PortsNamed, SessionProves, SnapshotProved, DialTarget
<1>17. QED
  BY <1>1, <1>2, <1>3, <1>4, <1>5, <1>6, <1>7, <1>8, <1>9, <1>10, <1>11, <1>12,
     <1>13, <1>14, <1>15, <1>16
     DEF Next, BootStep, RecordStep, ConnectStep, LoopStep, EditStep, EnvStep

\* The last-good snapshot restores a target that has connected, whatever fails,
\* resets or is edited, provided that every configuration names its port.
THEOREM SoundSnapshot ==
  ASSUME \A c \in Written : c.port # Missing
  PROVE  Spec => []LastGoodWorks
<1>1. SnapshotInv => LastGoodWorks
  BY DEF SnapshotInv, SnapshotProved, LastGoodWorks
<1>2. TypeInv /\ SnapshotInv /\ [Next]_vars => SnapshotInv'
  BY SnapshotNext
<1>3. Init => SnapshotInv
  BY SnapshotInit
<1>4. QED
  BY TypeInit, TypeNext, <1>1, <1>2, <1>3, PTL DEF Spec

-----------------------------------------------------------------------------
(***************************************************************************)
(* Reload and rollback.  The client dials what the document says as long   *)
(* as every edit that changes the document also drops the session: not     *)
(* config.set, not a cmd/config whose save fails after the file was        *)
(* written, and not a port that is left out where it was 0.                *)
(***************************************************************************)

EditsDropSession ==
  "set" \notin Edits /\ "fs" \notin Faults /\ \A c \in Written : c.port # Missing

Booting == phase \in {"boot", "restored", "restoredRb", "begin"}

DialOf(c) == [host |-> c.host, port |-> EffPort(c)]

\* Without a reinit pending the pair dialed is the document's.
DialFollows == ~Booting /\ ~ram.reinit => doc.host \in LongHosts \/ ram.dial = DialOf(doc)

\* What a reload asked for is the document until something replaces it.
AskedIsDoc == asked # NoConf => ~Booting /\ asked = doc

\* A connect that fails has dialed, with the document's credentials.
FailedIsTried ==
  phase \in {"connect", "exhaust"} => ~ram.reinit /\ ram.used = doc.cred /\ DialTarget \in tried

\* So has what is recorded as failing, unless its host was refused.
RecordedIsTried == nvs.rb # NoConf => Target(nvs.rb) \in tried \/ nvs.rb.host \in LongHosts

FollowInv == DialFollows /\ AskedIsDoc /\ FailedIsTried /\ RecordedIsTried

LEMMA FollowInit == Init => FollowInv
BY DEF Init, FollowInv, DialFollows, AskedIsDoc, FailedIsTried, RecordedIsTried, Booting

\* The two ways into connect() that copy the document's host and port, and the
\* retry, which dials the pair it has: each leaves the client following.
LEMMA FollowConnecting ==
  ASSUME TypeInv, FollowInv, NEW dial \in Dials, Connecting(dial),
         doc.host \in LongHosts \/ dial = DialOf(doc),
         UNCHANGED <<doc, nvs, asked>>, asked # NoConf => asked = doc
  PROVE  FollowInv'
<1>1. /\ ram'.dial = dial /\ ram'.used = doc.cred /\ ~ram'.reinit
      /\ phase' = "connect" /\ tried' = tried \cup {<<dial.host, dial.port, doc.cred>>}
  BY DEF TypeInv, TypeOK, Connecting, RamType
<1>2. DialFollows'
  BY <1>1 DEF DialFollows, DialOf, EffPort
<1>3. AskedIsDoc'
  BY <1>1 DEF AskedIsDoc, Booting
<1>4. FailedIsTried'
  BY <1>1 DEF FailedIsTried, DialTarget
<1>5. RecordedIsTried'
  BY <1>1 DEF FollowInv, RecordedIsTried, Target, EffPort
<1>6. QED
  BY <1>2, <1>3, <1>4, <1>5 DEF FollowInv

\* A step that leaves the document, the dial and what was asked for.
LEMMA FollowQuiet ==
  ASSUME FollowInv, UNCHANGED <<doc, asked, tried>>,
         ram'.dial = ram.dial, ram'.reinit = ram.reinit, ~Booting,
         phase' \notin {"boot", "restored", "restoredRb", "begin", "connect", "exhaust"}
                \/ (phase = "connect" /\ ram'.used = ram.used /\ ~Booting'),
         nvs'.rb \in {nvs.rb, NoConf}
  PROVE  FollowInv'
<1>1. DialFollows' /\ AskedIsDoc'
  BY DEF FollowInv, DialFollows, AskedIsDoc, Booting, DialOf, EffPort
<1>2. FailedIsTried'
  BY DEF FollowInv, FailedIsTried, DialTarget
<1>3. RecordedIsTried'
  BY DEF FollowInv, RecordedIsTried, Target, EffPort
<1>4. QED
  BY <1>1, <1>2, <1>3 DEF FollowInv

LEMMA FollowNext ==
  ASSUME EditsDropSession
  PROVE  TypeInv /\ SnapshotInv /\ FollowInv /\ [Next]_vars => FollowInv'
<1> SUFFICES ASSUME TypeInv, SnapshotInv, FollowInv, [Next]_vars PROVE FollowInv'
  OBVIOUS
<1>t. /\ nvs \in NvsType /\ ram \in RamType
      /\ disk \in Configs /\ doc \in Configs
  BY DEF TypeInv, TypeOK
<1>e. /\ "set" \notin Edits /\ "fs" \notin Faults
      /\ \A c \in Written : c.port # Missing
  BY DEF EditsDropSession
<1>d. CopiedDial \in Dials /\ ram.dial \in Dials
  BY <1>t, CopiedDialType DEF TypeInv, RamType
<1>f. DialFollows /\ AskedIsDoc /\ FailedIsTried /\ RecordedIsTried
  BY DEF FollowInv
<1>1. CASE RollBack
  <2>1. Booting' /\ asked' = NoConf /\ UNCHANGED <<nvs, tried>>
    BY <1>1, <1>f DEF RollBack, Booting, AskedIsDoc
  <2>2. DialFollows' /\ AskedIsDoc'
    BY <2>1 DEF DialFollows, AskedIsDoc
  <2>3. FailedIsTried' /\ RecordedIsTried'
    BY <2>1, <1>f DEF Booting, FailedIsTried, RecordedIsTried, Target, EffPort
  <2>4. QED
    BY <2>2, <2>3 DEF FollowInv
<1>2. CASE mqttRebootCountClear \/ mqttClearRbCfg \/ SnapshotFlag \/ SnapshotKeys
  <2>1. nvs'.rb \in {nvs.rb, NoConf}
    BY <1>2, <1>t
       DEF mqttRebootCountClear, mqttClearRbCfg, SnapshotFlag, SnapshotKeys, NvsType
  <2>2. UNCHANGED <<doc, ram, asked, tried>>
    BY <1>2 DEF mqttRebootCountClear, mqttClearRbCfg, SnapshotFlag, SnapshotKeys
  <2>3. /\ phase \in {"restored", "restoredRb", "up", "upRb", "upLg", "upSet"}
        /\ phase \in {"restored", "restoredRb"} => phase' \in {"restoredRb", "begin"}
        /\ phase \notin {"restored", "restoredRb"} => phase' \in {"upRb", "upLg", "upSet", "run"}
    BY <1>2 DEF mqttRebootCountClear, mqttClearRbCfg, SnapshotFlag, SnapshotKeys
  <2>4. CASE phase \in {"restored", "restoredRb"}
    <3>1. Booting /\ Booting' /\ asked = NoConf
      BY <2>3, <2>4, <1>f DEF Booting, AskedIsDoc
    <3>2. DialFollows' /\ AskedIsDoc' /\ FailedIsTried'
      BY <3>1, <2>2, <2>3, <2>4 DEF DialFollows, AskedIsDoc, FailedIsTried
    <3>3. RecordedIsTried'
      BY <2>1, <2>2, <1>f DEF RecordedIsTried, Target, EffPort
    <3>4. QED
      BY <3>2, <3>3 DEF FollowInv
  <2>5. CASE phase \notin {"restored", "restoredRb"}
    <3>1. ~Booting /\ phase' \in {"upRb", "upLg", "upSet", "run"}
      BY <2>3, <2>5 DEF Booting
    <3>2. QED
      BY <3>1, <2>1, <2>2, FollowQuiet
  <2>6. QED
    BY <2>4, <2>5
<1>3. CASE Begin
  <2>1. doc.host \in LongHosts \/ CopiedDial = DialOf(doc)
    BY DEF CopiedDial, DialOf
  <2>2. asked = NoConf
    BY <1>3, <1>f DEF Begin, AskedIsDoc, Booting
  <2>3. Connecting(CopiedDial) /\ UNCHANGED <<doc, nvs, asked>>
    BY <1>3 DEF Begin
  <2>4. QED
    BY <1>d, <2>1, <2>2, <2>3, FollowConnecting
<1>4. CASE Reinit
  <2>1. doc.host \in LongHosts \/ CopiedDial = DialOf(doc)
    BY DEF CopiedDial, DialOf
  <2>2. asked # NoConf => asked = doc
    BY <1>f DEF AskedIsDoc
  <2>3. Connecting(CopiedDial) /\ UNCHANGED <<doc, nvs, asked>>
    BY <1>4 DEF Reinit
  <2>4. QED
    BY <1>d, <2>1, <2>2, <2>3, FollowConnecting
<1>5. CASE Tick
  <2>1. doc.host \in LongHosts \/ ram.dial = DialOf(doc)
    BY <1>5, <1>f DEF Tick, Idle, DialFollows, Booting
  <2>2. asked # NoConf => asked = doc
    BY <1>f DEF AskedIsDoc
  <2>3. Connecting(ram.dial) /\ UNCHANGED <<doc, nvs, asked>>
    BY <1>5 DEF Tick
  <2>4. QED
    BY <1>d, <2>1, <2>2, <2>3, FollowConnecting
<1>6. CASE ConnectOk
  <2>1. ram'.dial = ram.dial /\ ram'.reinit = ram.reinit
    BY <1>6, <1>t DEF ConnectOk, RamType
  <2>2. UNCHANGED <<doc, asked, tried, nvs>> /\ phase' = "up" /\ ~Booting
    BY <1>6 DEF ConnectOk, Booting
  <2>3. QED
    BY <2>1, <2>2, FollowQuiet
<1>7. CASE ConnectFails
  <2>1. PICK tls \in {FALSE, LowHeap}, defragCount \in Counts, count \in Counts :
          RetryOrReboot(tls, defragCount, count)
    BY <1>7, Zenon DEF ConnectFails
  <2>2. /\ ram'.dial = ram.dial /\ ram'.reinit = ram.reinit /\ ram'.used = ram.used
        /\ phase' \in {"bump", "exhaust", "run"}
    BY <2>1, <1>t DEF RetryOrReboot, RamType
  <2>3. UNCHANGED <<doc, asked, tried, nvs>> /\ phase = "connect"
    BY <1>7 DEF ConnectFails
  <2>4. ~Booting /\ ~Booting'
    BY <2>2, <2>3 DEF Booting
  <2>5. QED
    BY <2>2, <2>3, <2>4, FollowQuiet
<1>8. CASE RecordFailing
  <2>1. mqttCriticalJson(doc) = doc
    BY <1>t, CriticalOfSnapshot DEF SnapshotInv, PortsNamed
  <2>2. nvs'.rb \in {nvs.rb, doc}
    BY <1>8, <1>t, <2>1 DEF RecordFailing, NvsType
  <2>3. UNCHANGED <<doc, ram, asked, tried>> /\ phase = "exhaust" /\ phase' = "bump"
    BY <1>8 DEF RecordFailing
  <2>4. doc.host \in LongHosts \/ ram.dial = DialOf(doc)
    BY <2>3, <1>f DEF DialFollows, FailedIsTried, Booting
  <2>5. Target(doc) \in tried \/ doc.host \in LongHosts
    BY <2>3, <2>4, <1>f DEF FailedIsTried, DialTarget, Target, DialOf
  <2>6. RecordedIsTried'
    BY <2>2, <2>3, <2>5, <1>f DEF RecordedIsTried, Target, EffPort
  <2>7. DialFollows' /\ AskedIsDoc' /\ FailedIsTried'
    BY <2>3, <1>f DEF DialFollows, AskedIsDoc, FailedIsTried, Booting, DialOf, EffPort
  <2>8. QED
    BY <2>6, <2>7 DEF FollowInv
<1>9. CASE BrokerRestart \/ Restart
  <2>1. nvs'.rb = nvs.rb
    BY <1>9, <1>t DEF BrokerRestart, Restart, Bumped, NvsType
  <2>2. phase' = "boot" /\ asked' = NoConf /\ tried' = tried
    BY <1>9 DEF BrokerRestart, Restart, Restarting
  <2>3. DialFollows' /\ AskedIsDoc' /\ FailedIsTried'
    BY <2>2 DEF DialFollows, AskedIsDoc, FailedIsTried, Booting
  <2>4. RecordedIsTried'
    BY <2>1, <2>2, <1>f DEF RecordedIsTried, Target, EffPort
  <2>5. QED
    BY <2>3, <2>4 DEF FollowInv
<1>10. ASSUME NEW c \in Written, LinkLost \/ CmdInbound(c) PROVE FollowInv'
  <2>1. ram'.dial = ram.dial /\ ram'.reinit = ram.reinit
    BY <1>10, <1>t DEF LinkLost, CmdInbound, RamType
  <2>2. UNCHANGED <<doc, asked, tried, nvs, phase>> /\ phase = "run" /\ ~Booting
    BY <1>10 DEF LinkLost, CmdInbound, Idle, Booting
  <2>3. QED
    BY <2>1, <2>2, FollowQuiet
<1>11. CASE ApplyCmdConfig
  <2>1. ram.staged \in Configs
    BY <1>11, <1>t DEF ApplyCmdConfig, RamType, Stored
  <2>2. mqttCriticalJson(doc) = doc /\ mqttCriticalJson(ram.staged) = ram.staged
    BY <1>t, <2>1, CriticalOfSnapshot DEF SnapshotInv, PortsNamed
  <2>3. /\ phase = "run" /\ phase' = "run" /\ asked' = NoConf
        /\ UNCHANGED <<nvs, tried>>
    BY <1>11 DEF ApplyCmdConfig
  <2>4. /\ ram'.dial = ram.dial
        /\ ram'.reinit \/ (ram'.reinit = ram.reinit /\ doc' = doc)
    BY <1>11, <1>t, <1>e, <2>2 DEF ApplyCmdConfig, Dropped, RamType
  <2>5. DialFollows'
    BY <2>3, <2>4, <1>f DEF DialFollows, Booting, DialOf, EffPort
  <2>6. AskedIsDoc' /\ FailedIsTried'
    BY <2>3 DEF AskedIsDoc, FailedIsTried
  <2>7. RecordedIsTried'
    BY <2>3, <1>f DEF RecordedIsTried, Target, EffPort
  <2>8. QED
    BY <2>5, <2>6, <2>7 DEF FollowInv
<1>12. ASSUME NEW c \in Written, ConfigSet(c) PROVE FollowInv'
  BY <1>12, <1>e DEF ConfigSet
<1>13. ASSUME NEW c \in Written, FileWrite(c) PROVE FollowInv'
  <2>1. /\ UNCHANGED <<doc, nvs, phase, ram, tried>> /\ asked' = NoConf
        /\ phase = "run"
    BY <1>13 DEF FileWrite
  <2>2. DialFollows' /\ AskedIsDoc' /\ FailedIsTried'
    BY <2>1, <1>f DEF DialFollows, AskedIsDoc, FailedIsTried, Booting, DialOf, EffPort
  <2>3. RecordedIsTried'
    BY <2>1, <1>f DEF RecordedIsTried, Target, EffPort
  <2>4. QED
    BY <2>2, <2>3 DEF FollowInv
<1>14. CASE ConfigReload
  <2>1. /\ phase = "run" /\ UNCHANGED <<nvs, phase, tried>>
        /\ doc' = disk /\ asked' = disk
    BY <1>14 DEF ConfigReload
  <2>2. /\ ram'.dial = ram.dial
        /\ \/ ram'.reinit
           \/ /\ Target(disk) = Target(doc) /\ doc.host \notin LongHosts
              /\ ram'.reinit = ram.reinit
    BY <1>14, <1>t DEF ConfigReload, RamType
  <2>3. Target(disk) = Target(doc) => disk.host = doc.host /\ DialOf(disk) = DialOf(doc)
    BY DEF Target, DialOf
  <2>4. ~ram'.reinit => ram'.dial = DialOf(disk)
    BY <2>1, <2>2, <2>3, <1>f DEF DialFollows, Booting
  <2>5. DialFollows'
    BY <2>1, <2>4 DEF DialFollows, DialOf, EffPort
  <2>6. AskedIsDoc' /\ FailedIsTried'
    BY <2>1 DEF AskedIsDoc, FailedIsTried, Booting
  <2>7. RecordedIsTried'
    BY <2>1, <1>f DEF RecordedIsTried, Target, EffPort
  <2>8. QED
    BY <2>5, <2>6, <2>7 DEF FollowInv
<1>15. CASE Outage \/ Age \/ UNCHANGED vars
  <2>1. nvs'.rb = nvs.rb
    BY <1>15, <1>t DEF Outage, Age, vars, NvsType
  <2>2. UNCHANGED <<doc, phase, ram, asked, tried>>
    BY <1>15 DEF Outage, Age, vars
  <2>3. DialFollows' /\ AskedIsDoc'
    BY <2>2, <1>f DEF DialFollows, AskedIsDoc, Booting, DialOf, EffPort
  <2>4. FailedIsTried' /\ RecordedIsTried'
    BY <2>1, <2>2, <1>f DEF FailedIsTried, RecordedIsTried, DialTarget, Target, EffPort
  <2>5. QED
    BY <2>3, <2>4 DEF FollowInv
<1>16. PICK w : w \in Written
  BY ConfigAssumption
<1>17. QED
  BY <1>1, <1>2, <1>3, <1>4, <1>5, <1>6, <1>7, <1>8, <1>9, <1>10, <1>11, <1>12,
     <1>13, <1>14, <1>15, <1>16
     DEF Next, BootStep, RecordStep, ConnectStep, LoopStep, EditStep, EnvStep

\* A config.reload is not lost: once one has read the file, the client dials the
\* broker the file names or is about to, for every set of configurations, with
\* resets, outages, low heap and NVS failures, under EditsDropSession.
THEOREM ReloadReaches ==
  ASSUME EditsDropSession
  PROVE  Spec => []ReloadApplies
<1>1. FollowInv => ReloadApplies
  BY DEF FollowInv, DialFollows, AskedIsDoc, ReloadApplies, Booting, DialOf
<1>2. \A c \in Written : c.port # Missing
  BY DEF EditsDropSession
<1>3. Init => SnapshotInv
  BY <1>2, SnapshotInit
<1>4. TypeInv /\ SnapshotInv /\ [Next]_vars => SnapshotInv'
  BY <1>2, SnapshotNext
<1>5. TypeInv /\ SnapshotInv /\ FollowInv /\ [Next]_vars => FollowInv'
  BY FollowNext
<1>6. QED
  BY TypeInit, TypeNext, FollowInit, <1>1, <1>3, <1>4, <1>5, PTL DEF Spec

-----------------------------------------------------------------------------
\* The first scene alone: the other two fail saves and use config.set.
ResetsInv == scene = "resets" => TypeInv /\ SnapshotInv /\ FollowInv

\* A rollback replaces the document by the snapshot only when the document is
\* what was recorded as failing.
LEMMA UndoesRecorded ==
  ASSUME TypeInv, SnapshotInv, FollowInv, [Next]_vars
  PROVE  OnlyTried
<1> SUFFICES ASSUME phase = "boot", phase' # "boot", doc' # doc
             PROVE  Target(doc) \in tried \/ doc.host \in LongHosts
  BY DEF OnlyTried
<1>1. RollBack
  BY DEF Next, BootStep, RecordStep, ConnectStep, LoopStep, EditStep, EnvStep, vars,
         Begin, mqttRebootCountClear, mqttClearRbCfg, SnapshotKeys, SnapshotFlag,
         ConnectOk, ConnectFails, RecordFailing, BrokerRestart, Reinit, Tick, Idle,
         ApplyCmdConfig, LinkLost, ConfigReload, CmdInbound, ConfigSet, FileWrite,
         Restart, Restarting, Outage, Age
<1>2. mqttRollbackShould(nvs.lg, nvs.lgSet, nvs.rb, mqttCriticalJson(doc))
  BY <1>1 DEF RollBack
<1>3. mqttCriticalJson(doc) = doc
  BY CriticalOfSnapshot DEF TypeInv, TypeOK, SnapshotInv, PortsNamed
<1>4. nvs.rb = doc /\ nvs.rb # NoConf
  BY <1>2, <1>3 DEF mqttRollbackShould
<1>5. QED
  BY <1>4 DEF FollowInv, RecordedIsTried

\* A boot-time rollback never undoes a configuration the client did not dial:
\* the scene with resets, for every value of its constants, under
\* EditsDropSession.
THEOREM UndoneWasTried ==
  ASSUME EditsDropSession
  PROVE  SceneSpec => UndoesOnlyTried
<1>1. \A c \in Written : c.port # Missing
  BY DEF EditsDropSession
<1>2. SceneInit => ResetsInv
  <2>1. Init => TypeInv /\ SnapshotInv /\ FollowInv
    BY <1>1, TypeInit, SnapshotInit, FollowInit
  <2>2. QED
    BY <2>1 DEF SceneInit, ResetsInv
<1>3. ResetsInv /\ [SceneNext]_allVars => ResetsInv'
  <2> SUFFICES ASSUME ResetsInv, [SceneNext]_allVars, scene' = "resets"
               PROVE  TypeInv' /\ SnapshotInv' /\ FollowInv'
    BY DEF ResetsInv
  <2>1. scene = "resets" /\ [Next]_vars
    BY DEF SceneNext, allVars
  <2>2. TypeInv /\ SnapshotInv /\ FollowInv
    BY <2>1 DEF ResetsInv
  <2>3. QED
    BY <1>1, <2>1, <2>2, TypeNext, SnapshotNext, FollowNext
<1>4. ResetsInv /\ [SceneNext]_allVars => (scene = "resets" => OnlyTried)
  <2> SUFFICES ASSUME ResetsInv, [SceneNext]_allVars, scene = "resets"
               PROVE  OnlyTried
    OBVIOUS
  <2>1. [Next]_vars
    BY DEF SceneNext, allVars
  <2>2. QED
    BY <2>1, UndoesRecorded DEF ResetsInv
<1>5. QED
  BY <1>2, <1>3, <1>4, PTL DEF SceneSpec, UndoesOnlyTried
=============================================================================
