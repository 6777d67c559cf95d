------------------------- MODULE MCMqttRecoverySafe -------------------------
(* MqttRecovery in three scenes explored side by side: resets, outages and    *)
(* low heap under the constants of the .cfg; a bad configuration with nothing *)
(* else wrong; and a broker that goes and comes back while writes fail.       *)
EXTENDS MqttRecovery

VARIABLES
  scene,
  restarts,   \* the reboots of the last scene: RebootsBounded supposes working NVS
  request     \* asked in the last two: ReloadApplies supposes no config.set, which
              \* loads what it writes and leaves the reload nothing to see

MCHosts == {"broker", "typo", "toolong"}
MCLong  == {"toolong"}
MCPorts == {DefaultPort, 1883}
MCCreds == {"cred", "stale"}
MCGood  == {<<"broker", DefaultPort, "cred">>}

Conf(h, p, c) == [host |-> h, port |-> p, cred |-> c]
MCWritten == {Conf("broker", DefaultPort, "cred"), Conf("typo", DefaultPort, "cred"),
              Conf("toolong", DefaultPort, "cred"), Conf("broker", 1883, "cred"),
              Conf("broker", DefaultPort, "stale")}

AllEdits == {"set", "file", "cmd", "reload"}

BadConfig == INSTANCE MqttRecovery WITH
  asked <- request, Edits <- AllEdits, Resets <- FALSE, Outages <- FALSE,
  LowHeap <- FALSE, Faults <- {"fs"}, Ageing <- FALSE

BrokerBack == INSTANCE MqttRecovery WITH
  reboots <- restarts, asked <- request, Edits <- AllEdits, Resets <- FALSE,
  LowHeap <- FALSE, Faults <- {"nvs", "fs"}, RebootAfter <- 2, MaxEdits <- 1

allVars == <<vars, scene, restarts, request>>

SceneInit == /\ scene \in {"resets", "bad config", "broker back"}
             /\ Init /\ restarts = 0 /\ request = NoConf
             /\ scene = "bad config" => ~down

SceneNext ==
  \/ scene = "resets"      /\ Next            /\ UNCHANGED <<scene, restarts, request>>
  \/ scene = "bad config"  /\ BadConfig!Next  /\ UNCHANGED <<scene, restarts, asked>>
  \/ scene = "broker back" /\ BrokerBack!Next /\ UNCHANGED <<scene, reboots, asked>>

\* MqttRecovery's fairness, in the two scenes that state liveness.
Turns ==
  LET machine == <<disk, doc, nvs, phase, ram>>
  IN WF_machine(\/ /\ scene = "bad config"
                   /\ \/ BadConfig!BootStep     \/ BadConfig!RecordStep
                      \/ BadConfig!ConnectStep  \/ BadConfig!LoopStep
                \/ /\ scene = "broker back"
                   /\ \/ BrokerBack!BootStep    \/ BrokerBack!RecordStep
                      \/ BrokerBack!ConnectStep \/ BrokerBack!LoopStep)

SceneSpec == SceneInit /\ [][SceneNext]_allVars /\ Turns

\* A rollback only replaces a configuration that was dialed, or whose host was
\* refused as too long: rollbackIfUncommitted never undoes an untried edit made
\* through the file, cmd/config or a reload.
UndoesOnlyTried == [][scene = "resets" => OnlyTried]_allVars

\* A configuration nothing accepts does not stay: rollbackIfUncommitted takes
\* back a live one without a session once there is a snapshot.
RollsBackBadConfig == scene = "bad config" => BadConfig!BadConfigRollsBack

\* A spent reboot budget never ends the retries of MQTTClient::loop: a broker
\* that is back and accepts what the client dials gets its session.
ReconnectsOnReturn == scene = "broker back" => BrokerBack!Reconnects
=============================================================================
