--------------------------- MODULE MCMqttRecovery ---------------------------
(* A broker that answers on its default port, and configurations near it. *)
EXTENDS MqttRecovery

MCHosts == {"broker", "typo", "toolong"}
MCLong  == {"toolong"}
MCPorts == {DefaultPort, 1883}
MCCreds == {"cred", "stale"}
MCGood  == {<<"broker", DefaultPort, "cred">>}

Conf(h, p, c) == [host |-> h, port |-> p, cred |-> c]
Right     == Conf("broker", DefaultPort, "cred")
Typo      == Conf("typo", DefaultPort, "cred")
TooLong   == Conf("toolong", DefaultPort, "cred")
WrongPort == Conf("broker", 1883, "cred")
WrongCred == Conf("broker", DefaultPort, "stale")
NoPort    == Conf("broker", Missing, "cred")
TypoNoPort == Conf("typo", Missing, "cred")

AllWritten == {Right, Typo, TooLong, WrongPort, WrongCred}
FewWritten == {Right, Typo, WrongCred}
WithoutPort == {NoPort, TypoNoPort}
=============================================================================
