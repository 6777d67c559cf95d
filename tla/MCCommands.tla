----------------------------- MODULE MCCommands -----------------------------
(* What passes through the command and message paths, in three scenes         *)
(* explored side by side: CommandRing under the constants of the .cfg, the    *)
(* pages an answer is cut into, and the publish queue and retained topics of  *)
(* a session.  A scene moves its own machine, the others rest.                *)
EXTENDS CommandRing

CONSTANTS
  \* CliPages
  Bytes, Outputs, Limits,
  \* MqttSession
  QueueSize, MaxMsgs, Paced

\* A UTF-8 sequence has at most four bytes.
ASSUME PagesAssumption ==
  /\ Bytes \subseteq [cost : Nat, seq : 0..4] /\ Limits \subseteq Nat
  /\ \A o \in Outputs : o \in Seq(Seq(Bytes))

ASSUME SessionAssumption ==
  QueueSize \in Nat \ {0} /\ MaxMsgs \in Nat /\ Paced \in BOOLEAN

VARIABLES
  scene,
  \* CliPages
  output, limit, todo, rest, printing, page, sent, dropped,
  \* MqttSession
  up, slots, first, last, count, gap, made, accepted, received, retained,
  published, dirty, held, listed, cellular, seen, done

pageVars    == <<output, limit, todo, rest, printing, page, sent, dropped>>
sessionVars == <<up, slots, first, last, count, gap, made, accepted, received,
                 retained, published, dirty, held, listed, cellular, seen, done>>
allVars     == <<scene, vars, pageVars, sessionVars>>

\* A plain byte, one that JSON escapes, and a UTF-8 sequence of three bytes.
A  == [cost |-> 1, seq |-> 1]
Q  == [cost |-> 2, seq |-> 1]
L3 == [cost |-> 1, seq |-> 3]
C  == [cost |-> 1, seq |-> 0]

Glyphs == {<<>>, <<A>>, <<Q>>, <<L3, C, C>>}
Lines  == {a \o b \o c \o d : a, b, c, d \in Glyphs}
Firsts == {<<>>, <<A>>, <<A, Q, A>>, <<L3, C, C, Q>>}

MCBytes   == {A, Q, L3, C}
MCOutputs == {<<l>> : l \in Lines} \cup {<<k, l>> : k \in Firsts, l \in Lines}

Paging == INSTANCE CliPages WITH StrOverhead <- 3, ContCost <- 2

Session == INSTANCE MqttSession WITH
  ring <- slots, head <- first, tail <- last

PagingRests == /\ output = <<>> /\ limit = 0 /\ todo = <<>> /\ rest = <<>>
               /\ printing = FALSE /\ page = <<>> /\ sent = <<>> /\ dropped = FALSE

SceneInit == /\ Init /\ Session!Init
             /\ \/ scene \in {"commands", "session"} /\ PagingRests
                \/ scene = "pages" /\ Paging!Init

SceneNext ==
  \/ scene = "commands" /\ Next         /\ UNCHANGED <<scene, pageVars, sessionVars>>
  \/ scene = "pages"    /\ Paging!Next  /\ UNCHANGED <<scene, vars, sessionVars>>
  \/ scene = "session"  /\ Session!Next /\ UNCHANGED <<scene, vars, pageVars>>
  \/ scene = "pages"    /\ Paging!Printed /\ UNCHANGED allVars   \* the answer is out

\* The fairness of CommandRing and MqttSession, each in its scene.  A scene
\* never changes, so one conjunct may carry an action of each.
Fairness ==
  LET moving == <<vars, sessionVars>>
      Cmd(act) == scene = "commands" /\ act /\ UNCHANGED sessionVars
      Ses(act) == scene = "session" /\ act /\ UNCHANGED vars
  IN /\ SF_moving(Cmd(Drain)) /\ SF_moving(Cmd(PlannedRestart))
     /\ SF_moving(Cmd(OutermostReturns))
     /\ WF_moving(Cmd(RunJob) \/ Ses(Session!SendQueued))
     /\ WF_moving(Cmd(HandlerReturns) \/ Ses(Session!GapPasses))
     /\ WF_moving(Cmd(Poll \/ Timeout))

SceneSpec == SceneInit /\ [][SceneNext]_allVars /\ Fairness

\* The pages of an answer (runCli's flush and the policy of cli_page_policy.h)
\* stay within the limit, end between two characters, and, unless the last one
\* says that a line was lost, give the reader every line whole and in order.
AnswerPages ==
  scene = "pages" => Paging!TypeOK /\ Paging!PagesSound /\ Paging!Reassembles

\* The publish ring holds the newest messages it accepted, in order and unsent,
\* and the manifest lists every retained topic the broker holds, through drops,
\* flushes, handoffs and reconnects (MQTTClient::enqueue, flushQueue, loop,
\* publishRetainedManifest).
SessionSound == scene = "session" => Session!TypeOK /\ Session!SessionSound

\* With the session up the ring is sent empty: nothing wedges its head.
QueueDrains == scene = "session" => Session!QueueDrains
=============================================================================
