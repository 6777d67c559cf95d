----------------------------- MODULE CommandRing ----------------------------
(* Shell's deferred ring and the transports that feed it.  HTTP requests and  *)
(* the WebSocket terminal run on the AsyncTCP task and spin for their answer; *)
(* MQTT commands arrive on the main task, carrying the authority of the       *)
(* session that spoke; the main loop drains one job per pass and runs it, and *)
(* while a command blocks the console may run one line inside it.             *)
EXTENDS Integers, Sequences, FiniteSets, Functions

CONSTANTS RingSize,   \* DEFERRED_RING_SIZE
          NestMax,    \* SHELL_NEST_MAX
          Mode,       \* shell.mode, read once per boot
          Kinds,      \* the kinds of job a run lets the transports hand in
          MaxJobs     \* bound: jobs handed in, all transports together

ASSUME RingAssumption ==
  /\ RingSize \in Nat /\ RingSize > 1
  /\ NestMax \in Nat \ {0}
  /\ MaxJobs \in Nat
  /\ Mode \in {"full", "serial-only", "mqtt-only", "off"}
  /\ Kinds \subseteq {"cmd", "config", "file", "ws", "open", "admin"}

Jobs    == 1..MaxJobs
NoJob   == 0
Console == -1
Slots   == 0..(RingSize - 1)

VARIABLES
  ring, head, tail,   \* _ring[].active and its job, _ringHead, _ringTail
  current,            \* the job Shell::loop moved out of its slot
  stack,              \* running commands, outermost first: who, and did it fail
  failed,             \* _failed[], one flag per nesting level
  async,              \* the job the AsyncTCP task spins for, or NoJob
  handed,             \* jobs handed in so far
  captured,           \* per job, what its closure holds: its kind, the session
                      \* that spoke it, the flags its request polls
  outcome,            \* per job: what really became of it
  mtls,               \* _mtlsActive of the live MQTT session
  restartPending,     \* HttpServer's _restartPending
  unread              \* POST /api/config wrote a file this boot has not read

ringVars == <<ring, head, tail>>
loopVars == <<current, stack, failed>>
jobVars  == <<handed, captured, outcome>>
vars == <<ringVars, loopVars, jobVars, async, mtls, restartPending, unread>>

Outcomes == {"none", "dropped", "ok", "fail", "over"}
Freed == [kind |-> "none", mtls |-> FALSE, done |-> FALSE, ok |-> FALSE]

TypeOK ==
  /\ ring \in [Slots -> Jobs \cup {NoJob}] /\ head \in Slots /\ tail \in Slots
  /\ current \in Jobs \cup {NoJob}
  /\ stack \in Seq([job : Jobs \cup {Console}, erred : BOOLEAN])
  /\ Len(stack) <= NestMax
  /\ failed \in [1..NestMax -> BOOLEAN]
  /\ async \in Jobs \cup {NoJob} /\ handed \in 0..MaxJobs
  /\ captured \in [Jobs -> [kind : Kinds \cup {"none"}, mtls : BOOLEAN,
                            done : BOOLEAN, ok : BOOLEAN]]
  /\ outcome \in [Jobs -> Outcomes]
  /\ mtls \in BOOLEAN /\ restartPending \in BOOLEAN /\ unread \in BOOLEAN

Init ==
  /\ ring = [s \in Slots |-> NoJob] /\ head = 0 /\ tail = 0
  /\ current = NoJob /\ stack = <<>> /\ failed = [d \in 1..NestMax |-> FALSE]
  /\ async = NoJob /\ handed = 0
  /\ captured = [j \in Jobs |-> Freed] /\ outcome = [j \in Jobs |-> "none"]
  /\ mtls = FALSE /\ restartPending = FALSE /\ unread = FALSE

(* Which transports shell.mode leaves open.                                   *)
SerialAllowed == Mode \in {"full", "serial-only"}
MqttAllowed   == Mode \in {"full", "mqtt-only"}
HttpAllowed   == Mode = "full"
SurfaceAllowed(k) == k = "config" \/ HttpAllowed

-----------------------------------------------------------------------------
(* Shell::enqueue and enqueueDeferred, one critical section each.             *)

\* Mutants: an index that is not wrapped, a ring that uses its last slot.
SuccUnwrapped(i) == IF i = RingSize - 1 THEN RingSize ELSE i + 1
FullAtLastSlot   == tail = head /\ ring[tail] # NoJob

Succ(i) == (i + 1) % RingSize
Full    == Succ(tail) = head

Push(j) ==
  IF Full THEN UNCHANGED ringVars
          ELSE /\ ring' = [ring EXCEPT ![tail] = j]
               /\ tail' = Succ(tail) /\ UNCHANGED head

(* A closure the ring turned away is dropped unrun.                           *)
HandIn(k, session) ==
  LET j == handed + 1
  IN /\ handed < MaxJobs /\ k \in Kinds
     /\ handed' = j
     /\ Push(j)
     /\ IF Full
          THEN outcome' = [outcome EXCEPT ![j] = "dropped"] /\ UNCHANGED captured
          ELSE /\ captured' = [captured EXCEPT ![j] = [Freed EXCEPT !.kind = k,
                                                                  !.mtls = session]]
               /\ UNCHANGED outcome

(* POST /api/cmd, POST /api/config and a config write through /api/file: the  *)
(* handler answers 503 when the ring is full, else queues its job and spins,  *)
(* holding the one AsyncTCP task.                                             *)
HttpRequest(k) ==
  /\ async = NoJob /\ SurfaceAllowed(k)
  /\ HandIn(k, FALSE)
  /\ async' = IF Full THEN NoJob ELSE handed + 1
  /\ UNCHANGED <<loopVars, mtls, restartPending, unread>>

(* A terminal line: queued and forgotten, the client is looked up at the end. *)
WsLine ==
  /\ async = NoJob /\ HttpAllowed
  /\ HandIn("ws", FALSE)
  /\ UNCHANGED <<loopVars, async, mtls, restartPending, unread>>

(* cliInboundHandler, inside the MQTT client's loop on the main task, between *)
(* jobs or while a command waits and ticks the client.  A full ring drops it. *)
MqttCommand(k) ==
  /\ MqttAllowed /\ (current = NoJob \/ stack # <<>>)
  /\ HandIn(k, mtls)
  /\ UNCHANGED <<loopVars, async, mtls, restartPending, unread>>

(* The session is dialled again on another port or transport.                 *)
Reconnect ==
  /\ current = NoJob /\ stack = <<>>
  /\ mtls' = ~mtls
  /\ UNCHANGED <<ringVars, loopVars, jobVars, async, restartPending, unread>>

-----------------------------------------------------------------------------
(* The shared flags live as long as the closure or the waiting request.       *)

Release(j) ==
  /\ captured' = [captured EXCEPT ![j] = Freed]
  /\ outcome' = [outcome EXCEPT ![j] = "over"]

(* The job ran: a request still spinning for it will read its flags.          *)
Settle(j, reply, truth) ==
  IF async = j
    THEN /\ captured' = [captured EXCEPT ![j].done = TRUE, ![j].ok = reply]
         /\ outcome' = [outcome EXCEPT ![j] = IF truth THEN "ok" ELSE "fail"]
    ELSE Release(j)

(* The AsyncTCP task's five-second wait: 200 or 500 by the flags, else 504.   *)
Told(j) == IF captured[j].ok THEN "ok" ELSE "fail"

Poll ==
  /\ async # NoJob /\ captured[async].done
  /\ Release(async) /\ async' = NoJob
  /\ UNCHANGED <<ringVars, loopVars, handed, mtls, restartPending, unread>>

Timeout ==
  /\ async # NoJob /\ ~captured[async].done
  /\ async' = NoJob
  /\ UNCHANGED <<ringVars, loopVars, jobVars, mtls, restartPending, unread>>

-----------------------------------------------------------------------------
(* The main loop.                                                             *)

(* Shell::loop, the critical section: the payload is moved out of the slot.   *)
Drain ==
  /\ current = NoJob /\ stack = <<>>
  /\ head # tail /\ ring[head] # NoJob
  /\ current' = ring[head]
  /\ ring' = [ring EXCEPT ![head] = NoJob] /\ head' = Succ(head)
  /\ UNCHANGED <<tail, stack, failed, jobVars, async, mtls, restartPending, unread>>

Dispatching == current # NoJob /\ stack = <<>>
Kind(j) == captured[j].kind

\* Mutant: only a request that still waits asks for the restart.
ConfigJobAnswered(landed) ==
  /\ Dispatching /\ Kind(current) \in {"config", "file"}
  /\ LET restart == landed /\ Kind(current) = "config"
     IN /\ restartPending' = (restartPending \/ (restart /\ async = current))
        /\ unread' = (unread \/ restart)
  /\ Settle(current, landed, landed)
  /\ current' = NoJob
  /\ UNCHANGED <<ringVars, stack, failed, handed, async, mtls>>

(* _configWriteOrReply's job.  The restart is asked for here, not by the      *)
(* waiting request, so one that timed out still restarts into what landed.    *)
ConfigJob(landed) ==
  /\ Dispatching /\ Kind(current) \in {"config", "file"}
  /\ LET restart == landed /\ Kind(current) = "config"
     IN restartPending' = (restartPending \/ restart) /\ unread' = (unread \/ restart)
  /\ Settle(current, landed, landed)
  /\ current' = NoJob
  /\ UNCHANGED <<ringVars, stack, failed, handed, async, mtls>>

\* Mutant: the gate judges the session that is up when the job is drained.
AllowedAtDrain(j) == Kind(j) = "admin" => mtls

(* cliAuthzAllowed: a certificate session may run anything, a password        *)
(* session only the provisioning commands.                                    *)
Allowed(j) == Kind(j) = "admin" => captured[j].mtls

(* runCli's gate, before every handler.                                       *)
DenyJob ==
  /\ Dispatching /\ ~Allowed(current)
  /\ Release(current) /\ current' = NoJob
  /\ UNCHANGED <<ringVars, stack, failed, handed, async, mtls, restartPending, unread>>

IsLine(j) == Kind(j) \in {"cmd", "ws", "open", "admin"} /\ Allowed(j)

(* Shell::execute on a line it cannot split or does not know.                 *)
BadLine ==
  /\ Dispatching /\ IsLine(current)
  /\ Settle(current, FALSE, FALSE) /\ current' = NoJob
  /\ UNCHANGED <<ringVars, stack, failed, handed, async, mtls, restartPending, unread>>

(* runCli's own handlers, which need no line: fs.write, fs.append, a chunk of *)
(* fs.cat, cert.set and secret.set.  They answer and end.                     *)
BinaryHandler ==
  /\ Dispatching /\ Kind(current) \in {"open", "admin"} /\ Allowed(current)
  /\ Release(current) /\ current' = NoJob
  /\ UNCHANGED <<ringVars, stack, failed, handed, async, mtls, restartPending, unread>>

(* Shell::execute finds the command: its level's flag is cleared first.  At   *)
(* NestMax commands deep a line is refused.                                   *)
Enter(who) ==
  /\ Len(stack) < NestMax
  /\ failed' = [failed EXCEPT ![Len(stack) + 1] = FALSE]
  /\ stack' = Append(stack, [job |-> who, erred |-> FALSE])
  /\ UNCHANGED <<ringVars, current, jobVars, async, mtls, restartPending, unread>>

RunLine == Dispatching /\ IsLine(current) /\ Enter(current)

(* pumpConsole, from the main loop or from inside a command that blocks.      *)
ConsoleLine == SerialAllowed /\ ~Dispatching /\ Enter(Console)

\* Mutant: one flag for every level.
HandlerFailsShared ==
  /\ stack # <<>> /\ ~stack[Len(stack)].erred
  /\ failed' = [failed EXCEPT ![1] = TRUE]
  /\ stack' = [stack EXCEPT ![Len(stack)].erred = TRUE]
  /\ UNCHANGED <<ringVars, current, jobVars, async, mtls, restartPending, unread>>

(* Shell::fail, from the innermost handler.                                   *)
HandlerFails ==
  /\ stack # <<>> /\ ~stack[Len(stack)].erred
  /\ failed' = [failed EXCEPT ![Len(stack)] = TRUE]
  /\ stack' = [stack EXCEPT ![Len(stack)].erred = TRUE]
  /\ UNCHANGED <<ringVars, current, jobVars, async, mtls, restartPending, unread>>

(* The innermost handler returns, and execute reads its level's flag.         *)
HandlerReturns ==
  /\ stack # <<>>
  /\ LET top == stack[Len(stack)]
     IN IF top.job = Console
          THEN UNCHANGED <<current, captured, outcome>>
          ELSE Settle(top.job, ~failed[Len(stack)], ~top.erred) /\ current' = NoJob
  /\ stack' = SubSeq(stack, 1, Len(stack) - 1)
  /\ UNCHANGED <<ringVars, failed, handed, async, mtls, restartPending, unread>>

(* The device restarts: RAM is gone, a spinning request loses its connection. *)
Reboot ==
  /\ ring' = [s \in Slots |-> NoJob] /\ head' = 0 /\ tail' = 0
  /\ current' = NoJob /\ stack' = <<>> /\ failed' = [d \in 1..NestMax |-> FALSE]
  /\ captured' = [j \in Jobs |-> Freed] /\ async' = NoJob
  /\ outcome' = [j \in Jobs |-> IF outcome[j] \in {"ok", "fail"} THEN "over"
                                                                ELSE outcome[j]]
  /\ mtls' = FALSE /\ restartPending' = FALSE /\ unread' = FALSE
  /\ UNCHANGED handed

(* POST /api/restart only raises the flag.                                    *)
ApiRestart ==
  /\ async = NoJob /\ ~restartPending
  /\ restartPending' = TRUE
  /\ UNCHANGED <<ringVars, loopVars, jobVars, async, mtls, unread>>

(* HttpServer::loop acts on the flag once the main loop is between jobs.      *)
PlannedRestart == restartPending /\ current = NoJob /\ stack = <<>> /\ Reboot

(* The restart command, run by anyone.                                        *)
RestartCommand == stack # <<>> /\ Reboot

Next ==
  \/ \E k \in {"cmd", "config", "file"} : HttpRequest(k)
  \/ WsLine \/ ApiRestart
  \/ \E k \in {"open", "admin"} : MqttCommand(k)
  \/ Reconnect \/ Poll \/ Timeout \/ Drain
  \/ \E landed \in BOOLEAN : ConfigJob(landed)
  \/ DenyJob \/ BadLine \/ BinaryHandler \/ RunLine \/ ConsoleLine \/ HandlerFails
  \/ HandlerReturns \/ PlannedRestart \/ RestartCommand

Spec == Init /\ [][Next]_vars

(* The main loop turns, every handler returns and the AsyncTCP task's wait    *)
(* ends.  A line typed on the console holds up a step of the loop but never   *)
(* every later one, so the steps it may hold up are strongly fair.            *)
RunJob == \/ \E landed \in BOOLEAN : ConfigJob(landed)
          \/ DenyJob \/ BadLine \/ BinaryHandler \/ RunLine
OutermostReturns == Len(stack) = 1 /\ HandlerReturns
FairSpec ==
  /\ Spec
  /\ SF_vars(Drain) /\ WF_vars(RunJob) /\ SF_vars(PlannedRestart)
  /\ WF_vars(HandlerReturns) /\ SF_vars(OutermostReturns)
  /\ WF_vars(Poll \/ Timeout)

-----------------------------------------------------------------------------
(* Properties.                                                                *)

(* The jobs waiting in the ring, oldest first.                                *)
Waiting == [i \in 1..((tail - head + RingSize) % RingSize) |->
              ring[(head + i - 1) % RingSize]]

Service == INSTANCE CommandService WITH
  Capacity <- RingSize - 1,
  queue    <- Waiting,
  accepted <- {j \in 1..handed : outcome[j] # "dropped"},
  finished <- {j \in Jobs : outcome[j] \in {"ok", "fail", "over"}}

(* Refinement: the slots, indices and critical sections of the ring, filled   *)
(* from two tasks and emptied by the main loop, are one bounded queue whose   *)
(* every accepted job is run once, in order, unless a restart comes first     *)
(* (Shell::enqueue, enqueueDeferred and loop).  A job the full ring turned    *)
(* away is never run.                                                         *)
RingIsQueue == Service!FairSpec

(* A request that is about to be answered is told its job's own outcome,      *)
(* untouched by a console line that failed, or succeeded, inside the job      *)
(* (Shell::execute's flag per nesting level, read by /api/cmd).               *)
AnswersHonest ==
  async # NoJob /\ captured[async].done => Told(async) = outcome[async]

(* An administrator's command runs only for the session that spoke it with a  *)
(* certificate, although the session may have been dialled again, either way, *)
(* while it waited (_inboundAuth frozen by cliInboundHandler, judged by       *)
(* runCli).                                                                   *)
NoBorrowedAuthority ==
  \A i \in 1..Len(stack) :
    stack[i].job # Console /\ Kind(stack[i].job) = "admin"
      => captured[stack[i].job].mtls

(* A configuration that landed through POST /api/config restarts the device   *)
(* into it, also when its sender was told "timeout" before the write ran.     *)
LandedRestarts == unread ~> ~unread
=============================================================================
