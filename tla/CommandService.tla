--------------------------- MODULE CommandService ---------------------------
(* What the deferred dispatcher promises its transports: a bounded first-in   *)
(* first-out queue of jobs, run one at a time, each at most once, and every   *)
(* accepted job run unless a restart loses it.  It says nothing of slots,     *)
(* indices, tasks or nesting; CommandRing implements it.                      *)
EXTENDS Naturals, Sequences

CONSTANTS Jobs,      \* identities of the jobs the transports hand in
          NoJob,     \* not a job
          Capacity   \* jobs that may wait at once

VARIABLES queue,     \* accepted and not started, oldest first
          current,   \* the job being run
          accepted,  \* every job accepted so far
          finished   \* every job run to its end

vars == <<queue, current, accepted, finished>>

Init == queue = <<>> /\ current = NoJob /\ accepted = {} /\ finished = {}

Accept(j) ==
  /\ j \notin accepted /\ Len(queue) < Capacity
  /\ queue' = Append(queue, j) /\ accepted' = accepted \cup {j}
  /\ UNCHANGED <<current, finished>>

Start ==
  /\ current = NoJob /\ queue # <<>>
  /\ current' = Head(queue) /\ queue' = Tail(queue)
  /\ UNCHANGED <<accepted, finished>>

Finish ==
  /\ current # NoJob
  /\ current' = NoJob /\ finished' = finished \cup {current}
  /\ UNCHANGED <<queue, accepted>>

(* A restart forgets what waits and what runs.                                *)
Reset ==
  /\ queue' = <<>> /\ current' = NoJob
  /\ UNCHANGED <<accepted, finished>>

Next == (\E j \in Jobs : Accept(j)) \/ Start \/ Finish \/ Reset

Spec == Init /\ [][Next]_vars

(* The main loop keeps turning, so a waiting job is started and a started one *)
(* ends, unless a restart comes first.                                        *)
FairSpec == Spec /\ WF_vars(Start) /\ WF_vars(Finish)
=============================================================================
