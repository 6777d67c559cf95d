-------------------------- MODULE CommandRingProofs -------------------------
(***************************************************************************)
(* The deferred ring for every ring size, nesting depth, shell mode and    *)
(* number of jobs: it is a bounded queue, its index never waits on an      *)
(* empty slot, a request is answered with its own job's outcome, and a     *)
(* command runs with the authority it was spoken with.                     *)
(***************************************************************************)
EXTENDS CommandRing, SequenceTheorems, TLAPS

Frames == [job : Jobs \cup {Console}, erred : BOOLEAN]

\* The slots from head up to tail, around the end of the array.
Between(s) == IF head <= tail THEN head <= s /\ s < tail
                              ELSE head <= s \/ s < tail

\* Jobs are numbered as they come, and one that was turned away is in no slot.
JobsKnown ==
  /\ \A s \in Slots : ring[s] # NoJob => ring[s] <= handed /\ outcome[ring[s]] # "dropped"
  /\ current # NoJob => current <= handed /\ outcome[current] # "dropped"
  /\ async <= handed
  /\ \A j \in Jobs : j > handed => outcome[j] = "none"

\* A slot is in use exactly when it is between the indices.
RingDense == \A s \in Slots : ring[s] # NoJob <=> Between(s)

\* Only the outermost command is a job, the one moved out of the ring, and each
\* level's flag is its own.
StackSound ==
  \A i \in 1..Len(stack) :
    /\ stack[i].job # Console => i = 1 /\ stack[i].job = current
    /\ failed[i] = stack[i].erred

RingInv ==
  /\ TypeOK
  /\ JobsKnown
  /\ RingDense
  /\ StackSound
  /\ AnswersHonest
  /\ NoBorrowedAuthority

-----------------------------------------------------------------------------
(* Counting around the array.                                                 *)

Wrap(a) == IF a < RingSize THEN a ELSE a - RingSize

LEMMA WrapIsMod ==
  ASSUME NEW a \in Nat, a < RingSize + RingSize
  PROVE  a % RingSize = Wrap(a)
BY RingAssumption DEF Wrap

LEMMA SuccIsWrap ==
  ASSUME NEW i \in Slots
  PROVE  Succ(i) = Wrap(i + 1) /\ Succ(i) \in Slots
<1>1. i + 1 \in Nat /\ i + 1 < RingSize + RingSize
  BY RingAssumption DEF Slots
<1>2. QED
  BY <1>1, WrapIsMod, RingAssumption DEF Succ, Slots, Wrap

\* Filling the slot at tail and moving tail keeps the slots in use together.
LEMMA PushDense ==
  ASSUME TypeOK, RingDense, NEW j \in Jobs, Push(j), ~Full
  PROVE  /\ ring' \in [Slots -> Jobs \cup {NoJob}] /\ head' \in Slots /\ tail' \in Slots
         /\ \A s \in Slots : ring'[s] = IF s = tail THEN j ELSE ring[s]
         /\ RingDense'
<1>1. ring' = [ring EXCEPT ![tail] = j] /\ tail' = Wrap(tail + 1) /\ head' = head
  BY SuccIsWrap DEF Push, TypeOK
<1>2. tail' \in Slots /\ Wrap(tail + 1) # head
  BY SuccIsWrap DEF Push, Full, TypeOK
<1>3. head \in Nat /\ tail \in Nat /\ head < RingSize /\ tail < RingSize
  BY RingAssumption DEF TypeOK, Slots
<1>4. \A s \in Slots : ring'[s] = IF s = tail THEN j ELSE ring[s]
  BY <1>1 DEF TypeOK
<1>5. j # NoJob
  BY DEF Jobs, NoJob
<1>6. \A s \in Slots : Between(s)' <=> s = tail \/ Between(s)
  <2> SUFFICES ASSUME NEW s \in Slots PROVE Between(s)' <=> s = tail \/ Between(s)
    OBVIOUS
  <2>1. s \in Nat /\ s < RingSize
    BY RingAssumption DEF Slots
  <2>2. CASE tail + 1 < RingSize
    BY <1>1, <1>2, <1>3, <2>1, <2>2 DEF Between, Wrap
  <2>3. CASE tail + 1 = RingSize
    BY <1>1, <1>2, <1>3, <2>1, <2>3, RingAssumption DEF Between, Wrap
  <2>4. QED
    BY <1>3, <2>2, <2>3, RingAssumption
<1>7. RingDense'
  BY <1>4, <1>5, <1>6 DEF RingDense
<1>8. QED
  BY <1>1, <1>2, <1>4, <1>7 DEF TypeOK

\* So does emptying the slot at head and moving head.
LEMMA PopDense ==
  ASSUME TypeOK, RingDense, Drain
  PROVE  /\ ring' \in [Slots -> Jobs \cup {NoJob}] /\ head' \in Slots /\ tail' \in Slots
         /\ \A s \in Slots : ring'[s] = IF s = head THEN NoJob ELSE ring[s]
         /\ RingDense'
<1>1. ring' = [ring EXCEPT ![head] = NoJob] /\ head' = Wrap(head + 1) /\ tail' = tail
  BY SuccIsWrap DEF Drain, TypeOK
<1>2. head' \in Slots
  BY SuccIsWrap DEF Drain, TypeOK
<1>3. /\ head \in Nat /\ tail \in Nat /\ head < RingSize /\ tail < RingSize
      /\ head # tail
  BY RingAssumption DEF TypeOK, Slots, Drain
<1>4. \A s \in Slots : ring'[s] = IF s = head THEN NoJob ELSE ring[s]
  BY <1>1 DEF TypeOK
<1>5. \A s \in Slots : Between(s)' <=> s # head /\ Between(s)
  <2> SUFFICES ASSUME NEW s \in Slots PROVE Between(s)' <=> s # head /\ Between(s)
    OBVIOUS
  <2>1. s \in Nat /\ s < RingSize
    BY RingAssumption DEF Slots
  <2>2. CASE head + 1 < RingSize
    BY <1>1, <1>3, <2>1, <2>2 DEF Between, Wrap
  <2>3. CASE head + 1 = RingSize
    BY <1>1, <1>3, <2>1, <2>3, RingAssumption DEF Between, Wrap
  <2>4. QED
    BY <1>3, <2>2, <2>3, RingAssumption
<1>6. RingDense'
  BY <1>4, <1>5 DEF RingDense
<1>7. QED
  BY <1>1, <1>2, <1>4, <1>6 DEF TypeOK

-----------------------------------------------------------------------------
(* What becomes of a job.                                                     *)

CapturedType == [Jobs -> [kind : Kinds \cup {"none"}, mtls : BOOLEAN,
                          done : BOOLEAN, ok : BOOLEAN]]

LEMMA FreedType ==
  /\ Freed \in [kind : Kinds \cup {"none"}, mtls : BOOLEAN, done : BOOLEAN, ok : BOOLEAN]
  /\ Freed.kind = "none" /\ Freed.done = FALSE
BY DEF Freed

Ended == {"ok", "fail", "over"}

\* A job that ended is recorded as ended, nothing else is, and its flags tell a
\* request that still waits what the job did.
LEMMA SettleKeeps ==
  ASSUME TypeOK, AnswersHonest, NEW j \in Jobs, NEW reply \in BOOLEAN,
         Settle(j, reply, reply) \/ Release(j), UNCHANGED async
  PROVE  /\ captured' \in CapturedType /\ outcome' \in [Jobs -> Outcomes]
         /\ \A k \in Jobs : k # j => captured'[k] = captured[k] /\ outcome'[k] = outcome[k]
         /\ outcome'[j] \in Ended
         /\ AnswersHonest'
<1>1. CASE Release(j)
  <2>1. captured' = [captured EXCEPT ![j] = Freed] /\ outcome' = [outcome EXCEPT ![j] = "over"]
    BY <1>1 DEF Release
  <2>2. captured' \in CapturedType /\ outcome' \in [Jobs -> Outcomes]
    BY <2>1, FreedType DEF TypeOK, CapturedType, Outcomes
  <2>3. captured'[j].done = FALSE
    BY <2>1, FreedType DEF TypeOK
  <2>4. \A k \in Jobs : k # j => captured'[k] = captured[k] /\ outcome'[k] = outcome[k]
    BY <2>1 DEF TypeOK
  <2>5. outcome'[j] = "over"
    BY <2>1 DEF TypeOK
  <2>6. AnswersHonest'
    BY <2>3, <2>4 DEF TypeOK, AnswersHonest, Told, NoJob
  <2>7. QED
    BY <2>2, <2>4, <2>5, <2>6 DEF Ended
<1>2. CASE async = j /\ Settle(j, reply, reply)
  <2>1. /\ captured' = [captured EXCEPT ![j].done = TRUE, ![j].ok = reply]
        /\ outcome' = [outcome EXCEPT ![j] = IF reply THEN "ok" ELSE "fail"]
    BY <1>2 DEF Settle
  <2>2. captured' = [captured EXCEPT ![j] = [captured[j] EXCEPT !.done = TRUE, !.ok = reply]]
    BY <2>1 DEF TypeOK
  <2>3. captured' \in CapturedType /\ outcome' \in [Jobs -> Outcomes]
    <3> DEFINE flags == [captured[j] EXCEPT !.done = TRUE, !.ok = reply]
    <3>1. flags \in [kind : Kinds \cup {"none"}, mtls : BOOLEAN, done : BOOLEAN, ok : BOOLEAN]
      BY DEF TypeOK
    <3> HIDE DEF flags
    <3>2. captured' = [captured EXCEPT ![j] = flags]
      BY <2>2 DEF flags
    <3>3. captured' \in CapturedType
      BY <3>1, <3>2 DEF TypeOK, CapturedType
    <3>4. outcome' \in [Jobs -> Outcomes]
      BY <2>1 DEF TypeOK, Outcomes
    <3>5. QED
      BY <3>3, <3>4
  <2>4. captured'[j].ok = reply
    BY <2>2 DEF TypeOK
  <2>5. outcome'[j] = IF reply THEN "ok" ELSE "fail"
    BY <2>1 DEF TypeOK
  <2>6. AnswersHonest'
    BY <1>2, <2>4, <2>5 DEF AnswersHonest, Told
  <2>7. \A k \in Jobs : k # j => captured'[k] = captured[k] /\ outcome'[k] = outcome[k]
    BY <2>1, <2>2 DEF TypeOK
  <2>8. QED
    BY <2>3, <2>5, <2>6, <2>7 DEF Ended
<1>3. QED
  BY <1>1, <1>2 DEF Settle

LEMMA FrameType ==
  ASSUME TypeOK, NEW i \in 1..Len(stack)
  PROVE  stack[i] \in Frames
BY ElementOfSeq DEF TypeOK, Frames

\* A job on the stack is the one the loop took out of the ring.
LEMMA OnStack ==
  ASSUME TypeOK, StackSound, JobsKnown, NEW i \in 1..Len(stack), stack[i].job # Console
  PROVE  /\ i = 1 /\ stack[i].job = current /\ current \in Jobs /\ current # NoJob
         /\ current <= handed
<1>1. i = 1 /\ stack[i].job = current
  BY DEF StackSound
<1>2. current \in Jobs /\ current # NoJob
  BY <1>1, FrameType DEF Frames, Jobs, NoJob
<1>3. QED
  BY <1>1, <1>2 DEF JobsKnown

\* Shell::enqueue, for every transport.
LEMMA HandInKeeps ==
  ASSUME RingInv, NEW k, NEW session \in BOOLEAN, HandIn(k, session),
         UNCHANGED <<loopVars, mtls, restartPending, unread>>,
         async' \in {async, NoJob} \/ (~Full /\ async' = handed + 1)
  PROVE  RingInv'
<1> USE DEF RingInv
<1> DEFINE j == handed + 1
<1>1. /\ handed \in Nat /\ MaxJobs \in Nat /\ handed < MaxJobs /\ k \in Kinds
      /\ handed' = j /\ Push(j)
  BY RingAssumption DEF HandIn, TypeOK
<1>2. j \in Jobs /\ j > handed /\ j # NoJob /\ handed' \in 0..MaxJobs
  BY <1>1 DEF Jobs, NoJob
<1>3. UNCHANGED <<current, stack, failed>>
  BY DEF loopVars
<1>4. \A i \in Jobs : i <= handed => i <= handed' /\ i # j
  BY <1>1 DEF Jobs
<1>5. async' \in Jobs \cup {NoJob} /\ async' <= handed'
  BY <1>1, <1>2 DEF TypeOK, JobsKnown, Jobs, NoJob
<1>6. StackSound'
  BY <1>3 DEF StackSound
<1>7. \A i \in Jobs : i # j => captured'[i] = captured[i] /\ outcome'[i] = outcome[i]
  BY <1>2 DEF HandIn, TypeOK
<1>8. NoBorrowedAuthority'
  <2> SUFFICES ASSUME NEW i \in 1..Len(stack), stack[i].job # Console,
                      Kind(stack[i].job)' = "admin"
               PROVE  captured'[stack[i].job].mtls
    BY <1>3 DEF NoBorrowedAuthority
  <2>1. stack[i].job \in Jobs /\ stack[i].job # j
    BY <1>4, OnStack
  <2>2. captured'[stack[i].job] = captured[stack[i].job]
    BY <1>7, <2>1
  <2>3. Kind(stack[i].job) = "admin"
    BY <1>3, <2>2 DEF Kind
  <2>4. QED
    BY <2>2, <2>3 DEF NoBorrowedAuthority
<1>9. /\ captured' \in CapturedType /\ outcome' \in [Jobs -> Outcomes]
      /\ Full => outcome'[j] = "dropped"
      /\ ~Full => outcome'[j] = "none" /\ captured'[j].done = FALSE
  <2>1. CASE Full
    BY <1>2, <2>1 DEF HandIn, TypeOK, CapturedType, Outcomes
  <2>2. CASE ~Full
    <3> DEFINE fresh == [Freed EXCEPT !.kind = k, !.mtls = session]
    <3>1. /\ fresh \in [kind : Kinds \cup {"none"}, mtls : BOOLEAN, done : BOOLEAN, ok : BOOLEAN]
          /\ fresh.done = FALSE
      BY <1>1 DEF Freed
    <3>2. captured' = [captured EXCEPT ![j] = fresh] /\ outcome' = outcome
      BY <2>2 DEF HandIn
    <3> HIDE DEF fresh
    <3>3. outcome[j] = "none"
      BY <1>2 DEF JobsKnown
    <3>4. QED
      BY <1>2, <2>2, <3>1, <3>2, <3>3 DEF TypeOK, CapturedType
  <2>3. QED
    BY <2>1, <2>2
<1>10. AnswersHonest'
  <2> SUFFICES ASSUME async' # NoJob, captured'[async'].done
               PROVE  Told(async)' = outcome'[async']
    BY DEF AnswersHonest
  <2>1. async' # j
    <3>1. CASE async' = j /\ ~Full
      BY <1>9, <3>1
    <3>2. CASE async' = async
      BY <1>1, <3>2 DEF JobsKnown, TypeOK, Jobs, NoJob
    <3>3. QED
      BY <3>1, <3>2
  <2>2. async' = async /\ async \in Jobs
    BY <2>1 DEF TypeOK
  <2>3. QED
    BY <1>7, <2>1, <2>2 DEF AnswersHonest, Told
<1> HIDE DEF j
<1>11. CASE Full
  <2>1. UNCHANGED <<ring, head, tail>>
    BY <1>1, <1>11 DEF Push, ringVars
  <2>2. RingDense'
    BY <2>1 DEF RingDense, Between
  <2>3. TypeOK'
    BY <1>2, <1>3, <1>5, <1>9, <2>1 DEF TypeOK, CapturedType
  <2>4. \A s \in Slots : ring[s] # NoJob => ring[s] \in Jobs
    BY DEF TypeOK
  <2>5. JobsKnown'
    <3>1. \A s \in Slots : ring[s] # NoJob => ring[s] <= handed' /\ outcome'[ring[s]] # "dropped"
      BY <1>4, <1>7, <2>4 DEF JobsKnown
    <3>2. current # NoJob => current <= handed' /\ outcome'[current] # "dropped"
      BY <1>4, <1>7 DEF JobsKnown, TypeOK
    <3>3. \A i \in Jobs : i > handed' => outcome'[i] = "none"
      BY <1>1, <1>2, <1>7 DEF JobsKnown, Jobs, j
    <3>4. QED
      BY <1>3, <1>5, <2>1, <3>1, <3>2, <3>3 DEF JobsKnown
  <2>6. QED
    BY <1>6, <1>8, <1>10, <2>2, <2>3, <2>5
<1>12. CASE ~Full
  <2>1. /\ ring' \in [Slots -> Jobs \cup {NoJob}] /\ head' \in Slots /\ tail' \in Slots
        /\ \A s \in Slots : ring'[s] = IF s = tail THEN j ELSE ring[s]
        /\ RingDense'
    BY <1>1, <1>2, <1>12, PushDense
  <2>3. TypeOK'
    BY <1>2, <1>3, <1>5, <1>9, <2>1 DEF TypeOK, CapturedType
  <2>4. \A s \in Slots : ring[s] # NoJob => ring[s] \in Jobs
    BY DEF TypeOK
  <2>5. JobsKnown'
    <3>1. \A s \in Slots : ring'[s] # NoJob => ring'[s] <= handed' /\ outcome'[ring'[s]] # "dropped"
      <4> SUFFICES ASSUME NEW s \in Slots, ring'[s] # NoJob
                   PROVE  ring'[s] <= handed' /\ outcome'[ring'[s]] # "dropped"
        OBVIOUS
      <4>1. CASE s = tail
        BY <1>1, <1>2, <1>9, <1>12, <2>1, <4>1 DEF Jobs
      <4>2. CASE s # tail
        BY <1>4, <1>7, <2>1, <2>4, <4>2 DEF JobsKnown
      <4>3. QED
        BY <4>1, <4>2
    <3>2. current # NoJob => current <= handed' /\ outcome'[current] # "dropped"
      BY <1>4, <1>7 DEF JobsKnown, TypeOK
    <3>3. \A i \in Jobs : i > handed' => outcome'[i] = "none"
      BY <1>1, <1>2, <1>7 DEF JobsKnown, Jobs, j
    <3>4. QED
      BY <1>3, <1>5, <3>1, <3>2, <3>3 DEF JobsKnown
  <2>6. QED
    BY <1>6, <1>8, <1>10, <2>1, <2>3, <2>5
<1>13. QED
  BY <1>11, <1>12

\* A job ends, with its flags written or freed.
LEMMA EndKeeps ==
  ASSUME RingInv, current # NoJob, NEW reply \in BOOLEAN,
         Settle(current, reply, reply) \/ Release(current),
         current' = NoJob, stack' = <<>>,
         restartPending' \in BOOLEAN, unread' \in BOOLEAN,
         UNCHANGED <<ringVars, failed, handed, async, mtls>>
  PROVE  RingInv'
<1> USE DEF RingInv
<1>1. current \in Jobs /\ current <= handed
  BY DEF TypeOK, JobsKnown
<1>2. /\ captured' \in CapturedType /\ outcome' \in [Jobs -> Outcomes]
      /\ \A k \in Jobs : k # current => outcome'[k] = outcome[k]
      /\ outcome'[current] \in Ended
      /\ AnswersHonest'
  BY <1>1, SettleKeeps
<1>3. UNCHANGED <<ring, head, tail>>
  BY DEF ringVars
<1>4. stack' \in Seq([job : Jobs \cup {Console}, erred : BOOLEAN]) /\ Len(stack') = 0
  OBVIOUS
<1>5. TypeOK'
  BY <1>2, <1>3, <1>4, RingAssumption DEF TypeOK, CapturedType
<1>6. JobsKnown'
  <2>1. \A k \in Jobs : outcome[k] # "dropped" => outcome'[k] # "dropped"
    BY <1>2 DEF Ended
  <2>2. \A k \in Jobs : k > handed => k # current
    BY <1>1 DEF TypeOK, Jobs
  <2>3. \A s \in Slots : ring[s] # NoJob => ring[s] \in Jobs
    BY DEF TypeOK
  <2>4. QED
    BY <1>2, <1>3, <2>1, <2>2, <2>3 DEF JobsKnown
<1>7. RingDense'
  BY <1>3 DEF RingDense, Between
<1>8. 1..Len(stack') = {}
  BY <1>4
<1>9. StackSound' /\ NoBorrowedAuthority'
  BY <1>8 DEF StackSound, NoBorrowedAuthority
<1>10. QED
  BY <1>2, <1>5, <1>6, <1>7, <1>9

\* A command is entered, by the dispatched job or by the console.
LEMMA EnterKeeps ==
  ASSUME RingInv, NEW who \in Jobs \cup {Console}, Enter(who),
         who # Console => Dispatching /\ who = current /\ Allowed(who)
  PROVE  RingInv'
<1> USE DEF RingInv
<1> DEFINE n     == Len(stack)
           frame == [job |-> who, erred |-> FALSE]
<1>1. stack \in Seq(Frames) /\ n \in Nat /\ frame \in Frames /\ n < NestMax
  BY DEF TypeOK, Frames, Enter
<1>2. /\ stack' \in Seq(Frames) /\ Len(stack') = n + 1
      /\ \A i \in 1..n : stack'[i] = stack[i]
      /\ stack'[n + 1] = frame
  BY <1>1, AppendProperties DEF Enter
<1>3. /\ failed' = [failed EXCEPT ![n + 1] = FALSE] /\ n + 1 \in 1..NestMax
      /\ failed' \in [1..NestMax -> BOOLEAN]
  BY <1>1, RingAssumption DEF TypeOK, Enter
<1>4. UNCHANGED <<ring, head, tail, current, handed, captured, outcome, async, mtls,
                  restartPending, unread>>
  BY DEF Enter, ringVars, jobVars
<1>5. TypeOK'
  BY <1>1, <1>2, <1>3, <1>4, RingAssumption DEF TypeOK, Frames
<1>8. who # Console => n = 0
  BY DEF Dispatching
<1> HIDE DEF n
<1>6. \A i \in 1..n : i \in 1..NestMax /\ failed'[i] = failed[i]
  <2>1. \A i \in 1..n : i \in 1..NestMax /\ i # n + 1
    BY <1>1, RingAssumption
  <2>2. QED
    BY <1>3, <2>1 DEF TypeOK
<1>7. failed'[n + 1] = FALSE
  BY <1>3 DEF TypeOK
<1>9. 1..Len(stack') = 1..n \cup {n + 1}
  BY <1>1, <1>2
<1>10. StackSound'
  <2>1. \A i \in 1..n :
          /\ stack'[i].job # Console => i = 1 /\ stack'[i].job = current
          /\ failed'[i] = stack'[i].erred
    BY <1>2, <1>6 DEF StackSound, n
  <2>2. frame.job = who /\ frame.erred = FALSE
    OBVIOUS
  <2>3. who # Console => n + 1 = 1 /\ who = current
    BY <1>8
  <2>4. /\ stack'[n + 1].job # Console => n + 1 = 1 /\ stack'[n + 1].job = current
        /\ failed'[n + 1] = stack'[n + 1].erred
    BY <1>2, <1>7, <2>2, <2>3
  <2>5. \A i \in 1..Len(stack') :
          /\ stack'[i].job # Console => i = 1 /\ stack'[i].job = current
          /\ failed'[i] = stack'[i].erred
    <3> SUFFICES ASSUME NEW i \in 1..Len(stack')
                 PROVE  /\ stack'[i].job # Console => i = 1 /\ stack'[i].job = current
                        /\ failed'[i] = stack'[i].erred
      OBVIOUS
    <3>1. i \in 1..n \/ i = n + 1
      BY <1>9
    <3>2. CASE i \in 1..n
      BY <2>1, <3>2
    <3>3. CASE i = n + 1
      BY <2>4, <3>3
    <3>4. QED
      BY <3>1, <3>2, <3>3
  <2>6. QED
    BY <1>4, <2>5 DEF StackSound
<1>11. NoBorrowedAuthority'
  <2>1. \A i \in 1..n : stack'[i].job # Console /\ captured'[stack'[i].job].kind = "admin"
                           => captured'[stack'[i].job].mtls
    BY <1>2, <1>4 DEF NoBorrowedAuthority, Kind, n
  <2>2. who # Console /\ captured'[who].kind = "admin" => captured'[who].mtls
    BY <1>4 DEF Allowed, Kind
  <2>3. QED
    BY <1>2, <1>9, <2>1, <2>2 DEF NoBorrowedAuthority, Kind
<1>12. JobsKnown' /\ RingDense' /\ AnswersHonest'
  BY <1>4 DEF JobsKnown, RingDense, Between, AnswersHonest, Told
<1>13. QED
  BY <1>5, <1>10, <1>11, <1>12

\* Shell::fail marks the innermost command and its own level's flag.
LEMMA FailKeeps ==
  ASSUME RingInv, HandlerFails
  PROVE  RingInv'
<1> USE DEF RingInv
<1> DEFINE n     == Len(stack)
           frame == [stack[n] EXCEPT !.erred = TRUE]
<1>1. stack \in Seq(Frames) /\ n \in 1..NestMax /\ n \in 1..Len(stack)
  BY RingAssumption DEF TypeOK, Frames, HandlerFails
<1>2. stack[n] \in Frames
  BY <1>1, FrameType
<1>3. frame \in Frames /\ frame.job = stack[n].job /\ frame.erred = TRUE
  BY <1>2 DEF Frames
<1>4. stack' = [stack EXCEPT ![n] = frame]
  BY <1>1 DEF HandlerFails
<1>5. UNCHANGED <<ring, head, tail, current, handed, captured, outcome, async, mtls,
                  restartPending, unread>>
  BY DEF HandlerFails, ringVars, jobVars
<1>6. failed' = [failed EXCEPT ![n] = TRUE]
  BY DEF HandlerFails
<1> HIDE DEF frame, n
<1>7. /\ stack' \in Seq(Frames) /\ Len(stack') = n
      /\ \A i \in 1..n : stack'[i] = IF i = n THEN frame ELSE stack[i]
  BY <1>1, <1>3, <1>4, ExceptSeq DEF n
<1>8. /\ failed' \in [1..NestMax -> BOOLEAN] /\ n <= NestMax
      /\ \A i \in 1..n : failed'[i] = IF i = n THEN TRUE ELSE failed[i]
  <2>1. n <= NestMax /\ \A i \in 1..n : i \in 1..NestMax
    BY <1>1, RingAssumption
  <2>2. QED
    BY <1>1, <1>6, <2>1 DEF TypeOK
<1>9. TypeOK'
  BY <1>5, <1>7, <1>8 DEF TypeOK, Frames
<1>10. \A i \in 1..n : stack'[i].job = stack[i].job
  BY <1>3, <1>7
<1>11. StackSound'
  BY <1>3, <1>5, <1>7, <1>8, <1>10 DEF StackSound, n
<1>12. NoBorrowedAuthority'
  BY <1>5, <1>7, <1>10 DEF NoBorrowedAuthority, Kind, n
<1>13. JobsKnown' /\ RingDense' /\ AnswersHonest'
  BY <1>5 DEF JobsKnown, RingDense, Between, AnswersHonest, Told
<1>14. QED
  BY <1>9, <1>11, <1>12, <1>13

\* The innermost command returns: the console's leaves the job alone, the job's
\* own ends it.
LEMMA ReturnKeeps ==
  ASSUME RingInv, HandlerReturns
  PROVE  RingInv'
<1> USE DEF RingInv
<1> DEFINE n   == Len(stack)
           top == stack[n]
<1>1. stack \in Seq(Frames) /\ n \in 1..NestMax /\ n \in 1..Len(stack)
  BY RingAssumption DEF TypeOK, Frames, HandlerReturns
<1>2. top \in Frames
  BY <1>1, FrameType
<1>3. /\ stack' = SubSeq(stack, 1, n - 1) /\ n - 1 \in Int
      /\ \A i \in 1..(n - 1) : i \in 1..Len(stack) /\ stack[i] \in Frames
  BY <1>1, FrameType DEF HandlerReturns
<1>4. stack' \in Seq(Frames) /\ Len(stack') = n - 1
  <2> HIDE DEF n
  <2>1. 1 \in Int /\ (IF 1 <= n - 1 THEN (n - 1) - 1 + 1 ELSE 0) = n - 1
    BY <1>1
  <2>2. QED
    BY <1>3, <2>1, SubSeqProperties
<1>5. \A i \in 1..(n - 1) : stack'[i] = stack[i]
  <2>1. \A i \in 1..(n - 1) : stack'[i] = stack[1 + i - 1]
    BY <1>1, <1>3, SubSeqProperties
  <2>2. QED
    BY <1>1, <2>1
<1>6. CASE top.job = Console
  <2>1. UNCHANGED <<ring, head, tail, current, failed, handed, captured, outcome, async,
                    mtls, restartPending, unread>>
    BY <1>6 DEF HandlerReturns, ringVars
  <2>2. TypeOK'
    BY <1>1, <1>4, <2>1, RingAssumption DEF TypeOK, Frames
  <2>3. StackSound'
    BY <1>1, <1>3, <1>4, <1>5, <2>1 DEF StackSound
  <2>4. NoBorrowedAuthority'
    BY <1>1, <1>3, <1>4, <1>5, <2>1 DEF NoBorrowedAuthority, Kind
  <2>5. JobsKnown' /\ RingDense' /\ AnswersHonest'
    BY <2>1 DEF JobsKnown, RingDense, Between, AnswersHonest, Told
  <2>6. QED
    BY <2>2, <2>3, <2>4, <2>5
<1>7. CASE top.job # Console
  <2>1. n = 1 /\ top.job = current /\ current # NoJob
    BY <1>1, <1>7, OnStack
  <2>2. failed[n] = top.erred /\ failed[n] \in BOOLEAN
    BY <1>1 DEF StackSound, TypeOK
  <2>3. Settle(current, ~failed[n], ~failed[n])
    BY <1>7, <2>1, <2>2 DEF HandlerReturns
  <2>4. stack' = <<>>
    BY <1>4, <2>1
  <2>5. /\ current' = NoJob
        /\ UNCHANGED <<ringVars, failed, handed, async, mtls, restartPending, unread>>
    BY <1>7 DEF HandlerReturns
  <2>6. (~failed[n]) \in BOOLEAN
    BY <2>2
  <2> HIDE DEF n, top
  <2>7. QED
    BY <2>1, <2>3, <2>4, <2>5, <2>6, EndKeeps DEF TypeOK
<1>8. QED
  BY <1>6, <1>7

\* Shell::loop takes the oldest job out of its slot.
LEMMA DrainKeeps ==
  ASSUME RingInv, Drain
  PROVE  RingInv'
<1> USE DEF RingInv
<1>1. /\ ring' \in [Slots -> Jobs \cup {NoJob}] /\ head' \in Slots /\ tail' \in Slots
      /\ \A s \in Slots : ring'[s] = IF s = head THEN NoJob ELSE ring[s]
      /\ RingDense'
  BY PopDense
<1>2. UNCHANGED <<stack, failed, handed, captured, outcome, async, mtls, restartPending,
                  unread>>
  BY DEF Drain, jobVars
<1>3. current' = ring[head] /\ head \in Slots /\ ring[head] # NoJob /\ stack = <<>>
  BY DEF Drain, TypeOK
<1>4. current' \in Jobs /\ current' <= handed /\ outcome[current'] # "dropped"
  BY <1>3 DEF TypeOK, JobsKnown
<1>5. TypeOK'
  BY <1>1, <1>2, <1>4 DEF TypeOK
<1>6. JobsKnown'
  BY <1>1, <1>2, <1>4 DEF JobsKnown
<1>7. 1..Len(stack') = {}
  BY <1>2, <1>3
<1>8. StackSound' /\ NoBorrowedAuthority'
  BY <1>7 DEF StackSound, NoBorrowedAuthority
<1>9. AnswersHonest'
  BY <1>2 DEF AnswersHonest, Told
<1>10. QED
  BY <1>1, <1>5, <1>6, <1>8, <1>9

\* The waiting request reads its flags and frees them.
LEMMA PollKeeps ==
  ASSUME RingInv, Poll
  PROVE  RingInv'
<1> USE DEF RingInv
<1>1. /\ async \in Jobs /\ captured[async].done /\ async' = NoJob
      /\ captured' = [captured EXCEPT ![async] = Freed]
      /\ outcome' = [outcome EXCEPT ![async] = "over"]
  BY DEF Poll, Release, TypeOK
<1>2. UNCHANGED <<ring, head, tail, current, stack, failed, handed, mtls, restartPending,
                  unread>>
  BY DEF Poll, ringVars, loopVars
<1>3. captured' \in CapturedType /\ outcome' \in [Jobs -> Outcomes]
  BY <1>1, FreedType DEF TypeOK, CapturedType, Outcomes
<1>4. TypeOK'
  BY <1>1, <1>2, <1>3 DEF TypeOK, CapturedType
<1>5. \A k \in Jobs : /\ outcome[k] # "dropped" => outcome'[k] # "dropped"
                      /\ k # async => outcome'[k] = outcome[k]
  BY <1>1 DEF TypeOK
<1>6. async <= handed /\ handed \in Nat /\ NoJob <= handed
  BY DEF JobsKnown, TypeOK, NoJob
<1>7. JobsKnown'
  <2>1. \A s \in Slots : ring[s] # NoJob => ring[s] \in Jobs
    BY DEF TypeOK
  <2>2. \A k \in Jobs : k > handed => k # async
    BY <1>1, <1>6 DEF Jobs
  <2>3. QED
    BY <1>1, <1>2, <1>5, <1>6, <2>1, <2>2 DEF JobsKnown, TypeOK
<1>8. RingDense' /\ StackSound'
  BY <1>2 DEF RingDense, Between, StackSound
<1>9. AnswersHonest'
  BY <1>1 DEF AnswersHonest
<1>10. NoBorrowedAuthority'
  <2> SUFFICES ASSUME NEW i \in 1..Len(stack), stack[i].job # Console,
                      Kind(stack[i].job)' = "admin"
               PROVE  captured'[stack[i].job].mtls
    BY <1>2 DEF NoBorrowedAuthority
  <2>1. stack[i].job \in Jobs
    BY OnStack
  <2>2. captured'[stack[i].job].kind = "admin"
    BY <1>2 DEF Kind
  <2>3. stack[i].job # async
    BY <1>1, <2>1, <2>2, FreedType DEF TypeOK
  <2>4. captured'[stack[i].job] = captured[stack[i].job]
    BY <1>1, <2>1, <2>3 DEF TypeOK
  <2>5. QED
    BY <2>2, <2>4 DEF NoBorrowedAuthority, Kind
<1>11. QED
  BY <1>4, <1>7, <1>8, <1>9, <1>10

\* A fresh boot: empty ring, empty stack, nothing asked.
LEMMA RebootKeeps ==
  ASSUME RingInv, Reboot
  PROVE  RingInv'
<1> USE DEF RingInv
<1>1. /\ ring' = [s \in Slots |-> NoJob] /\ head' = 0 /\ tail' = 0 /\ current' = NoJob
      /\ stack' = <<>> /\ failed' = [d \in 1..NestMax |-> FALSE]
      /\ captured' = [j \in Jobs |-> Freed] /\ async' = NoJob /\ handed' = handed
      /\ mtls' = FALSE /\ restartPending' = FALSE /\ unread' = FALSE
  BY DEF Reboot
<1>2. /\ outcome' \in [Jobs -> Outcomes]
      /\ \A j \in Jobs : outcome[j] = "none" => outcome'[j] = "none"
  BY DEF Reboot, TypeOK, Outcomes
<1>3. 0 \in Slots
  BY RingAssumption DEF Slots
<1>4. captured' \in CapturedType
  BY <1>1, FreedType DEF CapturedType
<1>5. TypeOK'
  <2>1. ring' \in [Slots -> Jobs \cup {NoJob}] /\ failed' \in [1..NestMax -> BOOLEAN]
    BY <1>1
  <2>2. stack' \in Seq([job : Jobs \cup {Console}, erred : BOOLEAN]) /\ Len(stack') = 0
    BY <1>1
  <2>3. handed \in 0..MaxJobs /\ 0 <= NestMax
    BY RingAssumption DEF TypeOK
  <2>4. QED
    BY <1>1, <1>2, <1>3, <1>4, <2>1, <2>2, <2>3 DEF TypeOK, CapturedType
<1>6. handed \in Nat
  BY DEF TypeOK
<1>7. JobsKnown'
  BY <1>1, <1>2, <1>6 DEF JobsKnown, NoJob
<1>8. RingDense'
  BY <1>1, RingAssumption DEF RingDense, Between, Slots
<1>9. 1..Len(stack') = {}
  BY <1>1
<1>10. StackSound' /\ NoBorrowedAuthority'
  BY <1>9 DEF StackSound, NoBorrowedAuthority
<1>11. AnswersHonest'
  BY <1>1 DEF AnswersHonest
<1>12. QED
  BY <1>5, <1>7, <1>8, <1>10, <1>11

LEMMA RingInit == Init => RingInv
<1> SUFFICES ASSUME Init PROVE RingInv
  OBVIOUS
<1>1. 0 \in Slots
  BY RingAssumption DEF Slots
<1>2. captured \in CapturedType
  BY FreedType DEF Init, CapturedType
<1>3. TypeOK
  <2>1. /\ ring \in [Slots -> Jobs \cup {NoJob}] /\ failed \in [1..NestMax -> BOOLEAN]
        /\ outcome \in [Jobs -> Outcomes]
    BY DEF Init, Outcomes
  <2>2. stack \in Seq([job : Jobs \cup {Console}, erred : BOOLEAN]) /\ Len(stack) = 0
    BY DEF Init
  <2>3. 0 \in 0..MaxJobs /\ 0 <= NestMax
    BY RingAssumption
  <2>4. QED
    BY <1>1, <1>2, <2>1, <2>2, <2>3 DEF Init, TypeOK, CapturedType
<1>4. JobsKnown /\ AnswersHonest
  BY DEF Init, JobsKnown, AnswersHonest, NoJob
<1>5. RingDense
  BY RingAssumption DEF Init, RingDense, Between, Slots
<1>6. 1..Len(stack) = {}
  BY DEF Init
<1>7. QED
  BY <1>3, <1>4, <1>5, <1>6 DEF RingInv, StackSound, NoBorrowedAuthority

LEMMA RingNext == RingInv /\ [Next]_vars => RingInv'
<1> SUFFICES ASSUME RingInv, [Next]_vars PROVE RingInv'
  OBVIOUS
<1>t. TypeOK
  BY DEF RingInv
<1>1. ASSUME NEW k \in {"cmd", "config", "file"}, HttpRequest(k) PROVE RingInv'
  <2>1. /\ HandIn(k, FALSE)
        /\ UNCHANGED <<loopVars, mtls, restartPending, unread>>
        /\ async' \in {async, NoJob} \/ (~Full /\ async' = handed + 1)
    BY <1>1 DEF HttpRequest
  <2>2. QED
    BY <2>1, HandInKeeps
<1>2. CASE WsLine
  BY <1>2, HandInKeeps DEF WsLine
<1>3. ASSUME NEW k \in {"open", "admin"}, MqttCommand(k) PROVE RingInv'
  <2>1. mtls \in BOOLEAN
    BY <1>t DEF TypeOK
  <2>2. QED
    BY <1>3, <2>1, HandInKeeps DEF MqttCommand
<1>4. CASE ApiRestart \/ Reconnect \/ Timeout
  <2>1. /\ UNCHANGED <<ring, head, tail, current, stack, failed, handed, captured, outcome>>
        /\ async' \in {async, NoJob} /\ mtls' \in BOOLEAN /\ restartPending' \in BOOLEAN
        /\ unread' \in BOOLEAN
    BY <1>4, <1>t
       DEF ApiRestart, Reconnect, Timeout, ringVars, loopVars, jobVars, TypeOK
  <2>2. TypeOK'
    BY <1>t, <2>1 DEF TypeOK
  <2>3. JobsKnown'
    BY <1>t, <2>1 DEF RingInv, JobsKnown, TypeOK, NoJob
  <2>4. QED
    BY <2>1, <2>2, <2>3
       DEF RingInv, RingDense, Between, StackSound, AnswersHonest, Told,
           NoBorrowedAuthority, Kind
<1>5. CASE Poll
  BY <1>5, PollKeeps
<1>6. CASE Drain
  BY <1>6, DrainKeeps
<1>7. ASSUME NEW landed \in BOOLEAN, ConfigJob(landed) PROVE RingInv'
  <2>1. /\ current # NoJob /\ Settle(current, landed, landed) /\ current' = NoJob
        /\ stack' = <<>> /\ restartPending' \in BOOLEAN /\ unread' \in BOOLEAN
        /\ UNCHANGED <<ringVars, failed, handed, async, mtls>>
    BY <1>7, <1>t DEF ConfigJob, Dispatching, TypeOK
  <2>2. QED
    BY <2>1, EndKeeps
<1>8. CASE DenyJob \/ BinaryHandler
  <2>1. /\ current # NoJob /\ Release(current) /\ current' = NoJob
        /\ stack' = <<>> /\ restartPending' \in BOOLEAN /\ unread' \in BOOLEAN
        /\ UNCHANGED <<ringVars, failed, handed, async, mtls>>
    BY <1>8, <1>t DEF DenyJob, BinaryHandler, Dispatching, TypeOK
  <2>2. QED
    BY <2>1, EndKeeps
<1>9. CASE BadLine
  <2>1. /\ current # NoJob /\ Settle(current, FALSE, FALSE) /\ current' = NoJob
        /\ stack' = <<>> /\ restartPending' \in BOOLEAN /\ unread' \in BOOLEAN
        /\ UNCHANGED <<ringVars, failed, handed, async, mtls>>
    BY <1>9, <1>t DEF BadLine, Dispatching, TypeOK
  <2>2. QED
    BY <2>1, EndKeeps
<1>10. CASE RunLine
  <2>1. current \in Jobs /\ Dispatching /\ Allowed(current) /\ Enter(current)
    BY <1>10, <1>t DEF RunLine, IsLine, Dispatching, TypeOK
  <2>2. QED
    BY <2>1, EnterKeeps
<1>11. CASE ConsoleLine
  BY <1>11, EnterKeeps DEF ConsoleLine
<1>12. CASE HandlerFails
  BY <1>12, FailKeeps
<1>13. CASE HandlerReturns
  BY <1>13, ReturnKeeps
<1>14. CASE PlannedRestart \/ RestartCommand
  BY <1>14, RebootKeeps DEF PlannedRestart, RestartCommand
<1>15. CASE UNCHANGED vars
  BY <1>15
     DEF vars, ringVars, loopVars, jobVars, RingInv, TypeOK, JobsKnown, RingDense,
         Between, StackSound, AnswersHonest, Told, NoBorrowedAuthority, Kind
<1>16. QED
  BY <1>1, <1>2, <1>3, <1>4, <1>5, <1>6, <1>7, <1>8, <1>9, <1>10, <1>11, <1>12,
     <1>13, <1>14, <1>15 DEF Next

LEMMA RingAlways == Spec => []RingInv
BY RingInit, RingNext, PTL DEF Spec

-----------------------------------------------------------------------------
(* The jobs waiting, as a sequence.                                           *)

Distance == IF head <= tail THEN tail - head ELSE tail - head + RingSize
SlotOf(i) == Wrap(head + i - 1)
Entries == Jobs \cup {NoJob}

LEMMA IndexTypes ==
  ASSUME TypeOK
  PROVE  /\ head \in Nat /\ tail \in Nat /\ head < RingSize /\ tail < RingSize
         /\ RingSize \in Nat
BY RingAssumption DEF TypeOK, Slots

WaitingFacts ==
  /\ Distance \in Nat /\ Distance < RingSize
  /\ Waiting \in Seq(Entries) /\ Len(Waiting) = Distance
  /\ \A i \in 1..Distance : SlotOf(i) \in Slots /\ Waiting[i] = ring[SlotOf(i)]

LEMMA WaitingIs == TypeOK => WaitingFacts
<1> SUFFICES ASSUME TypeOK PROVE WaitingFacts
  OBVIOUS
<1>1. Distance \in Nat /\ Distance < RingSize
  BY IndexTypes DEF Distance
<1>2. (tail - head + RingSize) % RingSize = Distance
  <2>1. tail - head + RingSize \in Nat /\ tail - head + RingSize < RingSize + RingSize
    BY IndexTypes DEF TypeOK
  <2>2. QED
    BY <2>1, WrapIsMod, IndexTypes DEF Wrap, Distance
<1>3. \A i \in 1..Distance : /\ SlotOf(i) \in Slots
                             /\ (head + i - 1) % RingSize = SlotOf(i)
  <2> SUFFICES ASSUME NEW i \in 1..Distance
               PROVE  SlotOf(i) \in Slots /\ (head + i - 1) % RingSize = SlotOf(i)
    OBVIOUS
  <2>1. head + i - 1 \in Nat /\ head + i - 1 < RingSize + RingSize
    BY <1>1, IndexTypes
  <2>2. (head + i - 1) % RingSize = SlotOf(i)
    BY <2>1, WrapIsMod DEF SlotOf
  <2>3. SlotOf(i) \in Slots
    BY <2>1, IndexTypes DEF SlotOf, Wrap, Slots
  <2>4. QED
    BY <2>2, <2>3
<1>4. Waiting = [i \in 1..Distance |-> ring[SlotOf(i)]]
  BY <1>2, <1>3 DEF Waiting
<1>5. \A i \in 1..Distance : ring[SlotOf(i)] \in Entries
  BY <1>3 DEF TypeOK, Entries
<1> HIDE DEF Distance, SlotOf
<1>6. Waiting \in Seq(Entries) /\ Len(Waiting) = Distance
  BY <1>1, <1>4, <1>5
<1>7. QED
  BY <1>1, <1>3, <1>4, <1>6 DEF WaitingFacts

\* Filling the slot at tail appends to the sequence.
LEMMA PushAppends ==
  ASSUME RingInv, TypeOK', NEW j \in Jobs, Push(j), ~Full
  PROVE  Waiting' = Append(Waiting, j) /\ Len(Waiting) < RingSize - 1
<1> USE DEF RingInv
<1>1. ring' = [ring EXCEPT ![tail] = j] /\ tail' = Wrap(tail + 1) /\ head' = head
  BY SuccIsWrap DEF Push, TypeOK
<1>2. Wrap(tail + 1) # head
  BY SuccIsWrap DEF Full, TypeOK
<1>3. Distance' = Distance + 1 /\ Distance < RingSize - 1
  BY <1>1, <1>2, IndexTypes DEF Distance, Wrap
<1>4. \A i \in 1..Distance : SlotOf(i)' = SlotOf(i) /\ SlotOf(i) # tail
  BY <1>1, <1>2, IndexTypes DEF Distance, SlotOf, Wrap
<1>5. SlotOf(Distance)' = tail
  BY <1>1, <1>2, <1>3, IndexTypes DEF Distance, SlotOf, Wrap
<1>6. /\ Distance \in Nat /\ Waiting \in Seq(Entries) /\ Len(Waiting) = Distance
      /\ \A i \in 1..Distance : SlotOf(i) \in Slots /\ Waiting[i] = ring[SlotOf(i)]
  BY WaitingIs DEF WaitingFacts
<1>7. /\ Waiting' \in Seq(Entries) /\ Len(Waiting') = Distance'
      /\ \A i \in 1..Distance' : Waiting'[i] = ring'[SlotOf(i)']
  <2>1. WaitingFacts'
    BY WaitingIs, PTL
  <2>2. QED
    BY <2>1 DEF WaitingFacts
<1>8. /\ j \in Entries /\ tail \in Slots
      /\ \A s \in Slots : ring'[s] = IF s = tail THEN j ELSE ring[s]
  BY <1>1 DEF TypeOK, Entries
<1> HIDE DEF Distance, SlotOf, RingInv
<1>9. /\ Append(Waiting, j) \in Seq(Entries) /\ Len(Append(Waiting, j)) = Distance + 1
      /\ \A i \in 1..Distance : Append(Waiting, j)[i] = Waiting[i]
      /\ Append(Waiting, j)[Distance + 1] = j
  BY <1>6, <1>8, AppendProperties
<1>10. \A i \in 1..(Distance + 1) : Waiting'[i] = Append(Waiting, j)[i]
  <2> SUFFICES ASSUME NEW i \in 1..(Distance + 1) PROVE Waiting'[i] = Append(Waiting, j)[i]
    OBVIOUS
  <2>1. CASE i = Distance + 1
    <3>1. Distance' \in 1..Distance' /\ i = Distance'
      BY <1>3, <1>6, <2>1
    <3>2. Waiting'[Distance'] = ring'[SlotOf(Distance)']
      BY <1>7, <3>1
    <3>3. QED
      BY <1>5, <1>8, <1>9, <2>1, <3>1, <3>2
  <2>2. CASE i \in 1..Distance
    BY <1>3, <1>4, <1>6, <1>7, <1>8, <1>9, <2>2
  <2>3. QED
    BY <1>6, <2>1, <2>2
<1> HIDE DEF Waiting
<1>11. Waiting' = Append(Waiting, j)
  BY <1>3, <1>7, <1>9, <1>10, SeqEqual
<1>12. QED
  BY <1>3, <1>6, <1>11

\* Emptying the slot at head takes the first of the sequence.
LEMMA PopTakesFirst ==
  ASSUME RingInv, TypeOK', Drain
  PROVE  Waiting # <<>> /\ current' = Head(Waiting) /\ Waiting' = Tail(Waiting)
<1> USE DEF RingInv
<1>1. /\ ring' = [ring EXCEPT ![head] = NoJob] /\ head' = Wrap(head + 1) /\ tail' = tail
      /\ head # tail /\ current' = ring[head]
  BY SuccIsWrap DEF Drain, TypeOK
<1>2. Distance' = Distance - 1 /\ Distance > 0
  BY <1>1, IndexTypes DEF Distance, Wrap
<1>3. \A i \in 1..Distance' : SlotOf(i)' = SlotOf(i + 1) /\ SlotOf(i + 1) # head
  BY <1>1, IndexTypes DEF Distance, SlotOf, Wrap
<1>4. SlotOf(1) = head
  BY IndexTypes DEF SlotOf, Wrap
<1>5. /\ Distance \in Nat /\ Waiting \in Seq(Entries) /\ Len(Waiting) = Distance
      /\ \A i \in 1..Distance : SlotOf(i) \in Slots /\ Waiting[i] = ring[SlotOf(i)]
  BY WaitingIs DEF WaitingFacts
<1>6. /\ Waiting' \in Seq(Entries) /\ Len(Waiting') = Distance'
      /\ \A i \in 1..Distance' : Waiting'[i] = ring'[SlotOf(i)']
  <2>1. WaitingFacts'
    BY WaitingIs, PTL
  <2>2. QED
    BY <2>1 DEF WaitingFacts
<1>7. \A s \in Slots : s # head => ring'[s] = ring[s]
  BY <1>1 DEF TypeOK
<1> HIDE DEF Distance, SlotOf, RingInv, Waiting
<1>8. Waiting # <<>>
  BY <1>2, <1>5
<1>9. /\ Tail(Waiting) \in Seq(Entries) /\ Len(Tail(Waiting)) = Distance - 1
      /\ \A i \in 1..(Distance - 1) : Tail(Waiting)[i] = Waiting[i + 1]
  BY <1>5, <1>8, HeadTailProperties
<1>10. \A i \in 1..Distance' : Waiting'[i] = Tail(Waiting)[i]
  <2> SUFFICES ASSUME NEW i \in 1..Distance' PROVE Waiting'[i] = Tail(Waiting)[i]
    OBVIOUS
  <2>1. i \in 1..(Distance - 1) /\ i + 1 \in 1..Distance
    BY <1>2, <1>5
  <2>2. Waiting'[i] = ring[SlotOf(i + 1)]
    BY <1>3, <1>5, <1>6, <1>7, <2>1
  <2>3. QED
    BY <1>5, <1>9, <2>1, <2>2
<1>11. Waiting' = Tail(Waiting)
  BY <1>2, <1>6, <1>9, <1>10, SeqEqual
<1>12. Head(Waiting) = Waiting[1] /\ 1 \in 1..Distance
  BY <1>2, <1>5
<1>13. QED
  BY <1>1, <1>4, <1>5, <1>8, <1>11, <1>12

-----------------------------------------------------------------------------
(* Each step of the ring is a step of the queue, or none.                     *)

AcceptedJobs == {j \in 1..handed : outcome[j] # "dropped"}
FinishedJobs == {j \in Jobs : outcome[j] \in {"ok", "fail", "over"}}

LEMMA HandInRefines ==
  ASSUME RingInv, TypeOK', NEW k, NEW session \in BOOLEAN, HandIn(k, session),
         UNCHANGED current
  PROVE  [Service!Next]_(Service!vars)
<1> USE DEF RingInv
<1> DEFINE j == handed + 1
<1>1. /\ handed \in Nat /\ j \in Jobs /\ handed' = j /\ Push(j)
      /\ 1..handed \subseteq Jobs /\ 1..handed' = 1..handed \cup {j} /\ j \notin 1..handed
  BY RingAssumption DEF HandIn, TypeOK, Jobs
<1>2. outcome[j] = "none"
  BY <1>1 DEF JobsKnown, Jobs
<1>3. \A i \in Jobs : i # j => outcome'[i] = outcome[i]
  BY <1>1 DEF HandIn, TypeOK
<1>4. CASE Full
  <2>1. Waiting' = Waiting
    BY <1>1, <1>4 DEF Push, ringVars, Waiting
  <2>2. outcome'[j] = "dropped"
    BY <1>1, <1>4 DEF HandIn, TypeOK
  <2> HIDE DEF j
  <2>3. AcceptedJobs' = AcceptedJobs
    BY <1>1, <1>3, <2>2 DEF AcceptedJobs
  <2>4. FinishedJobs' = FinishedJobs
    BY <1>1, <1>2, <1>3, <2>2 DEF FinishedJobs
  <2>5. QED
    BY <2>1, <2>3, <2>4 DEF Service!vars, AcceptedJobs, FinishedJobs
<1>5. CASE ~Full
  <2>1. Waiting' = Append(Waiting, j) /\ Len(Waiting) < RingSize - 1
    BY <1>1, <1>5, PushAppends
  <2>2. outcome' = outcome
    BY <1>5 DEF HandIn
  <2> HIDE DEF j
  <2>3. AcceptedJobs' = AcceptedJobs \cup {j} /\ j \notin AcceptedJobs
    BY <1>1, <1>2, <2>2 DEF AcceptedJobs
  <2>4. FinishedJobs' = FinishedJobs
    BY <2>2 DEF FinishedJobs
  <2>5. Service!Accept(j)
    BY <2>1, <2>3, <2>4 DEF Service!Accept, AcceptedJobs, FinishedJobs
  <2>6. QED
    BY <1>1, <2>5 DEF Service!Next, Service!Accept
<1>6. QED
  BY <1>4, <1>5

LEMMA EndRefines ==
  ASSUME RingInv, current # NoJob, NEW reply \in BOOLEAN,
         Settle(current, reply, reply) \/ Release(current),
         current' = NoJob, UNCHANGED <<ringVars, handed, async>>
  PROVE  Service!Finish
<1> USE DEF RingInv
<1>1. current \in Jobs /\ outcome[current] # "dropped"
  BY DEF TypeOK, JobsKnown
<1>2. /\ \A k \in Jobs : k # current => outcome'[k] = outcome[k]
      /\ outcome'[current] \in Ended
  BY <1>1, SettleKeeps
<1>3. Waiting' = Waiting
  BY DEF ringVars, Waiting
<1>4. 1..handed \subseteq Jobs
  BY RingAssumption DEF TypeOK, Jobs
<1>5. AcceptedJobs' = AcceptedJobs
  BY <1>1, <1>2, <1>4 DEF AcceptedJobs, Ended
<1>6. FinishedJobs' = FinishedJobs \cup {current}
  BY <1>1, <1>2 DEF FinishedJobs, Ended
<1>7. QED
  BY <1>3, <1>5, <1>6 DEF Service!Finish, AcceptedJobs, FinishedJobs

LEMMA RebootRefines ==
  ASSUME RingInv, TypeOK', Reboot
  PROVE  Service!Reset
<1> USE DEF RingInv
<1>1. head' = 0 /\ tail' = 0 /\ current' = NoJob /\ handed' = handed
  BY DEF Reboot
<1>2. \A j \in Jobs : /\ outcome'[j] = "dropped" <=> outcome[j] = "dropped"
                      /\ outcome'[j] \in Ended <=> outcome[j] \in Ended
  BY DEF Reboot, Ended
<1>3. 1..handed \subseteq Jobs
  BY RingAssumption DEF TypeOK, Jobs
<1>4. WaitingFacts'
  BY WaitingIs, PTL
<1>5. Distance' = 0
  BY <1>1 DEF Distance
<1>6. Waiting' = <<>>
  BY <1>4, <1>5 DEF WaitingFacts
<1>7. AcceptedJobs' = AcceptedJobs
  BY <1>1, <1>2, <1>3 DEF AcceptedJobs
<1>8. FinishedJobs' = FinishedJobs
  BY <1>2 DEF FinishedJobs, Ended
<1>9. QED
  BY <1>1, <1>6, <1>7, <1>8 DEF Service!Reset, AcceptedJobs, FinishedJobs

\* Steps the queue does not see.
LEMMA Unseen ==
  ASSUME UNCHANGED <<ringVars, current, handed, outcome>>
  PROVE  UNCHANGED Service!vars
<1>1. Waiting' = Waiting
  BY DEF ringVars, Waiting
<1>2. QED
  BY <1>1 DEF Service!vars

LEMMA StepRefines ==
  ASSUME RingInv, RingInv', [Next]_vars
  PROVE  [Service!Next]_(Service!vars)
<1>t. TypeOK /\ TypeOK'
  BY DEF RingInv
<1>1. ASSUME NEW k \in {"cmd", "config", "file"}, HttpRequest(k)
      PROVE  [Service!Next]_(Service!vars)
  BY <1>1, <1>t, HandInRefines DEF HttpRequest, loopVars
<1>2. CASE WsLine
  BY <1>2, <1>t, HandInRefines DEF WsLine, loopVars
<1>3. ASSUME NEW k \in {"open", "admin"}, MqttCommand(k)
      PROVE  [Service!Next]_(Service!vars)
  <2>1. mtls \in BOOLEAN
    BY <1>t DEF TypeOK
  <2>2. QED
    BY <1>3, <1>t, <2>1, HandInRefines DEF MqttCommand, loopVars
<1>4. CASE ApiRestart \/ Reconnect \/ Timeout
  BY <1>4, Unseen DEF ApiRestart, Reconnect, Timeout, loopVars, jobVars
<1>5. CASE Poll
  <2>1. /\ async \in Jobs /\ captured[async].done /\ current' = current
        /\ handed' = handed /\ outcome' = [outcome EXCEPT ![async] = "over"]
        /\ UNCHANGED <<ring, head, tail>>
    BY <1>5, <1>t DEF Poll, Release, TypeOK, loopVars, ringVars
  <2>2. outcome[async] \in {"ok", "fail"}
    BY <1>5, <2>1 DEF RingInv, AnswersHonest, Told, Poll
  <2>3. \A j \in Jobs : /\ outcome'[j] = "dropped" <=> outcome[j] = "dropped"
                        /\ outcome'[j] \in Ended <=> outcome[j] \in Ended
    BY <1>t, <2>1, <2>2 DEF TypeOK, Ended
  <2>4. 1..handed \subseteq Jobs
    BY <1>t, RingAssumption DEF TypeOK, Jobs
  <2>5. AcceptedJobs' = AcceptedJobs /\ FinishedJobs' = FinishedJobs
    BY <2>1, <2>3, <2>4 DEF AcceptedJobs, FinishedJobs, Ended
  <2>6. Waiting' = Waiting
    BY <2>1 DEF Waiting
  <2>7. QED
    BY <2>1, <2>5, <2>6 DEF Service!vars, AcceptedJobs, FinishedJobs
<1>6. CASE Drain
  <2>1. Waiting # <<>> /\ current' = Head(Waiting) /\ Waiting' = Tail(Waiting)
    BY <1>6, <1>t, PopTakesFirst
  <2>2. current = NoJob /\ UNCHANGED <<handed, outcome>>
    BY <1>6 DEF Drain, jobVars
  <2>3. Service!Start
    BY <2>1, <2>2 DEF Service!Start
  <2>4. QED
    BY <2>3 DEF Service!Next
<1>7. ASSUME NEW landed \in BOOLEAN, ConfigJob(landed)
      PROVE  [Service!Next]_(Service!vars)
  <2>1. /\ current # NoJob /\ Settle(current, landed, landed) /\ current' = NoJob
        /\ UNCHANGED <<ringVars, handed, async>>
    BY <1>7 DEF ConfigJob, Dispatching
  <2>2. QED
    BY <2>1, EndRefines DEF Service!Next
<1>8. CASE DenyJob \/ BinaryHandler \/ BadLine
  <2>1. /\ current # NoJob /\ current' = NoJob
        /\ Settle(current, FALSE, FALSE) \/ Release(current)
        /\ UNCHANGED <<ringVars, handed, async>>
    BY <1>8 DEF DenyJob, BinaryHandler, BadLine, Dispatching
  <2>2. QED
    BY <2>1, EndRefines DEF Service!Next
<1>9. CASE RunLine \/ ConsoleLine \/ HandlerFails
  BY <1>9, Unseen DEF RunLine, ConsoleLine, Enter, HandlerFails, jobVars
<1>10. CASE HandlerReturns
  <2> DEFINE n == Len(stack)
  <2>1. n \in 1..NestMax /\ n \in 1..Len(stack)
    BY <1>10, <1>t, RingAssumption DEF TypeOK, HandlerReturns
  <2>2. CASE stack[n].job = Console
    BY <1>10, <2>2, Unseen DEF HandlerReturns
  <2>3. CASE stack[n].job # Console
    <3>1. stack[n].job = current /\ current # NoJob
      BY <1>t, <2>1, <2>3, OnStack DEF RingInv
    <3>2. failed[n] = stack[n].erred /\ (~failed[n]) \in BOOLEAN
      BY <2>1 DEF RingInv, StackSound
    <3>3. /\ Settle(current, ~failed[n], ~failed[n]) /\ current' = NoJob
          /\ UNCHANGED <<ringVars, handed, async>>
      BY <1>10, <2>3, <3>1, <3>2 DEF HandlerReturns
    <3> HIDE DEF n
    <3>4. QED
      BY <3>1, <3>2, <3>3, EndRefines DEF Service!Next
  <2>4. QED
    BY <2>2, <2>3
<1>11. CASE PlannedRestart \/ RestartCommand
  BY <1>11, <1>t, RebootRefines DEF PlannedRestart, RestartCommand, Service!Next
<1>12. CASE UNCHANGED vars
  BY <1>12, Unseen DEF vars, ringVars, loopVars, jobVars
<1>13. QED
  BY <1>1, <1>2, <1>3, <1>4, <1>5, <1>6, <1>7, <1>8, <1>9, <1>10, <1>11, <1>12 DEF Next

LEMMA InitRefines == Init => Service!Init
<1> SUFFICES ASSUME Init PROVE Service!Init
  OBVIOUS
<1>1. WaitingFacts
  BY RingInit, WaitingIs DEF RingInv
<1>2. Distance = 0
  BY DEF Init, Distance
<1>3. Waiting = <<>>
  BY <1>1, <1>2 DEF WaitingFacts
<1>4. QED
  BY <1>3 DEF Init, Service!Init

-----------------------------------------------------------------------------
(* The theorems.                                                              *)

\* Indices, slots, the stack and the jobs' flags stay within their types: no
\* index leaves the array and no line runs past the deepest level.
THEOREM TypeCorrect == Spec => []TypeOK
BY RingAlways, PTL DEF RingInv

\* A request that is about to be answered is told its own job's outcome,
\* whatever console lines failed or succeeded inside the job.
THEOREM HonestAnswers == Spec => []AnswersHonest
BY RingAlways, PTL DEF RingInv

\* An administrator's command runs only for a session that spoke it with a
\* certificate, however often the session is dialled again while it waits.
THEOREM OwnAuthority == Spec => []NoBorrowedAuthority
BY RingAlways, PTL DEF RingInv

\* The drain never waits on an empty slot: while the indices differ, the slot
\* at head holds a job, so Shell::loop's test of `active` never skips a pass
\* that jobs further on would need.
THEOREM NeverWedged == Spec => [](head # tail => ring[head] # NoJob)
<1>1. RingInv => (head # tail => ring[head] # NoJob)
  <2> SUFFICES ASSUME RingInv, head # tail PROVE ring[head] # NoJob
    OBVIOUS
  <2>1. head \in Slots /\ Between(head)
    BY IndexTypes DEF RingInv, TypeOK, Between
  <2>2. QED
    BY <2>1 DEF RingInv, RingDense
<1>2. QED
  BY <1>1, RingAlways, PTL

\* The ring implements the queue: what waits in the slots is a first-in
\* first-out sequence of at most RingSize - 1 jobs, each accepted once and run
\* at most once, and a job the full ring turned away is never run.  This is
\* RingIsQueue without its fairness.
THEOREM RingImplementsQueue == Spec => Service!Spec
<1>1. RingInv /\ RingInv' /\ [Next]_vars => [Service!Next]_(Service!vars)
  BY StepRefines
<1>2. QED
  BY <1>1, InitRefines, RingAlways, PTL DEF Spec, Service!Spec
=============================================================================
