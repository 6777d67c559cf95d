--------------------------- MODULE CommandsProofs ---------------------------
(***************************************************************************)
(* The publish ring and the retained topics of a session, for every ring   *)
(* size, number of messages and send interval; and the pages of an answer, *)
(* for every output and page limit.                                        *)
(***************************************************************************)
EXTENDS MCCommands, SequenceTheorems, WellFoundedInduction, TLAPS

Wrap(a) == IF a < QueueSize THEN a ELSE a - QueueSize

\* The messages accepted are numbered as they were made, and nothing was sent
\* before it was made.
AcceptedInOrder ==
  /\ \A i \in 1..Len(accepted) : accepted[i] <= made
  /\ \A i, j \in 1..Len(accepted) : i < j => accepted[i] < accepted[j]
  /\ \A m \in received : m <= made

\* Around the array from first up to last lie the newest messages accepted, every
\* slot of them valid and none of them sent.
RingHoldsNewest ==
  /\ last = Wrap(first + count) /\ count <= Len(accepted)
  /\ \A k \in 1..count :
       /\ slots[Wrap(first + k - 1)].valid
       /\ slots[Wrap(first + k - 1)].msg = accepted[Len(accepted) - count + k]
       /\ accepted[Len(accepted) - count + k] \notin received

\* A topic the broker holds is recorded, and a manifest that is out and not
\* marked lists what is recorded.
TopicsRecorded ==
  /\ held \subseteq retained
  /\ published /\ ~dirty => retained \subseteq listed

QueueTyped ==
  /\ slots \in [Session!Slots -> [msg : 0..MaxMsgs, valid : BOOLEAN]]
  /\ first \in Session!Slots /\ last \in Session!Slots /\ count \in 0..QueueSize
  /\ made \in 0..MaxMsgs /\ accepted \in Seq(Session!Msgs) /\ received \subseteq Session!Msgs

TopicsTyped ==
  /\ retained \subseteq Session!Topics /\ held \subseteq Session!Topics
  /\ listed \subseteq Session!Topics /\ published \in BOOLEAN /\ dirty \in BOOLEAN

FlagsTyped ==
  /\ up \in BOOLEAN /\ gap \in BOOLEAN /\ cellular \in BOOLEAN
  /\ seen \in BOOLEAN /\ done \in BOOLEAN

QueueInv  == QueueTyped /\ AcceptedInOrder /\ RingHoldsNewest
TopicsInv == TopicsTyped /\ TopicsRecorded

SessionInv == QueueInv /\ TopicsInv /\ FlagsTyped

-----------------------------------------------------------------------------
(* Counting around the array.                                                 *)

LEMMA WrapIsMod ==
  ASSUME NEW a \in Nat, a < QueueSize + QueueSize
  PROVE  a % QueueSize = Wrap(a)
BY SessionAssumption DEF Wrap

LEMMA WrapInSlots ==
  ASSUME NEW a \in Nat, a < QueueSize + QueueSize
  PROVE  Wrap(a) \in Session!Slots
BY SessionAssumption DEF Wrap, Session!Slots

LEMMA SuccIsWrap ==
  ASSUME NEW i \in Session!Slots
  PROVE  Session!Succ(i) = Wrap(i + 1) /\ Session!Succ(i) \in Session!Slots
<1>1. i + 1 \in Nat /\ i + 1 < QueueSize + QueueSize
  BY SessionAssumption DEF Session!Slots
<1>2. QED
  BY <1>1, WrapIsMod, WrapInSlots DEF Session!Succ

LEMMA QueueFacts ==
  ASSUME QueueTyped
  PROVE  /\ first \in Nat /\ first < QueueSize /\ last \in Nat /\ last < QueueSize
         /\ count \in Nat /\ count <= QueueSize /\ made \in Nat /\ made <= MaxMsgs
         /\ QueueSize \in Nat /\ QueueSize > 0 /\ MaxMsgs \in Nat
         /\ Len(accepted) \in Nat
         /\ \A i \in 1..Len(accepted) : accepted[i] \in Nat /\ accepted[i] \in Session!Msgs
<1>1. \A i \in 1..Len(accepted) : accepted[i] \in Session!Msgs
  BY ElementOfSeq DEF QueueTyped
<1>2. QED
  BY <1>1, SessionAssumption DEF QueueTyped, Session!Slots, Session!Msgs

-----------------------------------------------------------------------------
(* The ring.                                                                  *)

\* A message that is new joins at the end, and a full ring gives up its oldest.
LEMMA EnqueueKeeps ==
  ASSUME QueueInv, made < MaxMsgs, made' = made + 1, Session!Enqueue(made + 1),
         UNCHANGED received
  PROVE  QueueInv'
<1> USE DEF QueueInv
<1>t. /\ first \in Nat /\ first < QueueSize /\ last \in Nat /\ last < QueueSize
      /\ count \in Nat /\ count <= QueueSize /\ made \in Nat
      /\ QueueSize \in Nat /\ QueueSize > 0 /\ MaxMsgs \in Nat /\ Len(accepted) \in Nat
      /\ last = Wrap(first + count) /\ count <= Len(accepted)
  BY QueueFacts DEF RingHoldsNewest
<1>1. PICK m \in Nat : m = made + 1
  BY <1>t
<1>2. m \in Session!Msgs /\ m \in 0..MaxMsgs /\ m > made
  BY <1>1, <1>t DEF Session!Msgs
<1>3. /\ slots' = [slots EXCEPT ![last] = [msg |-> m, valid |-> TRUE]]
      /\ last' = Wrap(last + 1) /\ last' \in Session!Slots
      /\ accepted' = Append(accepted, m)
      /\ \/ count = QueueSize /\ first' = Wrap(first + 1) /\ count' = count
         \/ count # QueueSize /\ first' = first /\ count' = count + 1
  BY <1>1, SuccIsWrap DEF Session!Enqueue, QueueTyped
<1>4. first' \in Session!Slots /\ count' \in 0..QueueSize
  <2>1. first \in Session!Slots /\ count \in 0..QueueSize
    BY <1>t DEF QueueTyped
  <2>2. Wrap(first + 1) \in Session!Slots
    BY <2>1, SuccIsWrap
  <2>3. QueueSize \in Nat
    BY SessionAssumption
  <2>4. QED
    BY <1>3, <2>1, <2>2, <2>3
<1>5. [msg |-> m, valid |-> TRUE] \in [msg : 0..MaxMsgs, valid : BOOLEAN]
  BY <1>2
<1>6. /\ slots' \in [Session!Slots -> [msg : 0..MaxMsgs, valid : BOOLEAN]]
      /\ slots'[last] = [msg |-> m, valid |-> TRUE]
      /\ \A s \in Session!Slots : s # last => slots'[s] = slots[s]
  BY <1>3, <1>5 DEF QueueTyped
<1>7. /\ accepted' \in Seq(Session!Msgs) /\ Len(accepted') = Len(accepted) + 1
      /\ \A i \in 1..Len(accepted) : accepted'[i] = accepted[i]
      /\ accepted'[Len(accepted) + 1] = m
  BY <1>2, <1>3, AppendProperties DEF QueueTyped
<1>8. QueueTyped'
  <2>1. made' \in 0..MaxMsgs
    BY <1>1, <1>2
  <2>2. QED
    BY <1>3, <1>4, <1>6, <1>7, <2>1 DEF QueueTyped, Session!Slots, Session!Msgs
<1>9. AcceptedInOrder'
  <2>1. \A i \in 1..Len(accepted) : accepted[i] \in Nat /\ accepted[i] <= made
    BY QueueFacts DEF AcceptedInOrder
  <2>2. \A i \in 1..Len(accepted') : accepted'[i] <= m
    BY <1>t, <1>1, <1>7, <2>1
  <2>3. \A i, j \in 1..Len(accepted') : i < j => accepted'[i] < accepted'[j]
    <3> SUFFICES ASSUME NEW i \in 1..Len(accepted'), NEW j \in 1..Len(accepted'), i < j
                 PROVE  accepted'[i] < accepted'[j]
      OBVIOUS
    <3>1. i \in 1..Len(accepted) /\ accepted'[i] = accepted[i]
      BY <1>t, <1>7
    <3>2. CASE j = Len(accepted) + 1
      BY <1>t, <1>1, <1>7, <2>1, <3>1, <3>2
    <3>3. CASE j \in 1..Len(accepted)
      BY <1>7, <3>1, <3>3 DEF AcceptedInOrder
    <3>4. QED
      BY <1>t, <1>7, <3>2, <3>3
  <2>4. \A x \in received : x <= m
    BY <1>t, <1>1 DEF AcceptedInOrder, QueueTyped, Session!Msgs
  <2>5. QED
    BY <1>1, <2>2, <2>3, <2>4 DEF AcceptedInOrder
<1>10. RingHoldsNewest'
  <2>1. last' = Wrap(first' + count') /\ count' <= Len(accepted')
    BY <1>t, <1>3, <1>7 DEF Wrap
  <2>2. m \notin received
    BY <1>t, <1>1 DEF AcceptedInOrder
  <2>3. ASSUME NEW k \in 1..count'
        PROVE  /\ slots'[Wrap(first' + k - 1)].valid
               /\ slots'[Wrap(first' + k - 1)].msg = accepted'[Len(accepted') - count' + k]
               /\ accepted'[Len(accepted') - count' + k] \notin received
    <3>1. k \in Nat /\ k >= 1 /\ k <= count'
      BY <1>4
    <3>2. CASE k = count'
      <4>1. Wrap(first' + k - 1) = last /\ Len(accepted') - count' + k = Len(accepted) + 1
        <5>1. CASE count = QueueSize /\ first' = Wrap(first + 1) /\ count' = count
          BY <1>t, <1>7, <3>1, <3>2, <5>1 DEF Wrap
        <5>2. CASE count # QueueSize /\ first' = first /\ count' = count + 1
          <6>1. first' + k - 1 = first + count /\ Len(accepted') - count' + k = Len(accepted) + 1
            BY <1>t, <1>7, <3>1, <3>2, <5>2
          <6>2. QED
            BY <1>t, <6>1
        <5>3. QED
          BY <1>3, <5>1, <5>2
      <4>2. QED
        BY <1>6, <1>7, <2>2, <4>1
    <3>3. CASE k # count'
      <4>1. PICK h \in 1..count :
              /\ Wrap(first' + k - 1) = Wrap(first + h - 1)
              /\ Len(accepted') - count' + k = Len(accepted) - count + h
        <5>1. CASE count = QueueSize
          <6>1. k + 1 \in 1..count /\ Wrap(first' + k - 1) = Wrap(first + (k + 1) - 1)
                /\ Len(accepted') - count' + k = Len(accepted) - count + (k + 1)
            BY <1>t, <1>3, <1>7, <3>1, <3>3, <5>1 DEF Wrap
          <6>2. QED
            BY <6>1
        <5>2. CASE count # QueueSize
          <6>1. k \in 1..count /\ Wrap(first' + k - 1) = Wrap(first + k - 1)
                /\ Len(accepted') - count' + k = Len(accepted) - count + k
            <7>1. first' = first /\ count' = count + 1 /\ Len(accepted') = Len(accepted) + 1
              BY <1>3, <1>7, <5>2
            <7>2. QED
              BY <1>t, <3>1, <3>3, <7>1
          <6>2. QED
            BY <6>1
        <5>3. QED
          BY <5>1, <5>2
      <4>2. /\ Wrap(first + h - 1) \in Session!Slots
            /\ Len(accepted) - count + h \in 1..Len(accepted)
        BY <1>t DEF Wrap, Session!Slots
      <4>3. Wrap(first + h - 1) # last
        <5>1. h \in Nat /\ 1 <= h /\ h <= count
          BY <1>t
        <5>2. CASE count = QueueSize
          BY <1>t, <1>3, <1>7, <3>1, <3>3, <4>1, <5>1, <5>2 DEF Wrap
        <5>3. CASE count # QueueSize
          BY <1>t, <5>1, <5>3 DEF Wrap
        <5>4. QED
          BY <5>2, <5>3
      <4>4. QED
        BY <1>6, <1>7, <4>1, <4>2, <4>3 DEF RingHoldsNewest
    <3>4. QED
      BY <3>2, <3>3
  <2>4. QED
    BY <2>1, <2>3 DEF RingHoldsNewest
<1>11. QED
  BY <1>8, <1>9, <1>10

\* The broker gets a message that was not made before, and the ring stays.
LEMMA DeliverKeeps ==
  ASSUME QueueInv, made < MaxMsgs, made' = made + 1, Session!Deliver(made + 1),
         UNCHANGED <<slots, first, last, count, accepted>>
  PROVE  QueueInv'
<1> USE DEF QueueInv
<1>1. PICK m \in Nat : m = made + 1
  BY QueueFacts
<1>2. m \in Session!Msgs /\ m \in 0..MaxMsgs /\ m > made /\ made \in Nat
  BY <1>1, QueueFacts DEF Session!Msgs
<1>3. received' \subseteq received \cup {m}
  BY <1>1 DEF Session!Deliver
<1>4. \A i \in 1..Len(accepted) : accepted[i] \in Nat /\ accepted[i] <= made /\ accepted[i] # m
  BY <1>2, QueueFacts DEF AcceptedInOrder
<1>5. QueueTyped'
  BY <1>1, <1>2, <1>3 DEF QueueTyped, Session!Slots, Session!Msgs
<1>6. AcceptedInOrder'
  <2>1. \A i \in 1..Len(accepted) : accepted[i] <= m
    BY <1>2, <1>4
  <2>2. \A x \in received' : x <= m
    BY <1>2, <1>3 DEF AcceptedInOrder, QueueTyped, Session!Msgs
  <2>3. QED
    BY <1>1, <2>1, <2>2 DEF AcceptedInOrder
<1>7. RingHoldsNewest'
  <2>1. \A k \in 1..count : Len(accepted) - count + k \in 1..Len(accepted)
    BY QueueFacts DEF RingHoldsNewest
  <2>2. \A k \in 1..count : accepted[Len(accepted) - count + k] \notin received'
    BY <1>3, <1>4, <2>1 DEF RingHoldsNewest
  <2>3. QED
    BY <2>2 DEF RingHoldsNewest, Wrap
<1>8. QED
  BY <1>5, <1>6, <1>7

\* The loop sends the oldest message, and the rest stay unsent: the numbers grow.
LEMMA SendKeeps ==
  ASSUME QueueInv, Session!SendQueued
  PROVE  QueueInv'
<1> USE DEF QueueInv
<1>t. /\ first \in Nat /\ first < QueueSize /\ last \in Nat /\ last < QueueSize
      /\ count \in Nat /\ count <= QueueSize /\ made \in Nat
      /\ QueueSize \in Nat /\ QueueSize > 0 /\ MaxMsgs \in Nat /\ Len(accepted) \in Nat
      /\ last = Wrap(first + count) /\ count <= Len(accepted) /\ count > 0
      /\ first \in Session!Slots
  BY QueueFacts DEF RingHoldsNewest, Session!SendQueued, QueueTyped
<1>1. /\ first' = Wrap(first + 1) /\ first' \in Session!Slots /\ count' = count - 1
      /\ received' = received \cup {slots[first].msg}
      /\ slots' = [slots EXCEPT ![first].valid = FALSE]
      /\ UNCHANGED <<last, accepted, made>>
  BY SuccIsWrap DEF Session!SendQueued, QueueTyped
<1>2. slots[first] \in [msg : 0..MaxMsgs, valid : BOOLEAN]
  BY <1>t DEF QueueTyped
<1>3. slots' \in [Session!Slots -> [msg : 0..MaxMsgs, valid : BOOLEAN]]
      /\ \A s \in Session!Slots : s # first => slots'[s] = slots[s]
  <2>1. [slots[first] EXCEPT !.valid = FALSE] \in [msg : 0..MaxMsgs, valid : BOOLEAN]
    BY <1>2
  <2>2. slots' = [slots EXCEPT ![first] = [slots[first] EXCEPT !.valid = FALSE]]
    BY <1>1, <1>t DEF QueueTyped
  <2>3. QED
    BY <2>1, <2>2, <1>t DEF QueueTyped
<1>4. PICK oldest \in 1..Len(accepted) :
        oldest = Len(accepted) - count + 1 /\ slots[first].msg = accepted[oldest]
  <2>1. 1 \in 1..count /\ Wrap(first + 1 - 1) = first
    BY <1>t DEF Wrap
  <2>2. Len(accepted) - count + 1 \in 1..Len(accepted)
    BY <1>t
  <2>3. QED
    BY <2>1, <2>2 DEF RingHoldsNewest
<1>5. accepted[oldest] \in Session!Msgs /\ accepted[oldest] \in Nat /\ accepted[oldest] <= made
  BY QueueFacts DEF AcceptedInOrder
<1>6. QueueTyped'
  <2>1. count' \in 0..QueueSize
    BY <1>t, <1>1
  <2>2. QED
    BY <1>1, <1>3, <1>4, <1>5, <2>1 DEF QueueTyped, Session!Slots, Session!Msgs
<1>7. AcceptedInOrder'
  BY <1>1, <1>4, <1>5 DEF AcceptedInOrder
<1>8. RingHoldsNewest'
  <2>1. last' = Wrap(first' + count') /\ count' <= Len(accepted')
    BY <1>t, <1>1 DEF Wrap
  <2>2. ASSUME NEW k \in 1..count'
        PROVE  /\ slots'[Wrap(first' + k - 1)].valid
               /\ slots'[Wrap(first' + k - 1)].msg = accepted'[Len(accepted') - count' + k]
               /\ accepted'[Len(accepted') - count' + k] \notin received'
    <3>1. PICK h \in 2..count :
            /\ Wrap(first' + k - 1) = Wrap(first + h - 1)
            /\ Len(accepted') - count' + k = Len(accepted) - count + h
      <4>0. k \in Nat /\ 1 <= k /\ k + 1 <= count
        BY <1>t, <1>1
      <4>1. k + 1 \in 2..count /\ Wrap(first' + k - 1) = Wrap(first + (k + 1) - 1)
        <5>1. k + 1 \in 2..count /\ k < QueueSize
          BY <1>t, <4>0
        <5>2. CASE first + 1 < QueueSize
          <6>1. first' = first + 1
            BY <1>t, <1>1, <5>2 DEF Wrap
          <6>2. first' + k - 1 = first + (k + 1) - 1
            BY <1>t, <4>0, <6>1
          <6>3. QED
            BY <5>1, <6>2
        <5>3. CASE first + 1 = QueueSize
          <6>1. first' = 0
            BY <1>t, <1>1, <5>3 DEF Wrap
          <6>2. Wrap(first' + k - 1) = k - 1 /\ Wrap(first + (k + 1) - 1) = k - 1
            BY <1>t, <4>0, <5>1, <5>3, <6>1 DEF Wrap
          <6>3. QED
            BY <5>1, <6>2
        <5>4. QED
          BY <1>t, <5>1, <5>2, <5>3
      <4>2. Len(accepted') - count' + k = Len(accepted) - count + (k + 1)
        BY <1>t, <1>1
      <4>3. QED
        BY <4>1, <4>2
    <3>2. /\ h \in 1..count /\ Wrap(first + h - 1) \in Session!Slots
          /\ Wrap(first + h - 1) # first
          /\ Len(accepted) - count + h \in 1..Len(accepted) /\ oldest < Len(accepted) - count + h
      <4>1. h \in Nat /\ 2 <= h /\ h <= count
        BY <1>t
      <4>2. Wrap(first + h - 1) \in Session!Slots /\ Wrap(first + h - 1) # first
        BY <1>t, <4>1 DEF Wrap, Session!Slots
      <4>3. Len(accepted) - count + h \in 1..Len(accepted) /\ oldest < Len(accepted) - count + h
        BY <1>t, <1>4, <4>1
      <4>4. QED
        BY <4>1, <4>2, <4>3
    <3>3. accepted[Len(accepted) - count + h] # accepted[oldest]
      <4>1. accepted[oldest] < accepted[Len(accepted) - count + h]
        BY <3>2 DEF AcceptedInOrder
      <4>2. QED
        BY <1>5, <4>1
    <3>4. QED
      BY <1>1, <1>3, <1>4, <3>1, <3>2, <3>3 DEF RingHoldsNewest
  <2>3. QED
    BY <2>1, <2>2 DEF RingHoldsNewest
<1>9. QED
  BY <1>6, <1>7, <1>8

\* At a connect every message leaves the ring, sent or lost.
LEMMA FlushKeeps ==
  ASSUME QueueInv, Session!FlushQueue, UNCHANGED made
  PROVE  QueueInv'
<1> USE DEF QueueInv
<1>t. /\ first \in Nat /\ first < QueueSize /\ last \in Nat /\ last < QueueSize
      /\ count \in Nat /\ count <= QueueSize /\ made \in Nat
      /\ QueueSize \in Nat /\ QueueSize > 0 /\ MaxMsgs \in Nat /\ Len(accepted) \in Nat
      /\ last = Wrap(first + count) /\ count <= Len(accepted) /\ last \in Session!Slots
  BY QueueFacts DEF RingHoldsNewest, QueueTyped
<1>1. /\ first' = last /\ count' = 0 /\ UNCHANGED <<last, accepted, made>>
      /\ slots' = [i \in Session!Slots |->
                     IF count > 0 /\ (i - first + QueueSize) % QueueSize < count
                       THEN [slots[i] EXCEPT !.valid = FALSE] ELSE slots[i]]
  <2>1. first + count \in Nat /\ first + count < QueueSize + QueueSize
    BY <1>t
  <2>2. QED
    BY <1>t, <2>1, WrapIsMod DEF Session!FlushQueue
<1>2. slots' \in [Session!Slots -> [msg : 0..MaxMsgs, valid : BOOLEAN]]
  <2>1. \A i \in Session!Slots : /\ slots[i] \in [msg : 0..MaxMsgs, valid : BOOLEAN]
          /\ [slots[i] EXCEPT !.valid = FALSE] \in [msg : 0..MaxMsgs, valid : BOOLEAN]
    BY DEF QueueTyped
  <2>2. QED
    BY <1>1, <2>1
<1>3. \A j \in 1..count : Session!Queued[j] \in Session!Msgs /\ Session!Queued[j] <= made
  <2> SUFFICES ASSUME NEW j \in 1..count
               PROVE  Session!Queued[j] \in Session!Msgs /\ Session!Queued[j] <= made
    OBVIOUS
  <2>1. first + j - 1 \in Nat /\ first + j - 1 < QueueSize + QueueSize
    BY <1>t
  <2>2. Session!Queued[j] = slots[Wrap(first + j - 1)].msg
    BY <2>1, WrapIsMod DEF Session!Queued
  <2>3. Session!Queued[j] = accepted[Len(accepted) - count + j]
    BY <2>2 DEF RingHoldsNewest
  <2>4. Len(accepted) - count + j \in 1..Len(accepted)
    BY <1>t
  <2>5. QED
    BY <2>3, <2>4, QueueFacts DEF AcceptedInOrder
<1>4. \A x \in received' : x \in Session!Msgs /\ x <= made
  <2>1. PICK k \in 0..count : received' = received \cup {Session!Queued[j] : j \in 1..k}
    BY DEF Session!FlushQueue
  <2>2. \A j \in 1..k : j \in 1..count
    BY <1>t
  <2>3. QED
    BY <1>3, <2>1, <2>2 DEF AcceptedInOrder, QueueTyped
<1>5. 0 \in 0..QueueSize /\ Wrap(last) = last
  BY <1>t DEF Wrap
<1>6. QueueTyped'
  BY <1>t, <1>1, <1>2, <1>4, <1>5 DEF QueueTyped, Session!Slots, Session!Msgs
<1>7. AcceptedInOrder'
  BY <1>1, <1>4 DEF AcceptedInOrder
<1>8. RingHoldsNewest'
  <2>1. last' = Wrap(first' + count') /\ count' <= Len(accepted')
    BY <1>t, <1>1 DEF Wrap
  <2>2. \A k : k \notin 1..count'
    BY <1>1
  <2>3. QED
    BY <2>1, <2>2 DEF RingHoldsNewest
<1>9. QED
  BY <1>6, <1>7, <1>8

\* A handoff to cellular empties the ring.
LEMMA HandoffKeeps ==
  ASSUME QueueInv, Session!Handoff
  PROVE  QueueInv'
<1> USE DEF QueueInv
<1>1. UNCHANGED <<made, received>>
  BY DEF Session!Handoff
<1>2. CASE UNCHANGED <<slots, first, last, count, accepted>>
  BY <1>1, <1>2 DEF QueueTyped, AcceptedInOrder, RingHoldsNewest, Wrap, Session!Slots, Session!Msgs
<1>3. CASE /\ slots' = [i \in Session!Slots |-> [slots[i] EXCEPT !.valid = FALSE]]
           /\ first' = 0 /\ last' = 0 /\ count' = 0 /\ accepted' = <<>>
  <2>1. slots' \in [Session!Slots -> [msg : 0..MaxMsgs, valid : BOOLEAN]]
    BY <1>3 DEF QueueTyped
  <2>2. 0 \in Session!Slots /\ 0 \in 0..QueueSize
    BY SessionAssumption DEF Session!Slots
  <2>3. accepted' \in Seq(Session!Msgs) /\ Len(accepted') = 0
    BY <1>3
  <2>4. QueueTyped'
    BY <1>1, <1>3, <2>1, <2>2, <2>3 DEF QueueTyped, Session!Slots, Session!Msgs
  <2>5. AcceptedInOrder'
    BY <1>1, <2>3 DEF AcceptedInOrder
  <2>6. RingHoldsNewest'
    BY <1>3, <2>3, SessionAssumption DEF RingHoldsNewest, Wrap
  <2>7. QED
    BY <2>4, <2>5, <2>6
<1>4. QED
  BY <1>2, <1>3 DEF Session!Handoff, Session!queueVars

-----------------------------------------------------------------------------
(* The retained topics.                                                       *)

\* publishRetainedManifest, from what is recorded and held by then.
LEMMA ManifestKeeps ==
  ASSUME TopicsTyped, NEW r \in SUBSET Session!Topics, NEW h \in SUBSET r, NEW p \in BOOLEAN,
         NEW d \in BOOLEAN, p /\ ~d => r \subseteq listed, Session!Manifest(r, h, p, d)
  PROVE  TopicsInv'
<1>1. "manifest" \in Session!Topics
  BY DEF Session!Topics
<1>2. retained' = r \cup {"manifest"}
  BY DEF Session!Manifest
<1>3. CASE /\ listed' = retained' /\ held' = h \cup {"manifest"}
           /\ published' = TRUE /\ dirty' = FALSE
  BY <1>1, <1>2, <1>3 DEF TopicsInv, TopicsTyped, TopicsRecorded, Session!Topics, Session!Always,
                          Session!Late
<1>4. CASE /\ published' = p /\ dirty' = (d \/ (p /\ "manifest" \notin r))
           /\ held' = h /\ UNCHANGED listed
  <2>1. TopicsTyped'
    BY <1>1, <1>2, <1>4 DEF TopicsTyped, Session!Topics, Session!Always, Session!Late
  <2>2. published' /\ ~dirty' => retained' \subseteq listed'
    BY <1>2, <1>4
  <2>3. QED
    BY <1>2, <1>4, <2>1, <2>2 DEF TopicsInv, TopicsRecorded
<1>5. QED
  BY <1>3, <1>4 DEF Session!Manifest

\* publishRetainedSet, on top of what is recorded and held.
LEMMA RetainedSetKeeps ==
  ASSUME TopicsTyped, NEW r \in SUBSET Session!Topics, NEW h \in SUBSET r, NEW p \in BOOLEAN,
         NEW d \in BOOLEAN, p /\ ~d => r \subseteq listed, Session!RetainedSet(r, h, p, d)
  PROVE  TopicsInv'
<1>1. PICK s \in SUBSET Session!Always :
        Session!Manifest(r \cup Session!Always, h \cup s, p,
                         d \/ (p /\ ~(Session!Always \subseteq r)))
  BY DEF Session!RetainedSet
<1>2. /\ r \cup Session!Always \in SUBSET Session!Topics
      /\ h \cup s \in SUBSET (r \cup Session!Always)
      /\ (d \/ (p /\ ~(Session!Always \subseteq r))) \in BOOLEAN
  BY DEF Session!Topics
<1>3. p /\ ~(d \/ (p /\ ~(Session!Always \subseteq r))) => r \cup Session!Always \subseteq listed
  OBVIOUS
<1>4. QED
  BY <1>1, <1>2, <1>3, ManifestKeeps

\* A module's discovery: a topic that joins late marks the manifest.
LEMMA SensorKeeps ==
  ASSUME TopicsInv, Session!SensorLoop
  PROVE  TopicsInv'
<1> USE DEF TopicsInv
<1>1. UNCHANGED <<published, listed>>
  BY DEF Session!SensorLoop
<1>2. CASE UNCHANGED <<retained, dirty, held>>
  BY <1>1, <1>2 DEF TopicsTyped, TopicsRecorded, Session!Topics, Session!Always, Session!Late
<1>3. CASE \E t \in Session!Late : Session!PublishRetained(t)
  <2>1. PICK t \in Session!Late : Session!PublishRetained(t)
    BY <1>3
  <2>2. /\ t \in Session!Topics /\ retained' = retained \cup {t}
        /\ dirty' = (dirty \/ (published /\ t \notin retained))
        /\ held' \subseteq held \cup {t}
    BY <2>1 DEF Session!PublishRetained, Session!Record, Session!Topics
  <2>3. TopicsTyped'
    BY <1>1, <2>2 DEF TopicsTyped, Session!Topics, Session!Always, Session!Late
  <2>4. TopicsRecorded'
    BY <1>1, <2>2 DEF TopicsRecorded, TopicsTyped
  <2>5. QED
    BY <2>3, <2>4
<1>4. QED
  BY <1>2, <1>3 DEF Session!SensorLoop

-----------------------------------------------------------------------------
(* Every step keeps the invariant.                                            *)

LEMMA QueueStays ==
  ASSUME QueueInv, UNCHANGED <<slots, first, last, count, accepted, made, received>>
  PROVE  QueueInv'
BY DEF QueueInv, QueueTyped, AcceptedInOrder, RingHoldsNewest, Wrap, Session!Slots, Session!Msgs

\* A message refused for its size only takes its number.
LEMMA RefusedKeeps ==
  ASSUME QueueInv, made < MaxMsgs, made' = made + 1,
         UNCHANGED <<slots, first, last, count, accepted, received>>
  PROVE  QueueInv'
<1>1. Session!Deliver(made + 1)
  BY DEF Session!Deliver
<1>2. QED
  BY <1>1, DeliverKeeps

LEMMA TopicsStay ==
  ASSUME TopicsInv, UNCHANGED <<retained, published, dirty, held, listed>>
  PROVE  TopicsInv'
BY DEF TopicsInv, TopicsTyped, TopicsRecorded, Session!Topics, Session!Always, Session!Late

LEMMA SessionInit == Session!Init => SessionInv
<1> SUFFICES ASSUME Session!Init PROVE SessionInv
  OBVIOUS
<1> USE DEF Session!Init
<1>1. 0 \in Session!Slots /\ 0 \in 0..QueueSize /\ 0 \in 0..MaxMsgs
  BY SessionAssumption DEF Session!Slots
<1>2. slots \in [Session!Slots -> [msg : 0..MaxMsgs, valid : BOOLEAN]]
  BY <1>1 DEF Session!Empty
<1>3. QueueTyped
  BY <1>1, <1>2 DEF QueueTyped
<1>4. AcceptedInOrder
  BY DEF AcceptedInOrder
<1>5. RingHoldsNewest
  BY SessionAssumption DEF RingHoldsNewest, Wrap
<1>6. TopicsInv /\ FlagsTyped
  BY DEF TopicsInv, TopicsTyped, TopicsRecorded, FlagsTyped
<1>7. QED
  BY <1>3, <1>4, <1>5, <1>6 DEF SessionInv, QueueInv

LEMMA SessionNext == SessionInv /\ [Session!Next]_(Session!vars) => SessionInv'
<1> SUFFICES ASSUME SessionInv, [Session!Next]_(Session!vars) PROVE SessionInv'
  OBVIOUS
<1> USE DEF Session!queueVars, Session!manifestVars, Session!sensorVars
<1>i. QueueInv /\ TopicsInv /\ FlagsTyped /\ TopicsTyped /\ held \subseteq retained
      /\ (published /\ ~dirty => retained \subseteq listed)
      /\ retained \in SUBSET Session!Topics /\ published \in BOOLEAN /\ dirty \in BOOLEAN
  BY DEF SessionInv, TopicsInv, TopicsTyped, TopicsRecorded
<1>1. CASE Session!Publish
  <2>1. /\ made < MaxMsgs /\ made' = made + 1
        /\ UNCHANGED <<up, retained, published, dirty, held, listed, cellular, seen, done>>
        /\ gap' = gap \/ gap' = ~Paced
    BY <1>1 DEF Session!Publish, Session!Message
  <2>2. \/ Session!Deliver(made + 1) /\ UNCHANGED <<slots, first, last, count, accepted>>
        \/ Session!Enqueue(made + 1) /\ UNCHANGED received
        \/ UNCHANGED <<slots, first, last, count, accepted, received>>
    BY <1>1 DEF Session!Publish, Session!EnqueueOrRefuse
  <2>3. QueueInv'
    BY <1>i, <2>1, <2>2, DeliverKeeps, EnqueueKeeps, RefusedKeeps
  <2>4. FlagsTyped'
    BY <1>i, <2>1, SessionAssumption DEF FlagsTyped
  <2>5. QED
    BY <1>i, <2>1, <2>3, <2>4, TopicsStay DEF SessionInv
<1>2. CASE Session!PublishNow
  <2>1. /\ made < MaxMsgs /\ made' = made + 1
        /\ UNCHANGED <<up, gap, retained, published, dirty, held, listed, cellular, seen, done>>
    BY <1>2 DEF Session!PublishNow, Session!Message
  <2>2. \/ Session!Deliver(made + 1) /\ UNCHANGED <<slots, first, last, count, accepted>>
        \/ Session!Enqueue(made + 1) /\ UNCHANGED received
        \/ UNCHANGED <<slots, first, last, count, accepted, received>>
    BY <1>2 DEF Session!PublishNow, Session!EnqueueOrRefuse
  <2>3. QueueInv'
    BY <1>i, <2>1, <2>2, DeliverKeeps, EnqueueKeeps, RefusedKeeps
  <2>4. FlagsTyped'
    BY <1>i, <2>1 DEF FlagsTyped
  <2>5. QED
    BY <1>i, <2>1, <2>3, <2>4, TopicsStay DEF SessionInv
<1>3. CASE Session!SendQueued
  <2>1. /\ UNCHANGED <<up, retained, published, dirty, held, listed, cellular, seen, done>>
        /\ gap' = ~Paced
    BY <1>3 DEF Session!SendQueued
  <2>2. FlagsTyped'
    BY <1>i, <2>1, SessionAssumption DEF FlagsTyped
  <2>3. QED
    BY <1>3, <1>i, <2>1, <2>2, SendKeeps, TopicsStay DEF SessionInv
<1>4. CASE Session!GapPasses
  BY <1>4, <1>i, QueueStays, TopicsStay DEF Session!GapPasses, SessionInv, FlagsTyped
<1>5. CASE Session!Handoff
  <2>1. /\ UNCHANGED <<up, gap, retained, published, dirty, held, listed, seen, done>>
        /\ cellular' = TRUE
    BY <1>5 DEF Session!Handoff
  <2>2. QED
    BY <1>5, <1>i, <2>1, HandoffKeeps, TopicsStay DEF SessionInv, FlagsTyped
<1>6. CASE Session!Handback \/ Session!Drop
  BY <1>6, <1>i, QueueStays, TopicsStay
     DEF Session!Handback, Session!Drop, SessionInv, FlagsTyped
<1>7. CASE Session!SensorLoop
  <2>1. /\ UNCHANGED <<up, slots, first, last, count, accepted, gap, made, received, cellular>>
        /\ seen' = up /\ (done' = TRUE \/ done' = done)
    BY <1>7 DEF Session!SensorLoop
  <2>2. QED
    BY <1>7, <1>i, <2>1, QueueStays, SensorKeeps DEF SessionInv, FlagsTyped
<1>8. CASE Session!ManifestDue
  <2>1. /\ Session!Manifest(retained, held, published, dirty)
        /\ UNCHANGED <<up, slots, first, last, count, accepted, gap, made, received, cellular,
                       seen, done>>
    BY <1>8 DEF Session!ManifestDue
  <2>2. TopicsInv'
    BY <1>i, <2>1, ManifestKeeps
  <2>3. QED
    BY <1>i, <2>1, <2>2, QueueStays DEF SessionInv, FlagsTyped
<1>9. CASE Session!Republish
  <2>1. /\ Session!RetainedSet(retained, held, published, dirty)
        /\ UNCHANGED <<up, slots, first, last, count, accepted, gap, made, received, cellular,
                       seen, done>>
    BY <1>9 DEF Session!Republish
  <2>2. TopicsInv'
    BY <1>i, <2>1, RetainedSetKeeps
  <2>3. QED
    BY <1>i, <2>1, <2>2, QueueStays DEF SessionInv, FlagsTyped
<1>10. CASE Session!Connect
  <2>1. /\ Session!RetainedSet({}, {}, FALSE, FALSE) /\ Session!FlushQueue
        /\ up' = TRUE /\ UNCHANGED <<gap, made, cellular, seen, done>>
    BY <1>10 DEF Session!Connect
  <2>2. TopicsInv'
    BY <1>i, <2>1, RetainedSetKeeps
  <2>3. QED
    BY <1>i, <2>1, <2>2, FlushKeeps DEF SessionInv, FlagsTyped
<1>11. CASE UNCHANGED Session!vars
  BY <1>11, <1>i, QueueStays, TopicsStay DEF Session!vars, SessionInv, FlagsTyped
<1>12. QED
  BY <1>1, <1>2, <1>3, <1>4, <1>5, <1>6, <1>7, <1>8, <1>9, <1>10, <1>11 DEF Session!Next

\* The session scene moves by the session's steps, and the others let it rest.
LEMMA SceneSession == SceneSpec => Session!Spec
<1>1. SceneInit => Session!Init
  BY DEF SceneInit
<1>2. [SceneNext]_allVars => [Session!Next]_(Session!vars)
  BY DEF SceneNext, allVars, sessionVars, Session!vars, Session!queueVars,
         Session!manifestVars, Session!sensorVars
<1>3. QED
  BY <1>1, <1>2, PTL DEF SceneSpec, Session!Spec

LEMMA SessionInvSound == SessionInv => Session!TypeOK /\ Session!SessionSound
<1> SUFFICES ASSUME SessionInv PROVE Session!TypeOK /\ Session!SessionSound
  OBVIOUS
<1> USE DEF SessionInv, QueueInv, TopicsInv
<1>1. Session!TypeOK
  BY DEF Session!TypeOK, QueueTyped, TopicsTyped, FlagsTyped
<1>t. /\ first \in Nat /\ first < QueueSize /\ count \in Nat /\ count <= QueueSize
      /\ QueueSize \in Nat /\ QueueSize > 0
  BY QueueFacts
<1>2. last = (first + count) % QueueSize
  <2>1. first + count \in Nat /\ first + count < QueueSize + QueueSize
    BY <1>t
  <2>2. QED
    BY <2>1, WrapIsMod DEF RingHoldsNewest
<1>3. count > 0 => slots[first].valid
  <2>1. count > 0 => 1 \in 1..count /\ Wrap(first + 1 - 1) = first
    BY <1>t DEF Wrap
  <2>2. QED
    BY <2>1 DEF RingHoldsNewest
<1>4. ASSUME NEW k \in 1..count
      PROVE  Session!Queued[k] = accepted[Len(accepted) - count + k]
             /\ Session!Queued[k] \notin received
  <2>1. first + k - 1 \in Nat /\ first + k - 1 < QueueSize + QueueSize
    BY <1>t
  <2>2. Session!Queued[k] = slots[Wrap(first + k - 1)].msg
    BY <2>1, WrapIsMod DEF Session!Queued
  <2>3. QED
    BY <2>2 DEF RingHoldsNewest
<1>5. Session!ManifestCovers
  BY DEF Session!ManifestCovers, TopicsRecorded
<1>6. QED
  BY <1>1, <1>2, <1>3, <1>4, <1>5 DEF Session!SessionSound, Session!QueueSound

\* The publish ring holds the newest messages it accepted, in order and unsent,
\* whatever drops, flushes, refusals and handoffs it has seen, and a manifest
\* that is out and not marked lists every retained topic the broker holds
\* (MQTTClient::enqueue, flushQueue, loop, publishRetainedManifest).
THEOREM SessionIsSound == SceneSpec => []SessionSound
<1>1. SessionInv => SessionSound
  BY SessionInvSound DEF SessionSound
<1>2. QED
  BY <1>1, SessionInit, SessionNext, SceneSession, PTL DEF Session!Spec

-----------------------------------------------------------------------------
(* Counting up, for the sums that measure strings and pages.                  *)

LEMMA Induction ==
  ASSUME NEW S, 0 \in S, \A n \in Nat : n \in S => n + 1 \in S
  PROVE  Nat \subseteq S
<1> SUFFICES ASSUME Nat \ S # {} PROVE FALSE
  OBVIOUS
<1>1. IsWellFoundedOn(OpToRel(<, Nat), Nat)
  BY NatLessThanWellFounded
<1>2. PICK m \in Nat \ S : \A k \in Nat \ S : ~(<<k, m>> \in OpToRel(<, Nat))
  BY <1>1, WFMin
<1>3. \A k \in Nat \ S : ~(k < m)
  BY <1>2 DEF OpToRel
<1>4. PICK k \in Nat : m = k + 1
  <2>1. m # 0 /\ m \in Nat
    OBVIOUS
  <2>2. m - 1 \in Nat /\ m = (m - 1) + 1
    BY <2>1
  <2>3. QED
    BY <2>2
<1>5. k \in S
  BY <1>3, <1>4
<1>6. QED
  BY <1>4, <1>5

\* f adds the first numbers of w.
Adds(f, n, w) == f[0] = 0 /\ \A i \in 1..n : f[i] = f[i - 1] + w[i]

LEMMA SumExists ==
  ASSUME NEW n \in Nat, NEW w \in [1..n -> Nat] PROVE \E f \in [0..n -> Nat] : Adds(f, n, w)
<1> DEFINE Has == {k \in Nat : k <= n => \E f \in [0..k -> Nat] : Adds(f, k, w)}
<1>1. 0 \in Has
  <2>1. Adds([i \in 0..0 |-> 0], 0, w) /\ [i \in 0..0 |-> 0] \in [0..0 -> Nat]
    BY DEF Adds
  <2>2. QED
    BY <2>1
<1>2. ASSUME NEW k \in Nat, k \in Has PROVE k + 1 \in Has
  <2> SUFFICES ASSUME k + 1 <= n PROVE \E f \in [0..(k + 1) -> Nat] : Adds(f, k + 1, w)
    OBVIOUS
  <2>1. PICK f \in [0..k -> Nat] : Adds(f, k, w)
    BY <1>2
  <2>2. w[k + 1] \in Nat
    OBVIOUS
  <2> DEFINE g == [i \in 0..(k + 1) |-> IF i <= k THEN f[i] ELSE f[k] + w[k + 1]]
  <2>3. \A i \in 0..k : g[i] = f[i]
    OBVIOUS
  <2>4. g[k + 1] = f[k] + w[k + 1] /\ f[k] \in Nat
    BY <2>1 DEF Adds
  <2>5. g \in [0..(k + 1) -> Nat]
    BY <2>1, <2>2 DEF Adds
  <2> HIDE DEF g
  <2>6. \A i \in 1..(k + 1) : g[i] = g[i - 1] + w[i]
    <3> TAKE i \in 1..(k + 1)
    <3>1. CASE i = k + 1
      BY <3>1, <2>3, <2>4
    <3>2. CASE i <= k
      BY <3>2, <2>1, <2>3 DEF Adds
    <3>3. QED
      BY <3>1, <3>2
  <2>7. Adds(g, k + 1, w)
    BY <2>1, <2>3, <2>6 DEF Adds
  <2>8. QED
    BY <2>5, <2>7
<1>3. QED
  <2> HIDE DEF Has
  <2>1. n \in Has
    BY <1>1, <1>2, Induction
  <2>2. QED
    BY <2>1 DEF Has

\* Sums of the same numbers are the same as far as both go.
LEMMA SumsAgree ==
  ASSUME NEW n \in Nat, NEW m \in Nat, n <= m, NEW f, NEW g, NEW v, NEW w,
         Adds(f, n, v), Adds(g, m, w), \A i \in 1..n : v[i] = w[i]
  PROVE  \A i \in 0..n : f[i] = g[i]
<1> DEFINE Same == {k \in Nat : k <= n => f[k] = g[k]}
<1>1. 0 \in Same
  BY DEF Adds
<1>2. ASSUME NEW k \in Nat, k \in Same PROVE k + 1 \in Same
  <2> SUFFICES ASSUME k + 1 <= n PROVE f[k + 1] = g[k + 1]
    OBVIOUS
  <2>1. f[k + 1] = f[(k + 1) - 1] + v[k + 1] /\ g[k + 1] = g[(k + 1) - 1] + w[k + 1]
    BY DEF Adds
  <2>2. (k + 1) - 1 = k /\ v[k + 1] = w[k + 1] /\ f[k] = g[k]
    BY <1>2
  <2>3. QED
    BY <2>1, <2>2
<1>3. QED
  <2> HIDE DEF Same
  <2>1. \A k \in Nat : k \in Same
    BY <1>1, <1>2, Induction
  <2>2. QED
    BY <2>1 DEF Same

LEMMA SumUnique ==
  ASSUME NEW n \in Nat, NEW f, NEW g, NEW w, Adds(f, n, w), Adds(g, n, w)
  PROVE  \A i \in 0..n : g[i] = f[i]
<1>1. PICK m \in Nat : m = n
  OBVIOUS
<1>2. PICK v : v = w
  OBVIOUS
<1>3. n <= m /\ Adds(g, n, v) /\ Adds(f, m, w) /\ \A i \in 1..n : v[i] = w[i]
  BY <1>1, <1>2
<1>4. QED
  BY <1>3, SumsAgree

LEMMA SumGrows ==
  ASSUME NEW n \in Nat, NEW f \in [0..n -> Nat], NEW w \in [1..n -> Nat], Adds(f, n, w),
         NEW i \in 0..n, NEW j \in 0..n, i <= j
  PROVE  f[i] <= f[j]
<1> DEFINE Above == {k \in Nat : i + k <= n => f[i] <= f[i + k]}
<1>1. 0 \in Above
  BY DEF Adds
<1>2. ASSUME NEW k \in Nat, k \in Above PROVE k + 1 \in Above
  <2> SUFFICES ASSUME i + (k + 1) <= n PROVE f[i] <= f[i + (k + 1)]
    OBVIOUS
  <2>1. PICK l \in 1..n : l = i + (k + 1) /\ l - 1 = i + k
    OBVIOUS
  <2>2. f[l] = f[l - 1] + w[l] /\ w[l] \in Nat /\ f[l - 1] \in Nat /\ f[i] \in Nat
    BY DEF Adds
  <2>3. f[i] <= f[l - 1]
    BY <1>2, <2>1
  <2>4. QED
    BY <2>1, <2>2, <2>3
<1>3. QED
  <2> HIDE DEF Above
  <2>0. j - i \in Nat
    OBVIOUS
  <2>1. (j - i) \in Above
    BY <1>1, <1>2, <2>0, Induction
  <2>2. i + (j - i) = j
    OBVIOUS
  <2>3. QED
    BY <2>1, <2>2 DEF Above

\* A function that reads like a sum of w is one, and adds numbers only.
LEMMA SumIs ==
  ASSUME NEW n \in Nat, NEW w \in [1..n -> Nat], NEW g
  PROVE  g = [i \in 0..n |-> IF i = 0 THEN 0 ELSE g[i - 1] + w[i]]
           => g \in [0..n -> Nat] /\ Adds(g, n, w)
<1>0. SUFFICES ASSUME g = [i \in 0..n |-> IF i = 0 THEN 0 ELSE g[i - 1] + w[i]]
               PROVE  g \in [0..n -> Nat] /\ Adds(g, n, w)
  OBVIOUS
<1>1. PICK f \in [0..n -> Nat] : Adds(f, n, w)
  BY SumExists
<1>2. g[0] = 0 /\ \A i \in 1..n : g[i] = g[i - 1] + w[i]
  <2>1. \A i \in 0..n : g[i] = IF i = 0 THEN 0 ELSE g[i - 1] + w[i]
    <3> DEFINE h == [i \in 0..n |-> IF i = 0 THEN 0 ELSE g[i - 1] + w[i]]
    <3>1. \A i \in 0..n : h[i] = IF i = 0 THEN 0 ELSE g[i - 1] + w[i]
      OBVIOUS
    <3>2. g = h
      BY <1>0
    <3> HIDE DEF h
    <3>3. QED
      BY <3>1, <3>2, Zenon
  <2>2. QED
    BY <2>1
<1>3. \A i \in 0..n : g[i] = f[i]
  <2>1. Adds(g, n, w)
    BY <1>2, Zenon DEF Adds
  <2>2. QED
    BY <1>1, <2>1, SumUnique, Zenon
<1>4. DOMAIN g = 0..n /\ g = [i \in 0..n |-> g[i]]
  <2> DEFINE h == [i \in 0..n |-> IF i = 0 THEN 0 ELSE g[i - 1] + w[i]]
  <2>1. DOMAIN h = 0..n /\ h = [i \in 0..n |-> h[i]]
    OBVIOUS
  <2>2. g = h
    BY <1>0
  <2> HIDE DEF h
  <2>3. QED
    BY <2>1, <2>2, Zenon
<1>5. QED
  BY <1>2, <1>3, <1>4 DEF Adds

-----------------------------------------------------------------------------
(* The length of an escaped string.                                           *)

Costs(s)  == [i \in 1..Len(s) |-> s[i].cost]
CostTo(s) == CHOOSE f : f = [i \in 0..Len(s) |-> IF i = 0 THEN 0 ELSE f[i - 1] + s[i].cost]

LEMMA CostFacts ==
  ASSUME NEW s \in Seq(Bytes)
  PROVE  /\ Costs(s) \in [1..Len(s) -> Nat] /\ CostTo(s) \in [0..Len(s) -> Nat]
         /\ Adds(CostTo(s), Len(s), Costs(s)) /\ Paging!StrLen(s) = CostTo(s)[Len(s)]
<1>1. Len(s) \in Nat /\ \A i \in 1..Len(s) : s[i].cost \in Nat
  BY PagesAssumption
<1>2. Costs(s) \in [1..Len(s) -> Nat] /\ \A i \in 1..Len(s) : Costs(s)[i] = s[i].cost
  BY <1>1 DEF Costs
<1>3. ASSUME NEW f
      PROVE  [i \in 0..Len(s) |-> IF i = 0 THEN 0 ELSE f[i - 1] + s[i].cost]
             = [i \in 0..Len(s) |-> IF i = 0 THEN 0 ELSE f[i - 1] + Costs(s)[i]]
  BY <1>1, <1>2
<1>4. \E f : f = [i \in 0..Len(s) |-> IF i = 0 THEN 0 ELSE f[i - 1] + s[i].cost]
  <2>1. PICK f \in [0..Len(s) -> Nat] : Adds(f, Len(s), Costs(s))
    BY <1>1, <1>2, SumExists
  <2>2. f = [i \in 0..Len(s) |-> IF i = 0 THEN 0 ELSE f[i - 1] + s[i].cost]
    <3>1. \A i \in 0..Len(s) : f[i] = IF i = 0 THEN 0 ELSE f[i - 1] + s[i].cost
      <4> TAKE i \in 0..Len(s)
      <4>1. CASE i = 0
        BY <4>1, <2>1 DEF Adds
      <4>2. CASE i \in 1..Len(s)
        <5>1. f[i] = f[i - 1] + Costs(s)[i] /\ Costs(s)[i] = s[i].cost
          BY <4>2, <1>2, <2>1 DEF Adds
        <5>2. i # 0
          BY <4>2
        <5>3. QED
          BY <5>1, <5>2
      <4>3. QED
        BY <4>1, <4>2, <1>1
    <3>2. QED
      BY <3>1
  <2>3. WITNESS f
  <2>4. QED
    BY <2>2
<1>5. CostTo(s) = [i \in 0..Len(s) |-> IF i = 0 THEN 0 ELSE CostTo(s)[i - 1] + s[i].cost]
  BY <1>4, Zenon DEF CostTo
<1>6. CostTo(s) \in [0..Len(s) -> Nat] /\ Adds(CostTo(s), Len(s), Costs(s))
  BY <1>1, <1>2, <1>3, <1>5, SumIs
<1>7. Paging!StrLen(s) = CostTo(s)[Len(s)]
  BY DEF Paging!StrLen, CostTo
<1>8. QED
  BY <1>2, <1>6, <1>7

\* The first k bytes of a string cost what CostTo says, and no more than all.
LEMMA PrefixCosts ==
  ASSUME NEW s \in Seq(Bytes), NEW k \in 0..Len(s)
  PROVE  /\ SubSeq(s, 1, k) \in Seq(Bytes) /\ Len(SubSeq(s, 1, k)) = k
         /\ Paging!StrLen(SubSeq(s, 1, k)) = CostTo(s)[k]
<1>0. Len(s) \in Nat /\ k \in Nat /\ k <= Len(s) /\ \A i \in 1..k : s[i] \in Bytes
  BY ElementOfSeq
<1>1. PICK p \in Seq(Bytes) : p = SubSeq(s, 1, k)
  <2>1. 1 \in Int /\ k \in Int /\ \A i \in 1..k : s[i] \in Bytes
    BY <1>0
  <2>2. SubSeq(s, 1, k) \in Seq(Bytes)
    BY <2>1, SubSeqProperties, Zenon
  <2>3. QED
    BY <2>2
<1>2. Len(p) = k /\ \A i \in 1..k : p[i] = s[i]
  BY <1>0, <1>1
<1>3. \A i \in 1..k : Costs(p)[i] = Costs(s)[i]
  BY <1>2 DEF Costs
<1>4. \A i \in 0..k : CostTo(p)[i] = CostTo(s)[i]
  <2>1. k \in Nat /\ Len(s) \in Nat /\ k <= Len(s)
    OBVIOUS
  <2>2. Adds(CostTo(p), k, Costs(p)) /\ Adds(CostTo(s), Len(s), Costs(s))
    BY <1>2, CostFacts
  <2>3. QED
    BY <1>3, <2>1, <2>2, SumsAgree
<1>5. Paging!StrLen(p) = CostTo(p)[k] /\ k \in 0..k
  BY <1>0, <1>2, CostFacts
<1>6. QED
  BY <1>1, <1>2, <1>4, <1>5

LEMMA CostsGrow ==
  ASSUME NEW s \in Seq(Bytes), NEW k \in 0..Len(s), NEW m \in 0..Len(s), k <= m
  PROVE  /\ Paging!StrLen(SubSeq(s, 1, k)) <= Paging!StrLen(SubSeq(s, 1, m))
         /\ Paging!StrLen(SubSeq(s, 1, k)) \in Nat
<1>1. CostTo(s)[k] <= CostTo(s)[m] /\ CostTo(s)[k] \in Nat
  <2>0. PICK n \in Nat : n = Len(s)
    OBVIOUS
  <2>1. PICK f, w : f = CostTo(s) /\ w = Costs(s)
    OBVIOUS
  <2>2. f \in [0..n -> Nat] /\ w \in [1..n -> Nat] /\ Adds(f, n, w)
    BY <2>0, <2>1, CostFacts
  <2>3. f[k] <= f[m] /\ f[k] \in Nat
    BY <2>0, <2>2, SumGrows
  <2>4. QED
    BY <2>1, <2>3
<1>2. QED
  BY <1>1, PrefixCosts

LEMMA StrLenFacts ==
  /\ \A s \in Seq(Bytes) : Paging!StrLen(s) \in Nat
  /\ Paging!StrLen(<<>>) = 0
<1>1. \A s \in Seq(Bytes) : Paging!StrLen(s) \in Nat
  BY CostFacts
<1>2. Paging!StrLen(<<>>) = 0
  <2>1. <<>> \in Seq(Bytes) /\ Len(<<>>) = 0
    OBVIOUS
  <2>2. QED
    BY <2>1, CostFacts DEF Adds
<1>3. QED
  BY <1>1, <1>2

-----------------------------------------------------------------------------
(* The length of a page.                                                      *)

Widths(p) == [i \in 1..Len(p) |-> Paging!StrLen(p[i]) + (IF i = 1 THEN 2 ELSE 3)]
PageTo(p) == CHOOSE f : f = [i \in 0..Len(p) |->
               IF i = 0 THEN 0 ELSE f[i - 1] + Paging!StrLen(p[i]) + (IF i = 1 THEN 2 ELSE 3)]

LEMMA PageFacts ==
  ASSUME NEW p \in Seq(Seq(Bytes))
  PROVE  /\ Widths(p) \in [1..Len(p) -> Nat]
         /\ PageTo(p) \in [0..Len(p) -> Nat] /\ Adds(PageTo(p), Len(p), Widths(p))
         /\ Paging!Measure(p) = PageTo(p)[Len(p)]
<1> DEFINE n == Len(p)
           w == Widths(p)
<1>1. n \in Nat /\ \A i \in 1..n : Paging!StrLen(p[i]) \in Nat
  <2>1. \A i \in 1..n : p[i] \in Seq(Bytes)
    BY ElementOfSeq
  <2>2. QED
    BY <2>1, StrLenFacts
<1>2. /\ w \in [1..n -> Nat]
      /\ \A i \in 1..n : w[i] = Paging!StrLen(p[i]) + (IF i = 1 THEN 2 ELSE 3)
  BY <1>1 DEF Widths
<1>3. PICK f \in [0..n -> Nat] : Adds(f, n, w)
  BY <1>1, <1>2, SumExists
<1> HIDE DEF w
<1>4. f = [i \in 0..n |->
             IF i = 0 THEN 0 ELSE f[i - 1] + Paging!StrLen(p[i]) + (IF i = 1 THEN 2 ELSE 3)]
  <2>1. \A i \in 0..n :
          f[i] = IF i = 0 THEN 0 ELSE f[i - 1] + Paging!StrLen(p[i]) + (IF i = 1 THEN 2 ELSE 3)
    <3> TAKE i \in 0..n
    <3>1. CASE i = 0
      BY <3>1, <1>3 DEF Adds
    <3>2. CASE i \in 1..n
      <4>1. f[i] = f[i - 1] + w[i] /\ f[i - 1] \in Nat /\ Paging!StrLen(p[i]) \in Nat
        BY <3>2, <1>1, <1>3 DEF Adds
      <4>2. w[i] = Paging!StrLen(p[i]) + (IF i = 1 THEN 2 ELSE 3) /\ i # 0
        BY <3>2, <1>2
      <4>3. QED
        BY <4>1, <4>2
    <3>3. QED
      BY <3>1, <3>2, <1>1
  <2>2. QED
    BY <2>1
<1>5. \E g : g = [i \in 0..n |->
               IF i = 0 THEN 0 ELSE g[i - 1] + Paging!StrLen(p[i]) + (IF i = 1 THEN 2 ELSE 3)]
  <2>1. WITNESS f
  <2>2. QED
    BY <1>4
<1>6. PICK g : /\ g = PageTo(p)
               /\ g = [i \in 0..n |->
                    IF i = 0 THEN 0 ELSE g[i - 1] + Paging!StrLen(p[i]) + (IF i = 1 THEN 2 ELSE 3)]
  <2>1. PageTo(p) = [i \in 0..n |->
          IF i = 0 THEN 0
          ELSE PageTo(p)[i - 1] + Paging!StrLen(p[i]) + (IF i = 1 THEN 2 ELSE 3)]
    BY <1>5, Zenon DEF PageTo
  <2>2. QED
    BY <2>1, Zenon
<1>7. \A i \in 0..n :
        g[i] = IF i = 0 THEN 0 ELSE g[i - 1] + Paging!StrLen(p[i]) + (IF i = 1 THEN 2 ELSE 3)
  <2> DEFINE h == [i \in 0..n |->
                IF i = 0 THEN 0 ELSE g[i - 1] + Paging!StrLen(p[i]) + (IF i = 1 THEN 2 ELSE 3)]
  <2>1. \A i \in 0..n :
          h[i] = IF i = 0 THEN 0 ELSE g[i - 1] + Paging!StrLen(p[i]) + (IF i = 1 THEN 2 ELSE 3)
    OBVIOUS
  <2>2. g = h
    BY <1>6
  <2> HIDE DEF h
  <2>3. QED
    BY <2>1, <2>2, Zenon
<1>8. DOMAIN g = 0..n /\ g = [i \in 0..n |-> g[i]]
  <2> DEFINE h == [i \in 0..n |->
                IF i = 0 THEN 0 ELSE g[i - 1] + Paging!StrLen(p[i]) + (IF i = 1 THEN 2 ELSE 3)]
  <2>1. DOMAIN h = 0..n /\ h = [i \in 0..n |-> h[i]]
    OBVIOUS
  <2>2. g = h
    BY <1>6
  <2> HIDE DEF h
  <2>3. QED
    BY <2>1, <2>2, Zenon
<1> DEFINE Same == {k \in Nat : k <= n => g[k] = f[k]}
<1>9. 0 \in Same
  BY <1>1, <1>3, <1>7 DEF Adds
<1>10. ASSUME NEW k \in Nat, k \in Same PROVE k + 1 \in Same
  <2> SUFFICES ASSUME k + 1 <= n PROVE g[k + 1] = f[k + 1]
    OBVIOUS
  <2>1. PICK j \in 1..n : j = k + 1 /\ j - 1 = k /\ j # 0
    OBVIOUS
  <2>2. g[j] = g[j - 1] + Paging!StrLen(p[j]) + (IF j = 1 THEN 2 ELSE 3)
    BY <1>7, <2>1
  <2>3. /\ f[j] = f[j - 1] + w[j] /\ f[j - 1] \in Nat
        /\ w[j] = Paging!StrLen(p[j]) + (IF j = 1 THEN 2 ELSE 3)
    <3>1. j - 1 \in 0..n
      BY <1>1
    <3>2. QED
      BY <1>2, <1>3, <3>1 DEF Adds
  <2>4. g[j - 1] = f[j - 1]
    BY <1>10, <2>1
  <2>5. Paging!StrLen(p[j]) \in Nat
    BY <1>1
  <2>6. QED
    BY <2>1, <2>2, <2>3, <2>4, <2>5
<1>11. \A i \in 0..n : g[i] = f[i]
  <2> HIDE DEF Same
  <2>1. \A k \in Nat : k \in Same
    BY <1>9, <1>10, Induction
  <2>2. QED
    BY <2>1, <1>1 DEF Same
<1>12. g \in [0..n -> Nat] /\ Adds(g, n, w)
  BY <1>3, <1>8, <1>11, <1>1 DEF Adds
<1>13. Paging!Measure(p) = PageTo(p)[Len(p)]
  BY DEF Paging!Measure, PageTo
<1>14. QED
  BY <1>2, <1>6, <1>12, <1>13 DEF w

\* A page grows by the string, its quotes and a comma unless it is the first.
LEMMA PageGrows ==
  ASSUME NEW p \in Seq(Seq(Bytes)), NEW x \in Seq(Bytes)
  PROVE  /\ Paging!Measure(p) \in Nat
         /\ Paging!Measure(Append(p, x))
              = Paging!Measure(p) + Paging!StrLen(x) + (IF p = <<>> THEN 2 ELSE 3)
<1>1. PICK q \in Seq(Seq(Bytes)) : q = Append(p, x)
  <2>1. Append(p, x) \in Seq(Seq(Bytes))
    BY AppendProperties
  <2>2. QED
    BY <2>1
<1>2. PICK n \in Nat : n = Len(p)
  OBVIOUS
<1>3. Len(q) = n + 1 /\ q[n + 1] = x /\ \A i \in 1..n : q[i] = p[i]
  BY <1>1, <1>2
<1>4. \A i \in 1..n : Widths(p)[i] = Widths(q)[i]
  BY <1>2, <1>3 DEF Widths
<1>5. Adds(PageTo(p), n, Widths(p)) /\ Adds(PageTo(q), n + 1, Widths(q))
  BY <1>2, <1>3, PageFacts
<1>6. \A i \in 0..n : PageTo(p)[i] = PageTo(q)[i]
  <2>1. PICK m \in Nat : m = n + 1 /\ n <= m
    OBVIOUS
  <2>2. PICK f, g : f = PageTo(p) /\ g = PageTo(q)
    OBVIOUS
  <2>3. Adds(f, n, Widths(p)) /\ Adds(g, m, Widths(q))
    BY <1>5, <2>1, <2>2
  <2>4. \A i \in 0..n : f[i] = g[i]
    <3>1. m \in Nat /\ n \in Nat /\ n <= m
      BY <2>1
    <3>2. QED
      BY <1>4, <2>3, <3>1, SumsAgree
  <2>5. QED
    BY <2>2, <2>4
<1>7. PageTo(q)[n + 1] = PageTo(q)[n] + Widths(q)[n + 1]
  <2>1. n + 1 \in 1..(n + 1) /\ (n + 1) - 1 = n
    OBVIOUS
  <2>2. QED
    BY <1>5, <2>1 DEF Adds
<1>8. Widths(q)[n + 1] = Paging!StrLen(x) + (IF p = <<>> THEN 2 ELSE 3)
  <2>1. p = <<>> <=> n + 1 = 1
    BY <1>2
  <2>2. Widths(q)[n + 1] = Paging!StrLen(q[n + 1]) + (IF n + 1 = 1 THEN 2 ELSE 3)
    BY <1>3 DEF Widths
  <2>3. QED
    BY <1>3, <2>1, <2>2
<1>9. Paging!Measure(p) = PageTo(p)[n] /\ PageTo(p)[n] \in Nat /\ n \in 0..n
  BY <1>2, PageFacts
<1>10. Paging!Measure(q) = PageTo(q)[n + 1]
  BY <1>3, PageFacts
<1>11. Paging!StrLen(x) \in Nat
  BY StrLenFacts
<1>12. QED
  BY <1>1, <1>6, <1>7, <1>8, <1>9, <1>10, <1>11

LEMMA EmptyPage == Paging!Measure(<<>>) = 0
<1>1. <<>> \in Seq(Seq(Bytes)) /\ Len(<<>>) = 0
  OBVIOUS
<1>2. QED
  BY <1>1, PageFacts DEF Adds

-----------------------------------------------------------------------------
(* Where a string is cut.                                                     *)

LEMMA LargestExists ==
  ASSUME NEW n \in Nat, NEW S \in SUBSET (0..n), S # {}
  PROVE  \E x \in S : \A y \in S : x >= y
<1> SUFFICES ASSUME \A x \in S : \E y \in S : ~(x >= y) PROVE FALSE
  OBVIOUS
<1> DEFINE Reached == {k \in Nat : \E x \in S : x >= k}
<1>1. 0 \in Reached
  <2>1. PICK x \in S : x \in 0..n
    OBVIOUS
  <2>2. x >= 0
    BY <2>1
  <2>3. QED
    BY <2>2
<1>2. ASSUME NEW k \in Nat, k \in Reached PROVE k + 1 \in Reached
  <2>1. PICK x \in S : x >= k
    BY <1>2
  <2>2. PICK y \in S : ~(x >= y)
    OBVIOUS
  <2>3. y >= k + 1
    BY <2>1, <2>2
  <2>4. QED
    BY <2>2, <2>3
<1>3. QED
  <2> HIDE DEF Reached
  <2>1. n + 1 \in Reached
    BY <1>1, <1>2, Induction
  <2>2. PICK x \in S : x >= n + 1
    BY <2>1 DEF Reached
  <2>3. QED
    BY <2>2

LEMMA LargestIs ==
  ASSUME NEW n \in Nat, NEW S \in SUBSET (0..n), S # {} PROVE Paging!Max(S) \in S
<1>1. \E x \in S : \A y \in S : x >= y
  BY LargestExists
<1>2. QED
  BY <1>1 DEF Paging!Max

LEMMA LeastIs ==
  ASSUME NEW S \in SUBSET (0..3), S # {}
  PROVE  Paging!Min(S) \in S /\ \A y \in S : Paging!Min(S) <= y
<1>1. \E x \in S : \A y \in S : x <= y
  <2>1. CASE 0 \in S
    BY <2>1
  <2>2. CASE 0 \notin S /\ 1 \in S
    BY <2>2
  <2>3. CASE 0 \notin S /\ 1 \notin S /\ 2 \in S
    BY <2>3
  <2>4. CASE 0 \notin S /\ 1 \notin S /\ 2 \notin S
    <3>1. PICK x \in S : TRUE
      OBVIOUS
    <3>2. x = 3 /\ \A y \in S : y = 3
      BY <2>4
    <3>3. QED
      BY <3>1, <3>2
  <2>5. QED
    BY <2>1, <2>2, <2>3, <2>4
<1>2. QED
  BY <1>1 DEF Paging!Min

\* No UTF-8 sequence runs past the first k bytes.
EndsAt(s, k) == \A i \in 1..k : i + s[i].seq - 1 <= k

LEMMA BytesAre == ASSUME NEW s \in Seq(Bytes) PROVE \A i \in 1..Len(s) : s[i].seq \in 0..4
BY ElementOfSeq, PagesAssumption

LEMMA PrefixWhole ==
  ASSUME NEW s \in Seq(Bytes), NEW k \in 0..Len(s), Paging!WholeChars(s), EndsAt(s, k)
  PROVE  Paging!WholeChars(SubSeq(s, 1, k))
<1>1. PICK p \in Seq(Bytes) : p = SubSeq(s, 1, k)
  BY PrefixCosts
<1>2. Len(p) = k /\ \A i \in 1..k : p[i] = s[i]
  <2>1. k \in Int /\ 1 \in Int /\ \A i \in 1..k : s[i] \in Bytes
    BY ElementOfSeq
  <2>2. QED
    BY <1>1, <2>1, PrefixCosts, SubSeqProperties
<1>3. ASSUME NEW i \in 1..k
      PROVE  /\ i + p[i].seq - 1 <= k
             /\ \A j \in 1..(p[i].seq - 1) : p[i + j].seq = 0
  <2>1. i \in 1..Len(s) /\ p[i] = s[i] /\ s[i].seq \in 0..4 /\ i + s[i].seq - 1 <= k
    BY <1>2, BytesAre DEF EndsAt
  <2>2. ASSUME NEW j \in 1..(s[i].seq - 1) PROVE p[i + j].seq = 0
    <3>1. i + j \in 1..k
      BY <2>1
    <3>2. s[i + j].seq = 0
      BY <2>1 DEF Paging!WholeChars
    <3>3. QED
      BY <3>1, <3>2, <1>2
  <2>3. QED
    BY <2>1, <2>2
<1>4. QED
  BY <1>1, <1>2, <1>3 DEF Paging!WholeChars

\* What is left of a string after the first n bytes.
LEMMA SuffixWhole ==
  ASSUME NEW s \in Seq(Bytes), NEW n \in 0..Len(s)
  PROVE  /\ SubSeq(s, n + 1, Len(s)) \in Seq(Bytes)
         /\ Paging!WholeChars(s) => Paging!WholeChars(SubSeq(s, n + 1, Len(s)))
<1>1. \A i \in (n + 1)..Len(s) : s[i] \in Bytes
  BY ElementOfSeq
<1>2. PICK r : r = SubSeq(s, n + 1, Len(s))
  OBVIOUS
<1>3. n + 1 \in Int /\ Len(s) \in Int /\ n \in Nat
  OBVIOUS
<1>4. /\ r \in Seq(Bytes)
      /\ Len(r) = IF n + 1 <= Len(s) THEN Len(s) - (n + 1) + 1 ELSE 0
      /\ \A i \in 1..(Len(s) - (n + 1) + 1) : r[i] = s[(n + 1) + i - 1]
  BY <1>1, <1>2, <1>3, SubSeqProperties
<1>5. Len(r) = Len(s) - n /\ \A i \in 1..(Len(s) - n) : r[i] = s[n + i]
  BY <1>3, <1>4
<1>6. ASSUME Paging!WholeChars(s), NEW i \in 1..Len(r)
      PROVE  /\ i + r[i].seq - 1 <= Len(r)
             /\ \A j \in 1..(r[i].seq - 1) : r[i + j].seq = 0
  <2>1. n + i \in 1..Len(s) /\ r[i] = s[n + i] /\ s[n + i].seq \in 0..4
    BY <1>5, BytesAre
  <2>2. /\ (n + i) + s[n + i].seq - 1 <= Len(s)
        /\ \A j \in 1..(s[n + i].seq - 1) : s[(n + i) + j].seq = 0
    BY <1>6, <2>1 DEF Paging!WholeChars
  <2>3. ASSUME NEW j \in 1..(s[n + i].seq - 1) PROVE r[i + j].seq = 0
    <3>1. i + j \in 1..(Len(s) - n) /\ (n + i) + j = n + (i + j)
      BY <2>1, <2>2
    <3>2. QED
      BY <3>1, <2>2, <1>5
  <2>4. QED
    BY <1>5, <2>1, <2>2, <2>3
<1>7. QED
  BY <1>2, <1>4, <1>6 DEF Paging!WholeChars

LEMMA CutWhole ==
  ASSUME NEW s \in Seq(Bytes), NEW n \in 0..Len(s)
  PROVE  /\ Paging!Utf8Cut(s, n) \in 0..n
         /\ Paging!WholeChars(s) => EndsAt(s, Paging!Utf8Cut(s, n))
<1> DEFINE back == {b \in 0..3 : b < n /\ s[n - b].seq # 0}
<1>0. Len(s) \in Nat /\ n \in Nat /\ n <= Len(s)
  OBVIOUS
<1>t. \A i \in 1..n : s[i].seq \in 0..4
  BY <1>0, BytesAre
<1>w. ASSUME Paging!WholeChars(s), NEW i \in 1..n, NEW l \in 1..n, i < l, s[l].seq # 0
      PROVE  i + s[i].seq - 1 < l
  <2> SUFFICES ASSUME i + s[i].seq - 1 >= l PROVE FALSE
    BY <1>t
  <2>1. l - i \in 1..(s[i].seq - 1) /\ i + (l - i) = l /\ i \in 1..Len(s)
    BY <1>0, <1>t, <1>w
  <2>2. s[i + (l - i)].seq = 0
    BY <1>w, <2>1 DEF Paging!WholeChars
  <2>3. QED
    BY <1>w, <2>1, <2>2
<1>1. CASE back = {}
  <2>1. Paging!Utf8Cut(s, n) = n
    BY <1>1 DEF Paging!Utf8Cut
  <2>2. ASSUME Paging!WholeChars(s), NEW i \in 1..n PROVE i + s[i].seq - 1 <= n
    <3>1. CASE s[i].seq = 0
      BY <3>1
    <3>2. CASE s[i].seq # 0
      <4>1. n - i \notin back
        BY <1>1
      <4>2. n - (n - i) = i /\ n - i < n /\ n - i >= 0
        BY <1>0
      <4>3. n - i \notin 0..3
        BY <3>2, <4>1, <4>2
      <4>4. i + 4 <= n
        BY <4>2, <4>3
      <4>5. QED
        BY <4>4, <1>t
    <3>3. QED
      BY <3>1, <3>2
  <2>3. QED
    BY <1>0, <2>1, <2>2 DEF EndsAt
<1>2. CASE back # {}
  <2>1. PICK b \in back : b = Paging!Min(back) /\ \A c \in back : b <= c
    BY <1>2, LeastIs
  <2>2. b \in 0..3 /\ b < n /\ s[n - b].seq # 0
    BY <2>1
  <2>3. PICK l \in 1..n : l = n - b
    BY <2>2
  <2>4. Paging!Utf8Cut(s, n) = IF s[l].seq > b + 1 THEN n - 1 - b ELSE n
    BY <1>2, <2>1, <2>3 DEF Paging!Utf8Cut
  <2>5. ASSUME NEW i \in 1..n, i > l PROVE s[i].seq = 0
    <3>1. n - i \in 0..3 /\ n - i < b /\ n - i < n /\ n - (n - i) = i
      BY <1>0, <2>2, <2>3, <2>5
    <3>2. n - i \notin back
      BY <2>1, <2>2, <3>1
    <3>3. QED
      BY <3>1, <3>2
  <2> HIDE DEF back
  <2>6. CASE s[l].seq > b + 1
    <3>1. Paging!Utf8Cut(s, n) = l - 1
      BY <2>2, <2>3, <2>4, <2>6
    <3>2. ASSUME Paging!WholeChars(s), NEW i \in 1..(l - 1) PROVE i + s[i].seq - 1 <= l - 1
      <4>1. i \in 1..n /\ i < l /\ s[l].seq # 0
        BY <2>2, <2>3
      <4>2. i + s[i].seq - 1 < l
        BY <1>w, <3>2, <4>1
      <4>3. QED
        BY <4>1, <4>2, <1>t
    <3>3. QED
      BY <1>0, <3>1, <3>2 DEF EndsAt
  <2>7. CASE ~(s[l].seq > b + 1)
    <3>1. Paging!Utf8Cut(s, n) = n
      BY <2>4, <2>7
    <3>2. ASSUME Paging!WholeChars(s), NEW i \in 1..n PROVE i + s[i].seq - 1 <= n
      <4>0. s[i].seq \in 0..4 /\ s[l].seq \in 0..4 /\ s[l].seq # 0
        BY <1>t, <2>2, <2>3
      <4>1. CASE i < l
        <5>1. i + s[i].seq - 1 < l
          BY <1>w, <3>2, <4>0, <4>1
        <5>2. QED
          BY <4>0, <5>1
      <4>2. CASE i = l
        BY <4>0, <4>2, <2>2, <2>3, <2>7
      <4>3. CASE i > l
        BY <4>3, <2>5
      <4>4. QED
        BY <4>1, <4>2, <4>3
    <3>3. QED
      BY <1>0, <3>1, <3>2 DEF EndsAt
  <2>8. QED
    BY <2>6, <2>7
<1>3. QED
  BY <1>1, <1>2

LEMMA FitSound ==
  ASSUME NEW s \in Seq(Bytes), NEW budget \in Nat
  PROVE  /\ Paging!JsonFit(s, budget) \in 0..Len(s)
         /\ Paging!StrLen(SubSeq(s, 1, Paging!JsonFit(s, budget))) <= budget
         /\ Paging!WholeChars(s)
              => Paging!WholeChars(SubSeq(s, 1, Paging!JsonFit(s, budget)))
<1> DEFINE S == {k \in 0..Len(s) : Paging!StrLen(SubSeq(s, 1, k)) <= budget}
<1>0. Len(s) \in Nat
  OBVIOUS
<1>1. 0 \in S
  <2>1. SubSeq(s, 1, 0) = <<>>
    OBVIOUS
  <2>2. Paging!StrLen(SubSeq(s, 1, 0)) = 0
    BY <2>1, StrLenFacts, Zenon
  <2>3. 0 \in 0..Len(s) /\ 0 <= budget
    BY <1>0
  <2>4. QED
    BY <2>2, <2>3
<1>2. PICK m \in S : m = Paging!Max(S)
  <2>1. S \in SUBSET (0..Len(s)) /\ S # {}
    BY <1>1
  <2>2. QED
    BY <1>0, <2>1, LargestIs
<1>3. m \in 0..Len(s) /\ Paging!StrLen(SubSeq(s, 1, m)) <= budget
  OBVIOUS
<1>4. Paging!JsonFit(s, budget) = IF m = Len(s) THEN m ELSE Paging!Utf8Cut(s, m)
  BY <1>2 DEF Paging!JsonFit
<1> HIDE DEF S
<1>5. CASE m = Len(s)
  <2>1. SubSeq(s, 1, m) = s
    BY <1>5, SubSeqFull
  <2>2. QED
    BY <1>3, <1>4, <1>5, <2>1
<1>6. CASE m # Len(s)
  <2>1. PICK k : k = Paging!Utf8Cut(s, m)
    OBVIOUS
  <2>2. k \in 0..m /\ (Paging!WholeChars(s) => EndsAt(s, k))
    BY <1>3, <2>1, CutWhole
  <2>3. k \in 0..Len(s) /\ k <= m
    BY <1>0, <1>3, <2>2
  <2>4. /\ Paging!StrLen(SubSeq(s, 1, k)) <= Paging!StrLen(SubSeq(s, 1, m))
        /\ Paging!StrLen(SubSeq(s, 1, k)) \in Nat /\ Paging!StrLen(SubSeq(s, 1, m)) \in Nat
    BY <1>3, <2>3, CostsGrow, StrLenFacts, PrefixCosts
  <2>5. Paging!WholeChars(s) => Paging!WholeChars(SubSeq(s, 1, k))
    BY <2>2, <2>3, PrefixWhole
  <2>6. QED
    BY <1>3, <1>4, <1>6, <2>1, <2>3, <2>4, <2>5
<1>7. QED
  BY <1>5, <1>6

-----------------------------------------------------------------------------
(* What a reader of the pages has.                                            *)

Strings == Seq(Bytes)

LEMMA JoinedForm ==
  ASSUME NEW s \in Seq(Strings), NEW e \in Strings, NEW p \in Seq(Strings), p # <<>>
  PROVE  /\ Paging!Joined(Append(s, e), p) = (s \o <<e \o Head(p)>>) \o Tail(p)
         /\ e \o Head(p) \in Strings /\ Tail(p) \in Seq(Strings)
         /\ Paging!Joined(Append(s, e), p) \in Seq(Strings) \ {<<>>}
<1>1. PICK r \in Seq(Strings) : r = Append(s, e)
  BY AppendProperties
<1>2. Len(r) = Len(s) + 1 /\ r[Len(r)] = e /\ (\A i \in 1..Len(s) : r[i] = s[i]) /\ Len(s) \in Nat
  <2>1. Len(s) \in Nat
    BY LenProperties
  <2>2. Len(r) = Len(s) + 1 /\ r[Len(s) + 1] = e /\ \A i \in 1..Len(s) : r[i] = s[i]
    BY <1>1, AppendProperties
  <2>3. QED
    BY <2>1, <2>2
<1>3. SubSeq(r, 1, Len(r) - 1) = s
  <2>1. PICK n \in Nat : n = Len(s) /\ Len(r) - 1 = n
    BY <1>2
  <2>2. \A i \in 1..n : r[i] \in Strings
    BY <1>2, <2>1, ElementOfSeq
  <2>3. 1 \in Int /\ n \in Int
    OBVIOUS
  <2>4. PICK q : q = SubSeq(r, 1, n)
    OBVIOUS
  <2>5. /\ q \in Seq(Strings) /\ Len(q) = (IF 1 <= n THEN n - 1 + 1 ELSE 0)
        /\ \A i \in 1..(n - 1 + 1) : q[i] = r[1 + i - 1]
    BY <2>2, <2>3, <2>4, SubSeqProperties
  <2>6. Len(q) = Len(s) /\ \A i \in 1..Len(q) : q[i] = s[i]
    <3>1. Len(q) = n
      BY <2>1, <2>5
    <3>2. ASSUME NEW i \in 1..n PROVE q[i] = s[i]
      <4>1. 1 + i - 1 = i /\ i \in 1..(n - 1 + 1)
        BY <2>1
      <4>2. q[i] = r[i]
        BY <2>5, <4>1
      <4>3. QED
        BY <1>2, <2>1, <4>2
    <3>3. QED
      BY <2>1, <3>1, <3>2
  <2>7. q = s
    BY <2>5, <2>6, SeqEqual
  <2>8. QED
    BY <2>1, <2>4, <2>7
<1>4. Head(p) \in Strings /\ Tail(p) \in Seq(Strings)
  BY HeadTailProperties
<1>5. e \o Head(p) \in Strings
  BY <1>4, ConcatProperties DEF Strings
<1>6. Paging!Joined(r, p) = (s \o <<e \o Head(p)>>) \o Tail(p)
  BY <1>2, <1>3 DEF Paging!Joined
<1>7. s \o <<e \o Head(p)>> = Append(s, e \o Head(p))
  BY <1>5, AppendIsConcat
<1>8. /\ Append(s, e \o Head(p)) \in Seq(Strings)
      /\ Append(s, e \o Head(p)) # <<>>
  <2>1. PICK x \in Strings : x = e \o Head(p)
    BY <1>5
  <2>2. Append(s, x) \in Seq(Strings) /\ Append(s, x) # <<>>
    BY AppendProperties
  <2>3. QED
    BY <2>1, <2>2
<1>9. /\ Append(s, e \o Head(p)) \o Tail(p) \in Seq(Strings)
      /\ Append(s, e \o Head(p)) \o Tail(p) # <<>>
  BY <1>4, <1>8, ConcatProperties, ConcatEqualIffEmpty
<1>10. QED
  BY <1>1, <1>4, <1>5, <1>6, <1>7, <1>9

LEMMA JoinedTyped ==
  ASSUME NEW r \in Seq(Strings), r # <<>>, NEW p \in Seq(Strings)
  PROVE  Paging!Joined(r, p) \in Seq(Strings) \ {<<>>} /\ Paging!Joined(r, <<>>) = r
<1>1. PICK s \in Seq(Strings) : \E e \in Strings : r = Append(s, e)
  BY SequenceEmptyOrAppend
<1>2. PICK e \in Strings : r = Append(s, e)
  BY <1>1
<1>3. Paging!Joined(r, <<>>) = r
  BY DEF Paging!Joined
<1>4. CASE p = <<>>
  BY <1>3, <1>4
<1>5. CASE p # <<>>
  BY <1>2, <1>3, <1>5, JoinedForm
<1>6. QED
  BY <1>4, <1>5

\* A line put at the end of a page comes at the end of what is read.
LEMMA JoinedAppend ==
  ASSUME NEW r \in Seq(Strings), r # <<>>, NEW p \in Seq(Strings), p # <<>>, NEW x \in Strings
  PROVE  Paging!Joined(r, Append(p, x)) = Append(Paging!Joined(r, p), x)
<1>1. PICK s \in Seq(Strings) : \E e \in Strings : r = Append(s, e)
  BY SequenceEmptyOrAppend
<1>2. PICK e \in Strings : r = Append(s, e)
  BY <1>1
<1>3. PICK q \in Seq(Strings) : q = Append(p, x) /\ q # <<>>
  BY AppendProperties
<1>4. Head(q) = Head(p) /\ Tail(q) = Append(Tail(p), x)
  BY <1>3, HeadTailAppend
<1>5. PICK a, t : a = s \o <<e \o Head(p)>> /\ t = Tail(p)
  OBVIOUS
<1>6. Paging!Joined(r, p) = a \o t /\ Paging!Joined(r, q) = a \o Append(t, x)
  <2>1. /\ Paging!Joined(Append(s, e), p) = (s \o <<e \o Head(p)>>) \o Tail(p)
        /\ Paging!Joined(Append(s, e), q) = (s \o <<e \o Head(q)>>) \o Tail(q)
    <3>1. Paging!Joined(Append(s, e), p) = (s \o <<e \o Head(p)>>) \o Tail(p)
      BY JoinedForm
    <3>2. Paging!Joined(Append(s, e), q) = (s \o <<e \o Head(q)>>) \o Tail(q)
      <4>1. q \in Seq(Strings) /\ q # <<>>
        BY <1>3
      <4>2. QED
        BY <4>1, JoinedForm, Zenon
    <3>3. QED
      BY <3>1, <3>2, Zenon
  <2>2. s \o <<e \o Head(q)>> = a /\ Tail(q) = Append(t, x)
    BY <1>4, <1>5, Zenon
  <2>3. Paging!Joined(Append(s, e), q) = a \o Append(t, x)
    BY <2>1, <2>2, Zenon
  <2>4. QED
    BY <1>2, <1>5, <2>1, <2>3, Zenon
<1>7. a \in Seq(Strings) /\ t \in Seq(Strings)
  <2>1. e \o Head(p) \in Strings /\ Tail(p) \in Seq(Strings)
    BY JoinedForm
  <2>2. Append(s, e \o Head(p)) \in Seq(Strings) /\ Append(s, e \o Head(p)) = a
    BY <2>1, <1>5, AppendProperties, AppendIsConcat
  <2>3. QED
    BY <2>1, <2>2, <1>5
<1>8. a \o Append(t, x) = Append(a \o t, x)
  <2>1. Append(t, x) = t \o <<x>> /\ <<x>> \in Seq(Strings)
    BY <1>7, AppendIsConcat
  <2>2. a \o t \in Seq(Strings)
    BY <1>7, ConcatProperties
  <2>3. Append(a \o t, x) = (a \o t) \o <<x>>
    BY <2>2, AppendIsConcat
  <2>4. QED
    BY <2>1, <2>3, <1>7, ConcatAssociative
<1>9. QED
  BY <1>3, <1>6, <1>8

\* The pieces of a line become the line.
LEMMA JoinedPieces ==
  ASSUME NEW r \in Seq(Strings), NEW a \in Strings, NEW b \in Strings
  PROVE  /\ Paging!Joined(Append(r, a), <<b>>) = Append(r, a \o b)
         /\ r # <<>> =>
              Paging!Joined(Paging!Joined(r, <<a>>), <<b>>) = Paging!Joined(r, <<a \o b>>)
<1>1. ASSUME NEW s \in Seq(Strings), NEW e \in Strings, NEW x \in Strings
      PROVE  Paging!Joined(Append(s, e), <<x>>) = Append(s, e \o x) /\ e \o x \in Strings
  <2>1. <<x>> \in Seq(Strings) /\ <<x>> # <<>> /\ Head(<<x>>) = x /\ Tail(<<x>>) = <<>>
    OBVIOUS
  <2>2. /\ Paging!Joined(Append(s, e), <<x>>) = (s \o <<e \o Head(<<x>>)>>) \o Tail(<<x>>)
        /\ e \o Head(<<x>>) \in Strings
    BY <2>1, JoinedForm
  <2>3. PICK f \in Strings : f = e \o x
    BY <2>1, <2>2
  <2>4. Paging!Joined(Append(s, e), <<x>>) = (s \o <<f>>) \o <<>>
    BY <2>1, <2>2, <2>3
  <2>5. s \o <<f>> = Append(s, f) /\ Append(s, f) \in Seq(Strings)
    BY AppendIsConcat, AppendProperties
  <2>6. Append(s, f) \o <<>> = Append(s, f)
    BY <2>5, ConcatEmptySeq
  <2>7. QED
    BY <2>3, <2>4, <2>5, <2>6
<1>2. ASSUME r # <<>>
      PROVE  Paging!Joined(Paging!Joined(r, <<a>>), <<b>>) = Paging!Joined(r, <<a \o b>>)
  <2>1. PICK s \in Seq(Strings) : \E e \in Strings : r = Append(s, e)
    BY <1>2, SequenceEmptyOrAppend
  <2>2. PICK e \in Strings : r = Append(s, e)
    BY <2>1
  <2>3. PICK ea \in Strings, ab \in Strings : ea = e \o a /\ ab = a \o b
    BY <1>1
  <2>4. Paging!Joined(r, <<a>>) = Append(s, ea) /\ Paging!Joined(r, <<ab>>) = Append(s, e \o ab)
    BY <1>1, <2>2, <2>3
  <2>5. Paging!Joined(Append(s, ea), <<b>>) = Append(s, ea \o b)
    BY <1>1
  <2>6. ea \o b = e \o ab
    BY <2>3, ConcatAssociative DEF Strings
  <2>7. QED
    BY <2>3, <2>4, <2>5, <2>6
<1>3. QED
  BY <1>1, <1>2

LEMMA SplitLine ==
  ASSUME NEW s \in Strings, NEW n \in 0..Len(s)
  PROVE  SubSeq(s, 1, n) \o SubSeq(s, n + 1, Len(s)) = s
<1>1. Len(s) \in Nat
  BY LenProperties DEF Strings
<1>2. 1 \in 1..(Len(s) + 1) /\ n \in (1 - 1)..Len(s) /\ Len(s) \in n..Len(s)
  BY <1>1
<1>3. SubSeq(s, 1, n) \o SubSeq(s, n + 1, Len(s)) = SubSeq(s, 1, Len(s))
  BY <1>2, ConcatAdjacentSubSeq DEF Strings
<1>4. QED
  BY <1>3, SubSeqFull DEF Strings

-----------------------------------------------------------------------------
(* Reading page after page.                                                   *)

Page == [strings : Seq(Strings), cont : BOOLEAN]

Reader(P, i, r) == IF i > 1 /\ P[i - 1].cont THEN Paging!Joined(r, P[i].strings)
                   ELSE r \o P[i].strings
Follows(f, n, P) == f[0] = <<>> /\ \A i \in 1..n : f[i] = Reader(P, i, f[i - 1])

ReadTo(P) == CHOOSE f : f = [i \in 0..Len(P) |->
               IF i = 0 THEN <<>>
               ELSE IF i > 1 /\ P[i - 1].cont THEN Paging!Joined(f[i - 1], P[i].strings)
               ELSE f[i - 1] \o P[i].strings]
Reads(P) == ReadTo(P)[Len(P)]

LEMMA ReadingExists ==
  ASSUME NEW n \in Nat, NEW P
  PROVE  \E f : Follows(f, n, P) /\ f = [i \in 0..n |-> f[i]]
<1> DEFINE Has == {k \in Nat : \E f : Follows(f, k, P) /\ f = [i \in 0..k |-> f[i]]}
<1>1. 0 \in Has
  <2>1. PICK f : f = [i \in 0..0 |-> <<>>]
    OBVIOUS
  <2>2. f[0] = <<>> /\ f = [i \in 0..0 |-> f[i]]
    BY <2>1
  <2>3. Follows(f, 0, P)
    BY <2>2 DEF Follows
  <2>4. QED
    BY <2>2, <2>3
<1>2. ASSUME NEW k \in Nat, k \in Has PROVE k + 1 \in Has
  <2>1. PICK f : Follows(f, k, P) /\ f = [i \in 0..k |-> f[i]]
    BY <1>2
  <2> DEFINE g == [i \in 0..(k + 1) |-> IF i <= k THEN f[i] ELSE Reader(P, k + 1, f[k])]
  <2>2. \A i \in 0..k : g[i] = f[i]
    OBVIOUS
  <2>3. g[k + 1] = Reader(P, k + 1, f[k])
    OBVIOUS
  <2>4. g = [i \in 0..(k + 1) |-> g[i]]
    OBVIOUS
  <2> HIDE DEF g
  <2>5. \A i \in 1..(k + 1) : g[i] = Reader(P, i, g[i - 1])
    <3> TAKE i \in 1..(k + 1)
    <3>1. CASE i = k + 1
      <4>1. i - 1 = k /\ k \in 0..k
        BY <3>1
      <4>2. g[i - 1] = f[k] /\ g[i] = Reader(P, i, f[k])
        BY <2>2, <2>3, <3>1, <4>1
      <4>3. QED
        BY <4>2
    <3>2. CASE i <= k
      <4>1. i \in 1..k /\ i \in 0..k /\ i - 1 \in 0..k
        BY <3>2
      <4>2. f[i] = Reader(P, i, f[i - 1])
        BY <2>1, <4>1 DEF Follows
      <4>3. g[i] = f[i] /\ g[i - 1] = f[i - 1]
        BY <2>2, <4>1
      <4>4. QED
        BY <4>2, <4>3
    <3>3. QED
      BY <3>1, <3>2
  <2>6. g[0] = <<>>
    BY <2>1, <2>2 DEF Follows
  <2>7. Follows(g, k + 1, P)
    BY <2>5, <2>6 DEF Follows
  <2>8. QED
    BY <2>4, <2>7
<1>3. QED
  <2> HIDE DEF Has
  <2>1. n \in Has
    BY <1>1, <1>2, Induction
  <2>2. QED
    BY <2>1 DEF Has

LEMMA ReadingsAgree ==
  ASSUME NEW n \in Nat, NEW m \in Nat, n <= m, NEW P, NEW R, NEW f, NEW g,
         Follows(f, n, P), Follows(g, m, R), \A i \in 1..n : P[i] = R[i]
  PROVE  \A i \in 0..n : f[i] = g[i]
<1> DEFINE Same == {k \in Nat : k <= n => f[k] = g[k]}
<1>1. 0 \in Same
  BY DEF Follows
<1>2. ASSUME NEW k \in Nat, k \in Same PROVE k + 1 \in Same
  <2> SUFFICES ASSUME k + 1 <= n PROVE f[k + 1] = g[k + 1]
    OBVIOUS
  <2>1. PICK j \in 1..n : j = k + 1 /\ j - 1 = k /\ j \in 1..m
    OBVIOUS
  <2>2. f[j] = Reader(P, j, f[k]) /\ g[j] = Reader(R, j, g[k])
    BY <2>1 DEF Follows
  <2>3. f[k] = g[k]
    BY <1>2
  <2>4. P[j] = R[j] /\ (j > 1 => P[j - 1] = R[j - 1])
    <3>1. j > 1 => j - 1 \in 1..n
      BY <2>1
    <3>2. QED
      BY <2>1, <3>1
  <2>5. Reader(P, j, f[k]) = Reader(R, j, f[k])
    BY <2>4 DEF Reader
  <2>6. QED
    BY <2>1, <2>2, <2>3, <2>5
<1>3. QED
  <2> HIDE DEF Same
  <2>1. \A k \in Nat : k \in Same
    BY <1>1, <1>2, Induction
  <2>2. QED
    BY <2>1 DEF Same

LEMMA ReadFacts == ASSUME NEW P \in Seq(Page) PROVE Follows(ReadTo(P), Len(P), P)
<1>1. PICK n \in Nat : n = Len(P)
  BY LenProperties
<1>2. PICK f : Follows(f, n, P) /\ f = [i \in 0..n |-> f[i]]
  BY ReadingExists
<1>3. f = [i \in 0..n |->
               IF i = 0 THEN <<>>
               ELSE IF i > 1 /\ P[i - 1].cont THEN Paging!Joined(f[i - 1], P[i].strings)
               ELSE f[i - 1] \o P[i].strings]
  <2> DEFINE h == [i \in 0..n |->
               IF i = 0 THEN <<>>
               ELSE IF i > 1 /\ P[i - 1].cont THEN Paging!Joined(f[i - 1], P[i].strings)
               ELSE f[i - 1] \o P[i].strings]
             e == [i \in 0..n |-> f[i]]
  <2>1. \A i \in 0..n : f[i] = h[i]
    <3> TAKE i \in 0..n
    <3>1. CASE i = 0
      BY <1>2, <3>1 DEF Follows
    <3>2. CASE i # 0
      <4>1. i \in 1..n
        BY <3>2
      <4>2. f[i] = Reader(P, i, f[i - 1])
        BY <1>2, <4>1 DEF Follows
      <4>3. h[i] = Reader(P, i, f[i - 1])
        BY <3>2 DEF Reader
      <4>4. QED
        BY <4>2, <4>3
    <3>3. QED
      BY <3>1, <3>2
  <2>2. h = [i \in 0..n |-> h[i]]
    OBVIOUS
  <2> HIDE DEF h
  <2>3. e = [i \in 0..n |-> h[i]]
    BY <2>1
  <2>4. f = h
    BY <1>2, <2>2, <2>3
  <2>5. QED
    BY <2>4 DEF h
<1>4. \E g : g = [i \in 0..n |->
               IF i = 0 THEN <<>>
               ELSE IF i > 1 /\ P[i - 1].cont THEN Paging!Joined(g[i - 1], P[i].strings)
               ELSE g[i - 1] \o P[i].strings]
  <2>1. WITNESS f
  <2>2. QED
    BY <1>3
<1>5. PICK g : /\ g = ReadTo(P)
               /\ g = [i \in 0..n |->
                    IF i = 0 THEN <<>>
                    ELSE IF i > 1 /\ P[i - 1].cont THEN Paging!Joined(g[i - 1], P[i].strings)
                    ELSE g[i - 1] \o P[i].strings]
  <2>1. ReadTo(P) = [i \in 0..n |->
               IF i = 0 THEN <<>>
               ELSE IF i > 1 /\ P[i - 1].cont THEN Paging!Joined(ReadTo(P)[i - 1], P[i].strings)
               ELSE ReadTo(P)[i - 1] \o P[i].strings]
    BY <1>1, <1>4, Zenon DEF ReadTo
  <2>2. QED
    BY <2>1, Zenon
<1>6. Follows(g, n, P)
  <2> DEFINE h == [i \in 0..n |->
               IF i = 0 THEN <<>>
               ELSE IF i > 1 /\ P[i - 1].cont THEN Paging!Joined(g[i - 1], P[i].strings)
               ELSE g[i - 1] \o P[i].strings]
  <2>1. h[0] = <<>>
    OBVIOUS
  <2>2. ASSUME NEW i \in 1..n PROVE h[i] = Reader(P, i, g[i - 1])
    BY DEF Reader
  <2>3. g = h
    BY <1>5
  <2> HIDE DEF h
  <2>4. g[0] = <<>> /\ \A i \in 1..n : g[i] = Reader(P, i, g[i - 1])
    BY <2>1, <2>2, <2>3, Zenon
  <2>5. QED
    BY <2>4 DEF Follows
<1>7. QED
  BY <1>1, <1>5, <1>6

LEMMA ReadsGrow ==
  ASSUME NEW P \in Seq(Page), NEW x \in Page
  PROVE  /\ Append(P, x) \in Seq(Page)
         /\ Reads(Append(P, x)) =
              IF P # <<>> /\ P[Len(P)].cont THEN Paging!Joined(Reads(P), x.strings)
              ELSE Reads(P) \o x.strings
<1>1. PICK R \in Seq(Page) : R = Append(P, x)
  BY AppendProperties
<1>2. PICK n \in Nat, m \in Nat : n = Len(P) /\ m = n + 1
  BY LenProperties
<1>3. Len(R) = m /\ R[m] = x /\ \A i \in 1..n : P[i] = R[i]
  BY <1>1, <1>2, AppendProperties
<1>4. PICK f, g : f = ReadTo(P) /\ g = ReadTo(R)
  OBVIOUS
<1>5. Follows(f, n, P) /\ Follows(g, m, R)
  BY <1>2, <1>3, <1>4, ReadFacts
<1>6. f[n] = g[n]
  <2>1. m \in Nat /\ n \in Nat /\ n <= m /\ n \in 0..n
    BY <1>2
  <2>2. \A i \in 0..n : f[i] = g[i]
    BY <1>3, <1>5, <2>1, ReadingsAgree
  <2>3. QED
    BY <2>1, <2>2
<1>7. g[m] = Reader(R, m, g[n])
  <2>1. m \in 1..m /\ m - 1 = n
    BY <1>2
  <2>2. QED
    BY <1>5, <2>1 DEF Follows
<1>8. Reads(P) = f[n] /\ Reads(R) = g[m]
  BY <1>2, <1>3, <1>4 DEF Reads
<1>9. (P # <<>> <=> m > 1) /\ m - 1 = n /\ (m > 1 => R[n] = P[n])
  <2>1. P # <<>> <=> n # 0
    BY <1>2, EmptySeq
  <2>2. QED
    BY <1>2, <1>3, <2>1
<1>10. Reader(R, m, f[n]) =
         IF P # <<>> /\ P[n].cont THEN Paging!Joined(f[n], x.strings) ELSE f[n] \o x.strings
  BY <1>3, <1>9 DEF Reader
<1>11. QED
  BY <1>1, <1>2, <1>6, <1>7, <1>8, <1>10

LEMMA NothingRead == Reads(<<>>) = <<>> /\ <<>> \in Seq(Page)
<1>1. <<>> \in Seq(Page) /\ Len(<<>>) = 0
  BY EmptySeq
<1>2. QED
  BY <1>1, ReadFacts DEF Reads, Follows

LEMMA ReceivedIs == Paging!Received = Reads(Paging!Pages)
BY DEF Paging!Received, Reads, ReadTo

-----------------------------------------------------------------------------
(* What the pages sent and the open page hold together, and with it the part  *)
(* of a line that is still to come.                                           *)

Held(r, c, p) == IF c THEN Paging!Joined(r, p) ELSE r \o p
Gathers(r, c, p, busy, x) ==
  IF ~busy THEN Held(r, c, p)
  ELSE IF p = <<>> /\ c THEN Paging!Joined(Held(r, c, p), <<x>>)
  ELSE Append(Held(r, c, p), x)

LEMMA HeldTyped ==
  ASSUME NEW r \in Seq(Strings), NEW c \in BOOLEAN, c => r # <<>>, NEW p \in Seq(Strings)
  PROVE  /\ Held(r, c, p) \in Seq(Strings) /\ Held(r, c, <<>>) = r
         /\ (c \/ p # <<>>) => Held(r, c, p) # <<>>
<1>1. CASE c
  BY <1>1, JoinedTyped DEF Held
<1>2. CASE ~c
  <2>1. r \o p \in Seq(Strings) /\ r \o <<>> = r
    BY ConcatProperties, ConcatEmptySeq
  <2>2. p # <<>> => r \o p # <<>>
    BY ConcatEqualIffEmpty
  <2>3. QED
    BY <1>2, <2>1, <2>2 DEF Held
<1>3. QED
  BY <1>1, <1>2

LEMMA GatherPrint ==
  ASSUME NEW h \in Seq(Strings), NEW t \in Seq(Strings), t # <<>>
  PROVE  Append(h, Head(t)) \o Tail(t) = h \o t
<1>1. PICK x \in Strings, u \in Seq(Strings) : x = Head(t) /\ u = Tail(t)
  BY HeadTailProperties
<1>2. t = <<x>> \o u /\ <<x>> \in Seq(Strings)
  <2>1. <<x>> \in Seq(Strings) /\ Len(<<x>>) = 1 /\ <<x>>[1] = x
    OBVIOUS
  <2>2. PICK v \in Seq(Strings) : v = <<x>> \o u
    BY <2>1, ConcatProperties
  <2>3. Len(v) = 1 + Len(u) /\ \A i \in 1..(1 + Len(u)) : v[i] = IF i <= 1 THEN x ELSE u[i - 1]
    BY <2>1, <2>2, ConcatProperties
  <2>4. Len(u) = Len(t) - 1 /\ (\A i \in 1..Len(u) : u[i] = t[i + 1]) /\ x = t[1]
    BY <1>1, HeadTailProperties
  <2>5. Len(t) \in Nat /\ Len(u) \in Nat
    BY LenProperties
  <2>6. ASSUME NEW i \in 1..Len(t) PROVE t[i] = v[i]
    <3>1. CASE i = 1
      BY <3>1, <2>3, <2>4, <2>5
    <3>2. CASE i > 1
      <4>1. i - 1 \in 1..Len(u) /\ (i - 1) + 1 = i /\ i \in 1..(1 + Len(u)) /\ ~(i <= 1)
        BY <3>2, <2>4, <2>5
      <4>2. v[i] = u[i - 1]
        BY <2>3, <4>1
      <4>3. u[i - 1] = t[i]
        BY <2>4, <4>1
      <4>4. QED
        BY <4>2, <4>3
    <3>3. QED
      BY <3>1, <3>2
  <2>7. Len(t) = Len(v)
    BY <2>3, <2>4, <2>5
  <2>8. t = v
    BY <2>6, <2>7, SeqEqual
  <2>9. QED
    BY <2>1, <2>2, <2>8
<1>3. Append(h, x) = h \o <<x>>
  BY AppendIsConcat
<1>4. (h \o <<x>>) \o u = h \o (<<x>> \o u)
  BY <1>2, ConcatAssociative
<1>5. QED
  BY <1>1, <1>2, <1>3, <1>4

LEMMA GatherWhole ==
  ASSUME NEW r \in Seq(Strings), NEW c \in BOOLEAN, c => r # <<>>,
         NEW p \in Seq(Strings), NEW x \in Strings
  PROVE  Held(r, c, Append(p, x)) = Gathers(r, c, p, TRUE, x)
<1>1. CASE c /\ p = <<>>
  <2>1. Append(p, x) = <<x>>
    BY <1>1
  <2>2. Held(r, c, p) = r
    BY <1>1, HeldTyped
  <2>3. QED
    BY <1>1, <2>1, <2>2 DEF Held, Gathers
<1>2. CASE c /\ p # <<>>
  BY <1>2, JoinedAppend DEF Held, Gathers
<1>3. CASE ~c
  <2>1. Append(p, x) = p \o <<x>> /\ <<x>> \in Seq(Strings)
    BY AppendIsConcat
  <2>2. PICK h \in Seq(Strings) : h = r \o p
    BY ConcatProperties
  <2>3. Append(h, x) = h \o <<x>>
    BY AppendIsConcat
  <2>4. r \o (p \o <<x>>) = (r \o p) \o <<x>>
    BY <2>1, ConcatAssociative
  <2>5. QED
    BY <1>3, <2>1, <2>2, <2>3, <2>4 DEF Held, Gathers
<1>4. QED
  BY <1>1, <1>2, <1>3

-----------------------------------------------------------------------------
(* The inductive invariant.                                                   *)

LastCont == sent # <<>> /\ sent[Len(sent)].cont

PagesTyped ==
  /\ output \in Outputs /\ output \in Seq(Strings) /\ limit \in Limits /\ limit \in Nat
  /\ todo \in Seq(Strings) /\ rest \in Strings /\ printing \in BOOLEAN /\ dropped \in BOOLEAN
  /\ page \in Seq(Strings) /\ sent \in Seq(Page) /\ LastCont \in BOOLEAN

PageFits(p, c) == Paging!Measure(p) + (IF c THEN 2 ELSE 0) <= limit

PagesFit ==
  /\ PageFits(page, FALSE)
  /\ \A k \in 1..Len(sent) : PageFits(sent[k].strings, sent[k].cont)

CharsWhole(p) == \A i \in 1..Len(p) : Paging!WholeChars(p[i])

PagesWhole == CharsWhole(output) =>
  /\ CharsWhole(todo) /\ Paging!WholeChars(rest) /\ CharsWhole(page)
  /\ \A k \in 1..Len(sent) : CharsWhole(sent[k].strings)

\* A page that ends mid-line has its line still being printed, and what the pages
\* hold, with what is left of that line and of the output, is the output.
PagesGather ==
  /\ Reads(sent) \in Seq(Strings)
  /\ LastCont => Reads(sent) # <<>>
  /\ ~dropped =>
       /\ (page = <<>> /\ LastCont) => printing
       /\ Gathers(Reads(sent), LastCont, page, printing, rest) \o todo = output

PagesInv == PagesTyped /\ PagesFit /\ PagesWhole /\ PagesGather

LEMMA SentGrows ==
  ASSUME PagesTyped, NEW p \in Seq(Strings), NEW c \in BOOLEAN,
         sent' = Append(sent, [strings |-> p, cont |-> c])
  PROVE  /\ sent' \in Seq(Page) /\ LastCont' = c
         /\ Reads(sent') = Held(Reads(sent), LastCont, p)
         /\ \A k \in 1..Len(sent') : \/ sent'[k] = [strings |-> p, cont |-> c]
                                     \/ k \in 1..Len(sent) /\ sent'[k] = sent[k]
<1>1. PICK s \in Seq(Page), x \in Page : s = sent /\ x = [strings |-> p, cont |-> c]
  BY DEF PagesTyped, Page
<1>2. x.strings = p /\ x.cont = c
  BY <1>1
<1>3. PICK t \in Seq(Page) : t = sent' /\ t = Append(s, x)
  <2>1. Append(s, x) \in Seq(Page)
    BY AppendProperties
  <2>2. QED
    BY <1>1, <2>1
<1>n. PICK n \in Nat : n = Len(s)
  BY LenProperties
<1>4. t # <<>> /\ Len(t) = n + 1 /\ t[n + 1] = x /\ \A k \in 1..n : t[k] = s[k]
  <2>1. /\ Append(s, x) # <<>> /\ Len(Append(s, x)) = Len(s) + 1
        /\ Append(s, x)[Len(s) + 1] = x /\ \A k \in 1..Len(s) : Append(s, x)[k] = s[k]
    BY AppendProperties
  <2>2. QED
    BY <1>3, <1>n, <2>1
<1>5. (t # <<>> /\ t[Len(t)].cont) = c
  BY <1>2, <1>4
<1>6. Reads(t) = IF s # <<>> /\ s[Len(s)].cont THEN Paging!Joined(Reads(s), p) ELSE Reads(s) \o p
  BY <1>2, <1>3, ReadsGrow
<1>7. LastCont' = c
  BY <1>3, <1>5 DEF LastCont
<1>8. Reads(sent') = Held(Reads(sent), LastCont, p)
  BY <1>1, <1>3, <1>6 DEF LastCont, Held
<1>9. \A k \in 1..Len(t) : t[k] = x \/ (k \in 1..Len(s) /\ t[k] = s[k])
  <2> TAKE k \in 1..Len(t)
  <2>1. k \in 1..n \/ k = n + 1
    BY <1>4
  <2>2. CASE k = n + 1
    BY <1>4, <2>2
  <2>3. CASE k \in 1..n
    BY <1>4, <1>n, <2>3
  <2>4. QED
    BY <2>1, <2>2, <2>3
<1>10. QED
  BY <1>1, <1>3, <1>7, <1>8, <1>9

LEMMA ReceivedHeld ==
  ASSUME PagesTyped PROVE Paging!Received = Held(Reads(sent), LastCont, page)
<1>1. PICK s \in Seq(Page), x \in Page : s = sent /\ x = [strings |-> page, cont |-> FALSE]
  BY DEF PagesTyped, Page
<1>2. Reads(Append(s, x)) =
        IF s # <<>> /\ s[Len(s)].cont THEN Paging!Joined(Reads(s), x.strings)
        ELSE Reads(s) \o x.strings
  BY ReadsGrow
<1>3. x.strings = page
  BY <1>1
<1>4. Paging!Pages = Append(s, x)
  BY <1>1 DEF Paging!Pages
<1>5. QED
  BY <1>1, <1>2, <1>3, <1>4, ReceivedIs DEF Held, LastCont

LEMMA PagesStart == ASSUME Paging!Init PROVE PagesInv
<1>1. sent = <<>> /\ page = <<>> /\ rest = <<>> /\ ~printing /\ ~dropped /\ todo = output
  BY DEF Paging!Init
<1>2. PagesTyped /\ ~LastCont
  <2>1. output \in Outputs /\ output \in Seq(Strings) /\ limit \in Limits /\ limit \in Nat
    BY PagesAssumption DEF Paging!Init, Strings
  <2>2. <<>> \in Seq(Strings) /\ <<>> \in Strings /\ <<>> \in Seq(Page)
    BY EmptySeq DEF Strings
  <2>3. ~LastCont /\ LastCont \in BOOLEAN
    BY <1>1 DEF LastCont
  <2>4. QED
    BY <1>1, <2>1, <2>2, <2>3 DEF PagesTyped, Paging!Init
<1>3. Len(<<>>) = 0
  OBVIOUS
<1>4. PagesFit
  BY <1>1, <1>2, <1>3, EmptyPage DEF PagesFit, PageFits, PagesTyped
<1>5. PagesWhole
  BY <1>1, <1>3 DEF PagesWhole, CharsWhole, Paging!WholeChars
<1>6. PagesGather
  <2>1. Reads(sent) = <<>> /\ <<>> \in Seq(Strings)
    BY <1>1, NothingRead
  <2>2. Held(<<>>, FALSE, <<>>) = <<>>
    BY <2>1, HeldTyped
  <2>3. <<>> \o output = output
    BY <1>2, ConcatEmptySeq DEF PagesTyped
  <2>4. Gathers(Reads(sent), LastCont, page, printing, rest) = <<>>
    BY <1>1, <1>2, <2>1, <2>2 DEF Gathers, Held
  <2>5. QED
    BY <1>1, <1>2, <2>1, <2>3, <2>4 DEF PagesGather
<1>7. QED
  BY <1>2, <1>4, <1>5, <1>6 DEF PagesInv

LEMMA PrintKeeps == ASSUME PagesInv, Paging!PrintLine PROVE PagesInv'
<1>1. PICK x \in Strings, u \in Seq(Strings) : x = Head(todo) /\ u = Tail(todo)
  BY HeadTailProperties DEF PagesInv, PagesTyped, Paging!PrintLine
<1>2. /\ rest' = x /\ todo' = u /\ printing' = TRUE
      /\ UNCHANGED <<output, limit, page, sent, dropped>>
  BY <1>1 DEF Paging!PrintLine
<1>3. LastCont' = LastCont
  BY <1>2 DEF LastCont
<1>4. PagesTyped'
  BY <1>2, <1>3 DEF PagesTyped, PagesInv
<1>5. PagesFit'
  BY <1>2 DEF PagesFit, PageFits, PagesInv
<1>6. ASSUME CharsWhole(todo) PROVE CharsWhole(u) /\ Paging!WholeChars(x)
  <2>1. PICK t \in Seq(Strings) : t = todo /\ t # <<>>
    BY DEF PagesInv, PagesTyped, Paging!PrintLine
  <2>2. Len(u) = Len(t) - 1 /\ (\A i \in 1..Len(u) : u[i] = t[i + 1]) /\ x = t[1]
    BY <1>1, <2>1, HeadTailProperties
  <2>3. Len(t) \in Nat \ {0}
    BY <2>1, EmptySeq
  <2>4. \A i \in 1..Len(u) : i + 1 \in 1..Len(t)
    BY <2>2, <2>3
  <2>5. 1 \in 1..Len(t)
    BY <2>3
  <2>6. QED
    BY <1>6, <2>1, <2>2, <2>4, <2>5 DEF CharsWhole
<1>7. PagesWhole'
  BY <1>2, <1>6 DEF PagesWhole, PagesInv
<1>8. PagesGather'
  <2>1. SUFFICES ASSUME ~dropped
                 PROVE  /\ (page' = <<>> /\ LastCont') => printing'
                        /\ Gathers(Reads(sent'), LastCont', page', printing', rest') \o todo'
                             = output'
    BY <1>2, <1>3 DEF PagesGather, PagesInv
  <2>2. PICK h : h = Held(Reads(sent), LastCont, page)
    OBVIOUS
  <2>3. h \in Seq(Strings)
    BY <2>2, HeldTyped DEF PagesInv, PagesTyped, PagesGather
  <2>4. ~printing /\ ~(page = <<>> /\ LastCont) /\ todo # <<>>
    BY <2>1 DEF PagesInv, PagesGather, Paging!PrintLine
  <2>5. h \o todo = output
    BY <2>1, <2>2, <2>4 DEF PagesInv, PagesGather, Gathers
  <2>6. Gathers(Reads(sent'), LastCont', page', printing', rest') = Append(h, x)
    BY <1>2, <1>3, <2>2, <2>4 DEF Gathers
  <2>7. Append(h, x) \o u = h \o todo
    BY <1>1, <2>3, <2>4, GatherPrint DEF PagesInv, PagesTyped
  <2>8. QED
    BY <1>2, <2>5, <2>6, <2>7
<1>9. QED
  BY <1>4, <1>5, <1>7, <1>8 DEF PagesInv

LEMMA WholeKeeps == ASSUME PagesInv, Paging!AddWhole PROVE PagesInv'
<1>1. PICK p \in Seq(Strings), x \in Strings : p = page /\ x = rest
  BY DEF PagesInv, PagesTyped
<1>2. /\ page' = Append(p, x) /\ rest' = <<>> /\ printing' = FALSE /\ printing
      /\ UNCHANGED <<output, limit, todo, sent, dropped>>
  BY <1>1 DEF Paging!AddWhole, PagesInv, PagesTyped
<1>3. LastCont' = LastCont
  BY <1>2 DEF LastCont
<1>4. PagesTyped'
  <2>1. Append(p, x) \in Seq(Strings)
    BY AppendProperties
  <2>2. <<>> \in Strings
    BY EmptySeq DEF Strings
  <2>3. QED
    BY <1>2, <1>3, <2>1, <2>2 DEF PagesTyped, PagesInv
<1>5. PagesFit'
  <2>1. /\ Paging!Measure(p) \in Nat
        /\ Paging!Measure(Append(p, x))
             = Paging!Measure(p) + Paging!StrLen(x) + (IF p = <<>> THEN 2 ELSE 3)
        /\ Paging!StrLen(x) \in Nat
    BY PageGrows, StrLenFacts DEF Strings
  <2>2. /\ Paging!Measure(p) + 3 <= limit
        /\ Paging!StrLen(x)
             <= IF Paging!Measure(p) + 3 < limit THEN limit - (Paging!Measure(p) + 3) ELSE 0
    BY <1>1 DEF Paging!AddWhole, Paging!Whole, Paging!Used, Paging!Room
  <2>3. limit \in Nat
    BY DEF PagesInv, PagesTyped
  <2>4. Paging!Measure(Append(p, x)) <= limit /\ Paging!Measure(Append(p, x)) \in Nat
    BY <2>1, <2>2, <2>3
  <2>5. Paging!Measure(page') + 0 <= limit'
    BY <1>2, <2>3, <2>4
  <2>6. QED
    BY <1>2, <2>5 DEF PagesFit, PageFits, PagesInv
<1>6. PagesWhole'
  <2>1. ASSUME CharsWhole(p), Paging!WholeChars(x) PROVE CharsWhole(Append(p, x))
    <3>1. PICK q \in Seq(Strings) : q = Append(p, x)
      BY AppendProperties
    <3>0. PICK n \in Nat : n = Len(p)
      BY LenProperties
    <3>2. Len(q) = n + 1 /\ q[n + 1] = x /\ \A i \in 1..n : q[i] = p[i]
      BY <3>0, <3>1, AppendProperties
    <3>3. ASSUME NEW i \in 1..(n + 1) PROVE Paging!WholeChars(q[i])
      <4>1. CASE i = n + 1
        BY <2>1, <3>2, <4>1
      <4>2. CASE i \in 1..n
        BY <2>1, <3>0, <3>2, <4>2 DEF CharsWhole
      <4>3. QED
        BY <4>1, <4>2
    <3>4. QED
      BY <3>1, <3>2, <3>3 DEF CharsWhole
  <2>2. Paging!WholeChars(<<>>)
    BY DEF Paging!WholeChars
  <2>3. QED
    BY <1>1, <1>2, <2>1, <2>2 DEF PagesWhole, PagesInv
<1>7. PagesGather'
  <2>1. SUFFICES ASSUME ~dropped
                 PROVE  /\ (page' = <<>> /\ LastCont') => printing'
                        /\ Gathers(Reads(sent'), LastCont', page', printing', rest') \o todo'
                             = output'
    BY <1>2, <1>3 DEF PagesGather, PagesInv
  <2>2. Append(p, x) # <<>>
    BY AppendProperties
  <2>3. Held(Reads(sent), LastCont, Append(p, x)) = Gathers(Reads(sent), LastCont, p, TRUE, x)
    BY GatherWhole DEF PagesInv, PagesTyped, PagesGather
  <2>4. Gathers(Reads(sent'), LastCont', page', printing', rest')
          = Held(Reads(sent), LastCont, Append(p, x))
    BY <1>2, <1>3 DEF Gathers
  <2>5. Gathers(Reads(sent), LastCont, page, printing, rest)
          = Gathers(Reads(sent), LastCont, p, TRUE, x)
    BY <1>1, <1>2 DEF Gathers
  <2>6. QED
    BY <1>2, <2>1, <2>2, <2>3, <2>4, <2>5 DEF PagesInv, PagesGather
<1>8. QED
  BY <1>4, <1>5, <1>6, <1>7 DEF PagesInv

LEMMA FreshKeeps == ASSUME PagesInv, Paging!FreshPage PROVE PagesInv'
<1>1. PICK p \in Seq(Strings) : p = page /\ p # <<>>
  BY DEF PagesInv, PagesTyped, Paging!FreshPage
<1>2. /\ sent' = Append(sent, [strings |-> p, cont |-> FALSE]) /\ page' = <<>> /\ printing
      /\ UNCHANGED <<output, limit, todo, rest, printing, dropped>>
  BY <1>1 DEF Paging!FreshPage
<1>3. /\ sent' \in Seq(Page) /\ LastCont' = FALSE
      /\ Reads(sent') = Held(Reads(sent), LastCont, p)
      /\ \A k \in 1..Len(sent') : \/ sent'[k] = [strings |-> p, cont |-> FALSE]
                                  \/ k \in 1..Len(sent) /\ sent'[k] = sent[k]
  BY <1>2, SentGrows DEF PagesInv
<1>4. PagesTyped'
  BY <1>2, <1>3, EmptySeq DEF PagesTyped, PagesInv
<1>5. PagesFit'
  <2>1. \A k \in 1..Len(sent') : PageFits(sent'[k].strings, sent'[k].cont)
    BY <1>1, <1>3 DEF PagesInv, PagesFit, PageFits
  <2>2. Paging!Measure(<<>>) + 0 <= limit
    BY EmptyPage DEF PagesInv, PagesTyped
  <2>3. QED
    BY <1>2, <2>1, <2>2 DEF PagesFit, PageFits
<1>6. PagesWhole'
  <2>1. CharsWhole(<<>>)
    BY DEF CharsWhole
  <2>2. ASSUME CharsWhole(output) PROVE \A k \in 1..Len(sent') : CharsWhole(sent'[k].strings)
    BY <1>1, <1>3, <2>2 DEF PagesInv, PagesWhole
  <2>3. QED
    BY <1>2, <2>1, <2>2 DEF PagesInv, PagesWhole
<1>7. PagesGather'
  <2>1. PICK h : h = Held(Reads(sent), LastCont, p)
    OBVIOUS
  <2>2. h \in Seq(Strings)
    BY <2>1, HeldTyped DEF PagesInv, PagesTyped, PagesGather
  <2>3. Held(h, FALSE, <<>>) = h
    BY <2>2, HeldTyped, EmptySeq
  <2>4. Gathers(Reads(sent'), LastCont', page', printing', rest') = Append(h, rest)
    BY <1>2, <1>3, <2>1, <2>3 DEF Gathers
  <2>5. Gathers(Reads(sent), LastCont, page, printing, rest) = Append(h, rest)
    BY <1>1, <1>2, <2>1 DEF Gathers
  <2>6. QED
    BY <1>2, <1>3, <2>1, <2>2, <2>4, <2>5 DEF PagesGather, PagesInv
<1>8. QED
  BY <1>4, <1>5, <1>6, <1>7 DEF PagesInv

LEMMA DropKeeps == ASSUME PagesInv, Paging!DropLine PROVE PagesInv'
<1>1. /\ dropped' = TRUE /\ rest' = <<>> /\ printing' = FALSE
      /\ UNCHANGED <<output, limit, todo, page, sent>>
  BY DEF Paging!DropLine
<1>2. LastCont' = LastCont
  BY <1>1 DEF LastCont
<1>3. PagesTyped'
  BY <1>1, <1>2, EmptySeq DEF PagesTyped, PagesInv, Strings
<1>4. PagesFit'
  BY <1>1 DEF PagesFit, PageFits, PagesInv
<1>5. PagesWhole'
  BY <1>1 DEF PagesWhole, PagesInv, Paging!WholeChars
<1>6. PagesGather'
  BY <1>1, <1>2 DEF PagesGather, PagesInv
<1>7. QED
  BY <1>3, <1>4, <1>5, <1>6 DEF PagesInv

LEMMA PieceKeeps == ASSUME PagesInv, Paging!AddPiece PROVE PagesInv'
<1>0. PICK x \in Strings : x = rest
  BY DEF PagesInv, PagesTyped
<1>1. PICK n : x = rest /\ n = Paging!Piece(x) /\ n > 0 /\ page = <<>>
  BY <1>0 DEF Paging!AddPiece
<1>2. PICK a, b : a = SubSeq(x, 1, n) /\ b = SubSeq(x, n + 1, Len(x))
  OBVIOUS
<1>3. /\ sent' = Append(sent, [strings |-> <<a>>, cont |-> TRUE]) /\ rest' = b /\ printing
      /\ UNCHANGED <<output, limit, todo, printing, page, dropped>>
  BY <1>1, <1>2 DEF Paging!AddPiece
<1>4. limit \in Nat
  BY DEF PagesInv, PagesTyped
<1>5. PICK budget \in Nat : limit = budget + 5 /\ n = Paging!JsonFit(x, budget)
  <2>1. Paging!Used = 3
    BY <1>1, EmptyPage DEF Paging!Used
  <2>2. Paging!Room > 2
    BY <1>1 DEF Paging!Piece
  <2>3. Paging!Room = limit - 3 /\ limit - 3 > 2
    BY <1>4, <2>1, <2>2 DEF Paging!Room
  <2>4. n = Paging!JsonFit(x, (limit - 3) - 2)
    BY <1>1, <2>2, <2>3 DEF Paging!Piece
  <2>5. limit - 5 \in Nat /\ (limit - 3) - 2 = limit - 5 /\ limit = (limit - 5) + 5
    BY <1>4, <2>3
  <2>6. QED
    BY <2>4, <2>5
<1>6. /\ n \in 0..Len(x) /\ Paging!StrLen(a) <= budget
      /\ Paging!WholeChars(x) => Paging!WholeChars(a)
  BY <1>2, <1>5, FitSound DEF Strings
<1>7. a \in Strings /\ b \in Strings /\ (Paging!WholeChars(x) => Paging!WholeChars(b)) /\ a \o b = x
  <2>1. a \in Strings
    BY <1>2, <1>6, PrefixCosts DEF Strings
  <2>2. b \in Strings /\ (Paging!WholeChars(x) => Paging!WholeChars(b))
    BY <1>2, <1>6, SuffixWhole DEF Strings
  <2>3. a \o b = x
    BY <1>2, <1>6, SplitLine
  <2>4. QED
    BY <2>1, <2>2, <2>3
<1>8. <<a>> \in Seq(Strings) /\ <<a>> = Append(<<>>, a) /\ <<>> \in Seq(Strings)
  BY <1>7
<1>9. /\ sent' \in Seq(Page) /\ LastCont' = TRUE
      /\ Reads(sent') = Held(Reads(sent), LastCont, <<a>>)
      /\ \A k \in 1..Len(sent') : \/ sent'[k] = [strings |-> <<a>>, cont |-> TRUE]
                                  \/ k \in 1..Len(sent) /\ sent'[k] = sent[k]
  BY <1>3, <1>8, SentGrows DEF PagesInv
<1>10. PagesTyped'
  BY <1>3, <1>7, <1>9 DEF PagesTyped, PagesInv
<1>11. PagesFit'
  <2>1. Paging!Measure(Append(<<>>, a)) = Paging!Measure(<<>>) + Paging!StrLen(a) + 2
    BY <1>7, <1>8, PageGrows DEF Strings
  <2>2. Paging!Measure(<<a>>) = Paging!StrLen(a) + 2 /\ Paging!StrLen(a) \in Nat
    BY <1>7, <1>8, <2>1, EmptyPage, StrLenFacts DEF Strings
  <2>3. Paging!Measure(<<a>>) + 2 <= limit
    BY <1>5, <1>6, <2>2
  <2>4. PageFits(<<a>>, TRUE)
    BY <2>3 DEF PageFits
  <2>5. ASSUME NEW k \in 1..Len(sent') PROVE PageFits(sent'[k].strings, sent'[k].cont)
    <3>1. CASE sent'[k] = [strings |-> <<a>>, cont |-> TRUE]
      BY <2>3, <3>1 DEF PageFits
    <3>2. CASE k \in 1..Len(sent) /\ sent'[k] = sent[k]
      BY <3>2 DEF PagesInv, PagesFit
    <3>3. QED
      BY <1>9, <3>1, <3>2
  <2>6. QED
    BY <1>3, <2>5 DEF PagesInv, PagesFit, PageFits
<1>12. PagesWhole'
  <2>1. ASSUME CharsWhole(output) PROVE Paging!WholeChars(b) /\ CharsWhole(<<a>>)
    <3>1. Paging!WholeChars(x)
      BY <1>1, <2>1 DEF PagesInv, PagesWhole
    <3>2. Len(<<a>>) = 1 /\ <<a>>[1] = a
      OBVIOUS
    <3>3. QED
      BY <1>6, <1>7, <3>1, <3>2 DEF CharsWhole
  <2>2. ASSUME CharsWhole(output) PROVE \A k \in 1..Len(sent') : CharsWhole(sent'[k].strings)
    BY <1>9, <2>1, <2>2 DEF PagesInv, PagesWhole
  <2>3. QED
    BY <1>3, <2>1, <2>2 DEF PagesInv, PagesWhole
<1>13. PagesGather'
  <2>1. PICK r \in Seq(Strings) : r = Reads(sent) /\ (LastCont => r # <<>>)
    BY DEF PagesInv, PagesGather
  <2>2. PICK q \in Seq(Strings) \ {<<>>} : q = Held(r, LastCont, <<a>>)
    <3>1. LastCont \in BOOLEAN /\ <<a>> \in Seq(Strings) /\ <<a>> # <<>>
      BY <1>8 DEF PagesInv, PagesTyped
    <3>2. PICK p \in Seq(Strings) : p = <<a>>
      BY <3>1
    <3>3. p # <<>>
      BY <3>1, <3>2
    <3>4. Held(r, LastCont, p) \in Seq(Strings)
      BY <2>1, <3>1, HeldTyped
    <3>5. Held(r, LastCont, p) # <<>>
      BY <2>1, <3>1, <3>3, HeldTyped
    <3>6. QED
      BY <3>2, <3>4, <3>5
  <2>3. Reads(sent') = q
    BY <1>9, <2>1, <2>2
  <2>4. Held(r, LastCont, <<>>) = r
    BY <1>8, <2>1, HeldTyped DEF PagesInv, PagesTyped
  <2>5. Held(q, LastCont', <<>>) = q
    BY <1>8, <1>9, JoinedTyped DEF Held
  <2>6. Gathers(Reads(sent'), LastCont', page', printing', rest') = Paging!Joined(q, <<b>>)
    BY <1>1, <1>3, <1>9, <2>3, <2>5 DEF Gathers
  <2>7. CASE LastCont
    <3>1. q = Paging!Joined(r, <<a>>)
      BY <2>2, <2>7 DEF Held
    <3>2. Paging!Joined(q, <<b>>) = Paging!Joined(r, <<a \o b>>)
      BY <1>7, <2>1, <2>7, <3>1, JoinedPieces
    <3>3. Gathers(Reads(sent), LastCont, page, printing, rest) = Paging!Joined(r, <<x>>)
      BY <1>1, <1>3, <2>1, <2>4, <2>7 DEF Gathers
    <3>4. Paging!Joined(q, <<b>>) = Paging!Joined(r, <<x>>)
      BY <1>7, <3>2
    <3>5. QED
      BY <1>1, <1>3, <1>9, <2>3, <2>6, <3>3, <3>4 DEF PagesGather, PagesInv
  <2>8. CASE ~LastCont
    <3>1. q = Append(r, a)
      BY <1>7, <2>2, <2>8, AppendIsConcat DEF Held
    <3>2. Paging!Joined(q, <<b>>) = Append(r, a \o b)
      BY <1>7, <3>1, JoinedPieces
    <3>3. Gathers(Reads(sent), LastCont, page, printing, rest) = Append(r, x)
      BY <1>1, <1>3, <2>1, <2>4, <2>8 DEF Gathers
    <3>4. Paging!Joined(q, <<b>>) = Append(r, x)
      BY <1>7, <3>2
    <3>5. QED
      BY <1>1, <1>3, <1>9, <2>3, <2>6, <3>3, <3>4 DEF PagesGather, PagesInv
  <2>9. QED
    BY <2>7, <2>8
<1>14. QED
  BY <1>10, <1>11, <1>12, <1>13 DEF PagesInv

LEMMA PagesSay ==
  ASSUME PagesInv PROVE Paging!TypeOK /\ Paging!PagesSound /\ Paging!Reassembles
<1>1. Paging!TypeOK
  <2>1. \A k \in 1..Len(todo) : todo[k] \in Strings
    BY ElementOfSeq DEF PagesInv, PagesTyped
  <2>2. \A k \in 1..Len(page) : page[k] \in Strings
    BY ElementOfSeq DEF PagesInv, PagesTyped
  <2>3. \A k \in 1..Len(sent) : sent[k] \in Page
    BY ElementOfSeq DEF PagesInv, PagesTyped
  <2>4. QED
    BY <2>1, <2>2, <2>3 DEF PagesInv, PagesTyped, Paging!TypeOK, Strings, Page
<1>2. Paging!PagesSound
  BY DEF Paging!PagesSound, PagesInv, PagesFit, PageFits, PagesWhole, CharsWhole
<1>3. ASSUME Paging!Printed, ~dropped PROVE Paging!Received = output
  <2>1. PICK h : h = Held(Reads(sent), LastCont, page)
    OBVIOUS
  <2>2. h \in Seq(Strings)
    BY <2>1, HeldTyped DEF PagesInv, PagesTyped, PagesGather
  <2>3. Gathers(Reads(sent), LastCont, page, printing, rest) = h
    BY <1>3, <2>1 DEF Gathers, Paging!Printed
  <2>4. h \o <<>> = h
    BY <2>2, ConcatEmptySeq
  <2>5. h = output
    BY <1>3, <2>3, <2>4 DEF Paging!Printed, PagesInv, PagesGather
  <2>6. QED
    BY <2>1, <2>5, ReceivedHeld DEF PagesInv
<1>4. QED
  BY <1>1, <1>2, <1>3 DEF Paging!Reassembles

\* The scene of the pages moves them by the actions above and no other scene
\* touches them.
LEMMA PagesStay == ASSUME PagesInv, SceneNext \/ UNCHANGED allVars, scene = "pages"
                   PROVE  PagesInv'
<1>1. CASE Paging!Next
  BY <1>1, PrintKeeps, WholeKeeps, FreshKeeps, DropKeeps, PieceKeeps DEF Paging!Next
<1>2. CASE UNCHANGED pageVars
  BY <1>2 DEF pageVars, PagesInv, PagesTyped, LastCont, PagesFit, PageFits, PagesWhole,
              CharsWhole, PagesGather
<1>3. Paging!Next \/ UNCHANGED pageVars
  BY DEF SceneNext, allVars
<1>4. QED
  BY <1>1, <1>2, <1>3

\* However runCli cuts an answer, its pages stay within the limit and between two
\* characters, and a reader of them has every line whole and in order unless the
\* last page says that one was lost.
THEOREM PagesAreSound == SceneSpec => []AnswerPages
<1> DEFINE Inv == scene = "pages" => PagesInv
<1>1. SceneInit => Inv
  BY PagesStart DEF SceneInit
<1>2. Inv /\ [SceneNext]_allVars => Inv'
  <2>1. SUFFICES ASSUME Inv, SceneNext \/ UNCHANGED allVars, scene' = "pages" PROVE PagesInv'
    OBVIOUS
  <2>2. scene = "pages"
    BY <2>1 DEF SceneNext, allVars
  <2>3. QED
    BY <2>1, <2>2, PagesStay
<1>3. Inv => AnswerPages
  BY PagesSay DEF AnswerPages
<1>4. QED
  BY <1>1, <1>2, <1>3, PTL DEF SceneSpec
=============================================================================
