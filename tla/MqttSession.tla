---------------------------- MODULE MqttSession -----------------------------
(* What one MQTT session carries: the offline publish ring with its drop of   *)
(* the oldest, the minimum send interval, the flush at every connect, and the *)
(* retained topics with the manifest that lists them.                         *)
EXTENDS Integers, Sequences, FiniteSets

CONSTANTS
  QueueSize,  \* MQTT_QUEUE_SIZE
  MaxMsgs,    \* bound: messages published
  Paced       \* mqtt.send_interval_s is not zero

VARIABLES
  up,         \* _client.connected()
  ring,       \* _queue: each slot's message and valid flag
  head, tail, count,
  gap,        \* the send interval has passed since the last send
  made,       \* messages made so far; a message is its number
  accepted,   \* the messages enqueue took since the ring was last dropped
  received,   \* the messages the broker got
  retained,   \* _retainedTopics
  published,  \* _manifestPublished
  dirty,      \* _manifestDirty
  held,       \* retained topics the broker holds from this session
  listed,     \* the topics in the manifest it holds
  cellular,   \* s_cellularActive
  seen,       \* wasConnected: what the SHT31 module saw of the session last
  done        \* its _haPublished

queueVars    == <<ring, head, tail, count, accepted>>
manifestVars == <<retained, published, dirty, held, listed>>
sensorVars   == <<seen, done>>
vars == <<up, queueVars, gap, made, received, manifestVars, cellular, sensorVars>>

Msgs    == 1..MaxMsgs
Slots   == 0..(QueueSize - 1)
Always  == {"info"}    \* the set of every connect; status and discovery are like it
Late    == {"sht31"}   \* a module's own discovery
Topics  == Always \cup Late \cup {"manifest"}

Succ(i) == (i + 1) % QueueSize
Empty   == [i \in Slots |-> [msg |-> 0, valid |-> FALSE]]

TypeOK ==
  /\ ring \in [Slots -> [msg : 0..MaxMsgs, valid : BOOLEAN]]
  /\ head \in Slots /\ tail \in Slots /\ count \in 0..QueueSize
  /\ up \in BOOLEAN /\ gap \in BOOLEAN /\ cellular \in BOOLEAN
  /\ made \in 0..MaxMsgs /\ accepted \in Seq(Msgs) /\ received \subseteq Msgs
  /\ retained \subseteq Topics /\ held \subseteq Topics /\ listed \subseteq Topics
  /\ published \in BOOLEAN /\ dirty \in BOOLEAN /\ seen \in BOOLEAN /\ done \in BOOLEAN

Init ==
  /\ up = FALSE /\ ring = Empty /\ head = 0 /\ tail = 0 /\ count = 0 /\ gap = TRUE
  /\ made = 0 /\ accepted = <<>> /\ received = {} /\ cellular = FALSE
  /\ retained = {} /\ published = FALSE /\ dirty = FALSE /\ held = {} /\ listed = {}
  /\ seen = FALSE /\ done = FALSE

-----------------------------------------------------------------------------
(* The ring.                                                                  *)

\* Mutant: a full ring is written over without moving its head.
EnqueueKeepsHead(m) ==
  /\ ring' = [ring EXCEPT ![tail] = [msg |-> m, valid |-> TRUE]]
  /\ tail' = Succ(tail) /\ accepted' = Append(accepted, m)
  /\ count' = IF count = QueueSize THEN count ELSE count + 1
  /\ UNCHANGED head

(* enqueue: a full ring loses its oldest message.                             *)
Enqueue(m) ==
  /\ ring' = [ring EXCEPT ![tail] = [msg |-> m, valid |-> TRUE]]
  /\ tail' = Succ(tail) /\ accepted' = Append(accepted, m)
  /\ IF count = QueueSize THEN head' = Succ(head) /\ UNCHANGED count
                          ELSE count' = count + 1 /\ UNCHANGED head

(* An oversized topic or payload is refused, never clipped.                   *)
EnqueueOrRefuse(m) == Enqueue(m) \/ UNCHANGED queueVars

(* PubSubClient's publish: the broker gets it, or the write fails.            *)
Deliver(m) == received' \in {received \cup {m}, received}

Message == made < MaxMsgs /\ made' = made + 1

(* publish: sent at once with a session up and the interval over, else queued.*)
Publish ==
  /\ Message
  /\ IF up /\ (~Paced \/ gap)
       THEN Deliver(made + 1) /\ gap' = ~Paced /\ UNCHANGED queueVars
       ELSE EnqueueOrRefuse(made + 1) /\ UNCHANGED <<received, gap>>
  /\ UNCHANGED <<up, manifestVars, cellular, sensorVars>>

(* publishNow: outside the interval, queued only with no session.             *)
PublishNow ==
  /\ Message
  /\ IF up THEN Deliver(made + 1) /\ UNCHANGED queueVars
           ELSE EnqueueOrRefuse(made + 1) /\ UNCHANGED received
  /\ UNCHANGED <<up, gap, manifestVars, cellular, sensorVars>>

\* Mutant: the last message of the ring is never due.
SendQueuedKeepsLast ==
  /\ up /\ count > 1 /\ (~Paced \/ gap) /\ ring[head].valid
  /\ received' = received \cup {ring[head].msg}
  /\ ring' = [ring EXCEPT ![head].valid = FALSE]
  /\ head' = Succ(head) /\ count' = count - 1 /\ gap' = ~Paced
  /\ UNCHANGED <<up, tail, accepted, made, manifestVars, cellular, sensorVars>>

(* loop: one message a turn; a failed send leaves it at the head.             *)
SendQueued ==
  /\ up /\ count > 0 /\ (~Paced \/ gap) /\ ring[head].valid
  /\ received' = received \cup {ring[head].msg}
  /\ ring' = [ring EXCEPT ![head].valid = FALSE]
  /\ head' = Succ(head) /\ count' = count - 1 /\ gap' = ~Paced
  /\ UNCHANGED <<up, tail, accepted, made, manifestVars, cellular, sensorVars>>

GapPasses ==
  /\ ~gap /\ gap' = TRUE
  /\ UNCHANGED <<up, queueVars, made, received, manifestVars, cellular, sensorVars>>

(* The messages between head and tail, oldest first.                          *)
Queued == [k \in 1..count |-> ring[(head + k - 1) % QueueSize].msg]

(* flushQueue at connect: every message is tried once and leaves the ring,    *)
(* also one the link did not take.                                            *)
FlushQueue ==
  /\ \E k \in 0..count :
       received' = received \cup {Queued[j] : j \in 1..k}
  /\ ring' = [i \in Slots |-> IF count > 0 /\ (i - head + QueueSize) % QueueSize < count
                              THEN [ring[i] EXCEPT !.valid = FALSE] ELSE ring[i]]
  /\ head' = (head + count) % QueueSize /\ count' = 0
  /\ UNCHANGED <<tail, accepted>>

(* setCellularTransport(true): what an outage buffered is dropped.            *)
Handoff ==
  /\ ~cellular /\ cellular' = TRUE
  /\ IF count = 0 THEN UNCHANGED queueVars
     ELSE /\ ring' = [i \in Slots |-> [ring[i] EXCEPT !.valid = FALSE]]
          /\ head' = 0 /\ tail' = 0 /\ count' = 0 /\ accepted' = <<>>
  /\ UNCHANGED <<up, gap, made, received, manifestVars, sensorVars>>

(* setCellularTransport(false): the ring stays.                               *)
Handback ==
  /\ cellular /\ cellular' = FALSE
  /\ UNCHANGED <<up, queueVars, gap, made, received, manifestVars, sensorVars>>

-----------------------------------------------------------------------------
(* The retained topics and their manifest.                                    *)

\* Mutant: a topic that joins late does not mark the manifest.
RecordSilently(t) == retained' = retained \cup {t} /\ UNCHANGED dirty

(* recordRetainedTopic, for one topic of a module.                            *)
Record(t) ==
  /\ retained' = retained \cup {t}
  /\ dirty' = (dirty \/ (published /\ t \notin retained))

PublishRetained(t) == held' \in {held \cup {t}, held} /\ Record(t)

(* SHT31Module::loop: its discovery goes out once for a session it saw begin. *)
(* A session that ends and is replaced between two turns is one to it.        *)
SensorLoop ==
  /\ seen' = up
  /\ LET again == up /\ (~seen \/ ~done)
     IN IF again THEN done' = TRUE /\ \E t \in Late : PublishRetained(t)
                 ELSE UNCHANGED <<done, retained, dirty, held>>
  /\ UNCHANGED <<up, queueVars, gap, made, received, published, listed, cellular>>

(* publishRetainedManifest, from the topics recorded and held by then and the *)
(* flags as they are: it lists itself, and a failed write changes no flag.    *)
Manifest(r, h, p, d) ==
  /\ retained' = r \cup {"manifest"}
  /\ \/ /\ listed' = retained' /\ held' = h \cup {"manifest"}
        /\ published' = TRUE /\ dirty' = FALSE
     \/ /\ published' = p /\ dirty' = (d \/ (p /\ "manifest" \notin r))
        /\ held' = h /\ UNCHANGED listed

(* publishRetainedSet(true).                                                  *)
RetainedSet(r, h, p, d) ==
  \E sent \in SUBSET Always :
    Manifest(r \cup Always, h \cup sent, p, d \/ (p /\ ~(Always \subseteq r)))

ManifestDue ==
  /\ up /\ dirty /\ Manifest(retained, held, published, dirty)
  /\ UNCHANGED <<up, queueVars, gap, made, received, cellular, sensorVars>>

(* config.reload without a network change.                                    *)
Republish ==
  /\ up /\ RetainedSet(retained, held, published, dirty)
  /\ UNCHANGED <<up, queueVars, gap, made, received, cellular, sensorVars>>

-----------------------------------------------------------------------------
(* connect() from its success on, and the loss of the session.                *)

Connect ==
  /\ ~up /\ up' = TRUE
  /\ RetainedSet({}, {}, FALSE, FALSE) /\ FlushQueue
  /\ UNCHANGED <<gap, made, cellular, sensorVars>>

Drop ==
  /\ up /\ up' = FALSE
  /\ UNCHANGED <<queueVars, gap, made, received, manifestVars, cellular, sensorVars>>

Next ==
  \/ Publish \/ PublishNow \/ SendQueued \/ GapPasses \/ Handoff \/ Handback
  \/ SensorLoop \/ ManifestDue \/ Republish \/ Connect \/ Drop

Spec == Init /\ [][Next]_vars

(* The loop turns, time passes, and the broker takes what it is sent.         *)
FairSpec == Spec /\ WF_vars(SendQueued) /\ WF_vars(GapPasses)

-----------------------------------------------------------------------------
(* Properties.                                                                *)

(* The ring holds the newest messages it accepted, in order, none of them     *)
(* sent yet, and its head can be sent: a drop of the oldest, a flush and a    *)
(* handoff never leave a gap, an old message or a slot the loop cannot pass.  *)
QueueSound ==
  /\ tail = (head + count) % QueueSize
  /\ count > 0 => ring[head].valid
  /\ \A k \in 1..count :
       Queued[k] = accepted[Len(accepted) - count + k] /\ Queued[k] \notin received

(* Once this session's manifest is out and not marked, it lists every         *)
(* retained topic the broker holds from the session: the sweep at a device's  *)
(* removal misses none.                                                       *)
ManifestCovers == up /\ published /\ ~dirty => held \subseteq listed

SessionSound == QueueSound /\ ManifestCovers

(* With the session up, the ring is sent empty: nothing wedges its head.      *)
QueueDrains == []<>(count = 0 \/ ~up)
=============================================================================
