----------------------------- MODULE AdminProofs ----------------------------
(***************************************************************************)
(* What an administrator works with, for tables, bodies and numbers of     *)
(* certificates of any size and however long it goes on: an upload never   *)
(* leaves half a file nor loses a stored one, scripts run only what their  *)
(* own state registered, the identity a unit announces is the one it signs *)
(* with, lockouts, tokens and terminal grants keep their terms when their  *)
(* tables are full, and every machine stays within its types.              *)
(***************************************************************************)
EXTENDS MCAdmin, ConfigStoreProofs, SequenceTheorems, FiniteSetTheorems, TLAPS

-----------------------------------------------------------------------------
(* FileUpload.                                                                *)

Content  == [of : Files, whole : BOOLEAN] \cup {Uploads!NoFile}
BodyType == [state : {"none", "refused", "held"}, data : Seq(Nat)]
Commit   == {"check", "unpark", "park", "move", "restore", "tidy"}

\* What is held of a body is its first bytes, each in its place.
BodyInOrder ==
  /\ body \in BodyType
  /\ body.data = Uploads!Bytes(0, Len(body.data))
  /\ body.state = "held" => declared <= BodyMax

\* Where the new and the old file are during a commit.
CommitSound ==
  /\ pc = "check" => tmp \in {Uploads!Whole(target), Uploads!Torn(target)}
  /\ pc \in {"unpark", "park", "move", "restore"} => tmp = Uploads!Whole(target)
  /\ pc \in {"unpark", "park"} => ~parked
  /\ pc \in {"park", "tidy"} => files[target] # Uploads!NoFile
  /\ pc = "restore" => parked
  /\ pc \in {"move", "restore"} /\ parked => bak = Uploads!Whole(target)

\* A stored file is under its own name or parked, and an upload to another file
\* owns nothing it could strand.
CopiesKept ==
  /\ \A f \in owned : Uploads!Whole(f) \in {files[f], bak}
  /\ pc \in Commit => \A f \in owned : f = target \/ files[f] # Uploads!NoFile

UploadInv ==
  /\ Uploads!TypeOK
  /\ BodyInOrder
  /\ CommitSound
  /\ CopiesKept
  /\ Uploads!BodyExact
  /\ Uploads!TargetsWhole

LEMMA Marks ==
  /\ Uploads!NoFile \in Content
  /\ \A f \in Files : /\ Uploads!Whole(f) \in Content /\ Uploads!Torn(f) \in Content
                      /\ Uploads!Whole(f) # Uploads!NoFile
                      /\ Uploads!Whole(f).whole /\ ~Uploads!Torn(f).whole
<1>1. \A f \in Files : Uploads!Whole(f).whole = TRUE /\ Uploads!Torn(f).whole = FALSE
                       /\ Uploads!NoFile.whole = FALSE
  BY DEF Uploads!Whole, Uploads!Torn, Uploads!NoFile
<1>2. \A f \in Files : Uploads!Whole(f) \in Content /\ Uploads!Torn(f) \in Content
  BY DEF Content, Uploads!Whole, Uploads!Torn
<1>3. Uploads!NoFile \in Content
  BY DEF Content
<1>4. QED
  BY <1>1, <1>2, <1>3

\* A body that arrives in order grows by its next bytes.
LEMMA BytesGrow ==
  ASSUME NEW m \in Nat, NEW n \in Nat
  PROVE  /\ Uploads!Bytes(0, m) \in Seq(Nat) /\ Len(Uploads!Bytes(0, m)) = m
         /\ Uploads!Bytes(0, m) \o Uploads!Bytes(m, n) = Uploads!Bytes(0, m + n)
         /\ Len(Uploads!Bytes(0, m) \o Uploads!Bytes(m, n)) = m + n
         /\ Uploads!Bytes(0, m) \o Uploads!Bytes(m, n) \in Seq(Nat)
<1>1. ASSUME NEW k \in Nat, NEW j \in Nat
      PROVE  /\ Uploads!Bytes(j, k) \in Seq(Nat) /\ Len(Uploads!Bytes(j, k)) = k
             /\ \A i \in 1..k : Uploads!Bytes(j, k)[i] = j + i
  BY DEF Uploads!Bytes
<1> HIDE DEF Uploads!Bytes
<1> DEFINE s == Uploads!Bytes(0, m)
           t == Uploads!Bytes(m, n)
           u == Uploads!Bytes(0, m + n)
<1>2. /\ s \in Seq(Nat) /\ Len(s) = m /\ \A i \in 1..m : s[i] = 0 + i
      /\ t \in Seq(Nat) /\ Len(t) = n /\ \A i \in 1..n : t[i] = m + i
  BY <1>1
<1>3. m + n \in Nat
  OBVIOUS
<1>4. u \in Seq(Nat) /\ Len(u) = m + n /\ \A i \in 1..(m + n) : u[i] = 0 + i
  BY <1>1, <1>3
<1> HIDE DEF s, t, u
<1>5. /\ s \o t \in Seq(Nat) /\ Len(s \o t) = m + n
      /\ \A i \in 1..(m + n) : (s \o t)[i] = IF i <= m THEN s[i] ELSE t[i - m]
  BY <1>2, ConcatProperties
<1>6. \A i \in 1..(m + n) : (s \o t)[i] = u[i]
  <2> SUFFICES ASSUME NEW i \in 1..(m + n) PROVE (s \o t)[i] = u[i]
    OBVIOUS
  <2>1. CASE i <= m
    <3>1. i \in 1..m
      BY <2>1
    <3>2. QED
      BY <1>2, <1>4, <1>5, <2>1, <3>1
  <2>2. CASE ~(i <= m)
    <3>1. i - m \in 1..n /\ m + (i - m) = 0 + i
      BY <2>2
    <3>2. QED
      BY <1>2, <1>4, <1>5, <2>2, <3>1
  <2>3. QED
    BY <2>1, <2>2
<1>7. s \o t = u
  BY <1>4, <1>5, <1>6, SeqEqual
<1>8. QED
  BY <1>2, <1>5, <1>7 DEF s, t, u

LEMMA UploadTypes ==
  ASSUME UploadInv
  PROVE  /\ files \in [Files -> Content] /\ tmp \in Content /\ bak \in Content
         /\ target \in Files /\ owned \subseteq Files /\ parked \in BOOLEAN
         /\ volume \in {"lfs", "fat"} /\ authed \in BOOLEAN /\ chunked \in BOOLEAN
         /\ declared \in 0..MaxBody /\ Len(body.data) <= declared
         /\ body.state \in {"none", "refused", "held"} /\ pc \in Uploads!Steps
BY DEF UploadInv, Uploads!TypeOK, Content

\* The steps of a request's body touch no file and end no commit.
LEMMA BodyKeeps ==
  ASSUME UploadInv, UNCHANGED <<volume, files, tmp, bak, parked, owned>>,
         pc' \in {"idle", "body", "write"}, target' \in Files, authed' \in BOOLEAN,
         chunked' \in BOOLEAN, declared' \in 0..MaxBody, BodyInOrder',
         Len(body'.data) <= declared', Uploads!BodyExact'
  PROVE  UploadInv'
<1>1. Uploads!TypeOK'
  <2>1. body'.state \in {"none", "refused", "held"} /\ pc' \in Uploads!Steps
    BY DEF BodyInOrder, BodyType, Uploads!Steps
  <2>2. QED
    BY <2>1, UploadTypes DEF Uploads!TypeOK, Content
<1>2. CommitSound'
  BY DEF CommitSound
<1>3. CopiesKept'
  BY DEF UploadInv, CopiesKept, Commit
<1>4. Uploads!TargetsWhole'
  BY DEF UploadInv, Uploads!TargetsWhole
<1>5. QED
  BY <1>1, <1>2, <1>3, <1>4 DEF UploadInv

LEMMA NoBytes ==
  /\ <<>> \in Seq(Nat) /\ Len(<<>>) = 0 /\ <<>> = Uploads!Bytes(0, 0)
  /\ Uploads!NoBody \in BodyType /\ Uploads!NoBody.data = <<>> /\ Uploads!NoBody.state = "none"
  /\ Uploads!Refused \in BodyType /\ Uploads!Refused.data = <<>>
  /\ Uploads!Refused.state = "refused"
<1>1. <<>> \in Seq(Nat) /\ Len(<<>>) = 0
  OBVIOUS
<1>2. <<>> = Uploads!Bytes(0, 0)
  <2>1. Uploads!Bytes(0, 0) \in Seq(Nat) /\ Len(Uploads!Bytes(0, 0)) = 0
    BY BytesGrow
  <2>2. QED
    BY <1>1, <2>1, EmptySeq
<1>3. QED
  BY <1>1, <1>2 DEF Uploads!NoBody, Uploads!Refused, BodyType

\* A request, a refusal and a power cut leave no body.
LEMMA EmptyInOrder ==
  ASSUME body' = Uploads!NoBody \/ body' = Uploads!Refused, declared' \in 0..MaxBody
  PROVE  BodyInOrder' /\ Len(body'.data) <= declared'
<1>1. body' \in BodyType /\ body'.data = <<>> /\ body'.state # "held"
  BY NoBytes
<1>2. body'.data = Uploads!Bytes(0, Len(body'.data))
  BY <1>1, NoBytes
<1>3. Uploads!Bytes(0, Len(body'.data)) = Uploads!Bytes(0, Len(body.data))'
  BY DEF Uploads!Bytes
<1>4. QED
  BY <1>1, <1>2, <1>3, NoBytes, UploadAssumption DEF BodyInOrder

LEMMA ChunkKeeps ==
  ASSUME UploadInv, NEW index \in Nat, NEW n \in Nat, NEW alloc \in BOOLEAN,
         Uploads!Chunk(index, n, alloc), UNCHANGED volume
  PROVE  UploadInv'
<1>1. /\ pc' = "body" /\ body' = Uploads!AppendChunk(Uploads!Begin(index, alloc), index, n)
      /\ UNCHANGED <<target, authed, declared, chunked, accepted, files, tmp, bak, parked, owned>>
  BY DEF Uploads!Chunk, Uploads!fsVars
<1>2. PICK b : b = Uploads!Begin(index, alloc)
  OBVIOUS
<1>3. declared \in Nat
  BY UploadTypes, UploadAssumption
<1>4. PICK m \in Nat : /\ m = Len(b.data) /\ b.data = Uploads!Bytes(0, m) /\ m <= declared
                       /\ b \in BodyType
                       /\ b.state = "held" => declared <= BodyMax
  <2>1. CASE b = body
    BY <2>1, UploadTypes DEF UploadInv, BodyInOrder, BodyType
  <2>2. CASE b = Uploads!NoBody
    BY <1>3, <2>2, NoBytes
  <2>3. CASE b = [state |-> "held", data |-> <<>>] /\ declared <= BodyMax
    <3>1. b \in BodyType /\ b.data = <<>>
      BY <2>3, NoBytes DEF BodyType
    <3>2. QED
      BY <1>3, <2>3, <3>1, NoBytes
  <2>4. QED
    BY <1>2, <1>3, <2>1, <2>2, <2>3, UploadAssumption DEF Uploads!Begin
<1>5. PICK a : a = Uploads!AppendChunk(b, index, n)
  OBVIOUS
<1>6. /\ a \in BodyType /\ a.data = Uploads!Bytes(0, Len(a.data)) /\ Len(a.data) <= declared
      /\ a.state = "held" => declared <= BodyMax
  <2>1. CASE b.state # "held"
    BY <1>4, <1>5, <2>1 DEF Uploads!AppendChunk
  <2>2. CASE b.state = "held" /\ (index # Len(b.data) \/ n > declared - Len(b.data))
    <3>1. a = Uploads!Refused
      BY <1>5, <2>2 DEF Uploads!AppendChunk
    <3>2. QED
      BY <1>3, <3>1, NoBytes
  <2>3. CASE b.state = "held" /\ ~(index # Len(b.data) \/ n > declared - Len(b.data))
    <3>1. a = [b EXCEPT !.data = b.data \o Uploads!Bytes(m, n)] /\ n <= declared - m
      <4>1. index = m /\ n <= declared - m
        BY <1>3, <1>4, <2>3
      <4>2. a = [b EXCEPT !.data = @ \o Uploads!Bytes(index, n)]
        BY <1>5, <2>3 DEF Uploads!AppendChunk
      <4>3. QED
        BY <4>1, <4>2
    <3>2. PICK d \in Seq(Nat) : d = b.data \o Uploads!Bytes(m, n) /\ Len(d) = m + n
                                 /\ d = Uploads!Bytes(0, m + n)
      BY <1>4, BytesGrow
    <3>3. a \in BodyType /\ a.data = d /\ a.state = "held"
      BY <1>4, <2>3, <3>1, <3>2 DEF BodyType
    <3>4. m + n <= declared
      BY <1>3, <3>1
    <3>5. QED
      BY <1>4, <2>3, <3>2, <3>3, <3>4
  <2>4. QED
    BY <2>1, <2>2, <2>3
<1>7. body' = a
  BY <1>1, <1>2, <1>5
<1>8. BodyInOrder'
  <2>1. Uploads!Bytes(0, Len(body.data))' = Uploads!Bytes(0, Len(body'.data))
    BY DEF Uploads!Bytes
  <2>2. QED
    BY <1>1, <1>6, <1>7, <2>1 DEF BodyInOrder
<1>9. Uploads!BodyExact'
  BY <1>1 DEF Uploads!BodyExact
<1>10. QED
  BY <1>1, <1>6, <1>7, <1>8, <1>9, UploadTypes, BodyKeeps

LEMMA AcceptKeeps == ASSUME UploadInv, Uploads!Accept, UNCHANGED volume PROVE UploadInv'
<1>1. /\ Uploads!Verdict \in {"ok", "empty"} /\ pc' = "write" /\ body' = Uploads!NoBody
      /\ accepted' = (IF Uploads!Verdict = "ok" THEN body.data ELSE <<>>)
      /\ UNCHANGED <<target, authed, declared, chunked, files, tmp, bak, parked, owned>>
  BY DEF Uploads!Accept, Uploads!fsVars
<1>2. declared \in 0..MaxBody /\ declared \in Nat
  BY UploadTypes, UploadAssumption
<1>3. BodyInOrder' /\ Len(body'.data) <= declared'
  BY <1>1, <1>2, EmptyInOrder
<1>4. accepted' = Uploads!Bytes(0, declared) /\ declared <= BodyMax
  <2>1. CASE Uploads!Verdict = "ok"
    <3>1. body.state = "held" /\ Len(body.data) = declared /\ ~(declared > BodyMax)
      BY <2>1 DEF Uploads!Verdict
    <3>2. QED
      BY <1>1, <1>2, <2>1, <3>1, UploadAssumption DEF UploadInv, BodyInOrder
  <2>2. CASE Uploads!Verdict = "empty"
    <3>1. declared = 0
      BY <2>2 DEF Uploads!Verdict
    <3>2. QED
      BY <1>1, <2>2, <3>1, NoBytes, UploadAssumption
  <2>3. QED
    BY <1>1, <2>1, <2>2
<1>5. Uploads!BodyExact'
  <2>1. Uploads!Bytes(0, declared)' = Uploads!Bytes(0, declared)
    BY <1>1 DEF Uploads!Bytes
  <2>2. QED
    BY <1>1, <1>4, <2>1 DEF Uploads!BodyExact
<1>6. QED
  BY <1>1, <1>3, <1>5, UploadTypes, BodyKeeps

\* The steps of a commit touch no request.
LEMMA CommitKeeps ==
  ASSUME UploadInv, UNCHANGED <<volume, target, authed, declared, chunked, body, accepted>>,
         pc' \in Commit \cup {"idle"}, files' \in [Files -> Content], tmp' \in Content,
         bak' \in Content, parked' \in BOOLEAN, owned' \subseteq Files,
         CommitSound', CopiesKept', Uploads!TargetsWhole'
  PROVE  UploadInv'
<1>1. Uploads!TypeOK'
  <2>1. pc' \in Uploads!Steps
    BY DEF Commit, Uploads!Steps
  <2>2. QED
    BY <2>1, UploadTypes DEF Uploads!TypeOK, Content
<1>2. BodyInOrder'
  BY DEF UploadInv, BodyInOrder, Uploads!Bytes
<1>3. Uploads!BodyExact'
  BY DEF Uploads!BodyExact, Commit
<1>4. QED
  BY <1>1, <1>2, <1>3 DEF UploadInv

LEMMA UploadNext == UploadInv /\ [Uploads!Next]_(Uploads!vars) => UploadInv'
<1> SUFFICES ASSUME UploadInv, [Uploads!Next]_(Uploads!vars) PROVE UploadInv'
  OBVIOUS
<1> USE DEF Uploads!reqVars, Uploads!fsVars
<1>t. /\ files \in [Files -> Content] /\ tmp \in Content /\ bak \in Content
      /\ target \in Files /\ owned \subseteq Files /\ parked \in BOOLEAN
      /\ pc \in Uploads!Steps
  BY UploadTypes
<1>w. /\ \A f \in Files : files[f] \in {Uploads!NoFile, Uploads!Whole(f)}
      /\ CommitSound /\ CopiesKept
  BY DEF UploadInv, Uploads!TargetsWhole
<1>1. ASSUME UNCHANGED volume, NEW f \in Files, NEW n \in 0..MaxBody, NEW te \in BOOLEAN,
             NEW good \in BOOLEAN, Uploads!Request(f, n, te, good)
      PROVE  UploadInv'
  <2>1. /\ pc' = "body" /\ target' = f /\ authed' = good /\ chunked' = te
        /\ declared' = (IF te THEN 0 ELSE n) /\ body' = Uploads!NoBody
        /\ UNCHANGED <<files, tmp, bak, parked, owned>>
    BY <1>1 DEF Uploads!Request
  <2>2. declared' \in 0..MaxBody
    BY <2>1, UploadAssumption
  <2>3. Uploads!BodyExact'
    BY <2>1 DEF Uploads!BodyExact
  <2>4. QED
    BY <1>1, <2>1, <2>2, <2>3, EmptyInOrder, BodyKeeps
<1>2. CASE Uploads!AuthChanges /\ UNCHANGED volume
  <2>1. /\ pc' = "body" /\ authed' = ~authed
        /\ UNCHANGED <<target, declared, chunked, body, accepted, files, tmp, bak, parked, owned>>
    BY <1>2 DEF Uploads!AuthChanges
  <2>2. BodyInOrder'
    BY <2>1 DEF UploadInv, BodyInOrder, Uploads!Bytes
  <2>3. Uploads!BodyExact'
    BY <2>1 DEF Uploads!BodyExact
  <2>4. QED
    BY <1>2, <2>1, <2>2, <2>3, UploadTypes, BodyKeeps
<1>3. CASE Uploads!Refuse /\ UNCHANGED volume
  <2>1. /\ pc' = "idle" /\ body' = Uploads!NoBody
        /\ UNCHANGED <<target, authed, declared, chunked, accepted, files, tmp, bak, parked, owned>>
    BY <1>3 DEF Uploads!Refuse
  <2>2. Uploads!BodyExact'
    BY <2>1 DEF Uploads!BodyExact
  <2>3. QED
    BY <1>3, <2>1, <2>2, UploadTypes, EmptyInOrder, BodyKeeps
<1>4. ASSUME UNCHANGED volume, NEW index \in 0..(MaxBody - 1), NEW n \in 1..2,
             NEW alloc \in BOOLEAN, Uploads!Chunk(index, n, alloc)
      PROVE  UploadInv'
  BY <1>4, ChunkKeeps, UploadAssumption
<1>5. CASE Uploads!Accept /\ UNCHANGED volume
  BY <1>5, AcceptKeeps
<1>6. CASE Uploads!WriteTmp /\ UNCHANGED volume
  <2>1. /\ UNCHANGED <<target, authed, declared, chunked, body, accepted, files, bak, parked>>
        /\ \/ /\ tmp' \in {Uploads!Whole(target), Uploads!Torn(target)} /\ pc' = "check"
              /\ owned' = {f \in owned : f = target \/ files[f] # Uploads!NoFile}
           \/ pc' = "idle" /\ UNCHANGED <<tmp, owned>>
    BY <1>6 DEF Uploads!WriteTmp
  <2>2. CommitSound'
    BY <2>1 DEF CommitSound, Uploads!Whole, Uploads!Torn
  <2>3. CopiesKept'
    BY <1>w, <2>1 DEF CopiesKept, Commit, Uploads!Whole
  <2>4. Uploads!TargetsWhole'
    BY <1>w, <2>1 DEF Uploads!TargetsWhole, Uploads!Whole
  <2>5. pc' \in Commit \cup {"idle"} /\ tmp' \in Content /\ owned' \subseteq Files
    BY <1>t, <2>1, Marks DEF Commit
  <2>6. QED
    BY <1>t, <1>6, <2>1, <2>2, <2>3, <2>4, <2>5, CommitKeeps
<1>7. CASE Uploads!CheckTmp /\ UNCHANGED volume
  <2>1. /\ UNCHANGED <<target, authed, declared, chunked, body, accepted, files, bak, owned>>
        /\ parked' = FALSE /\ pc = "check"
        /\ \/ tmp.whole /\ tmp' = tmp /\ pc' \in {"move", "unpark"}
           \/ ~tmp.whole /\ tmp' \in {Uploads!NoFile, tmp} /\ pc' = "idle"
    BY <1>7 DEF Uploads!CheckTmp, Uploads!GoTo, Uploads!DropTmp
  <2>2. tmp.whole => tmp = Uploads!Whole(target)
    BY <1>t, <1>w, <2>1, Marks DEF CommitSound
  <2>3. CommitSound'
    BY <2>1, <2>2 DEF CommitSound, Uploads!Whole
  <2>4. CopiesKept'
    BY <1>w, <2>1 DEF CopiesKept, Commit, Uploads!Whole
  <2>5. Uploads!TargetsWhole'
    BY <1>w, <2>1 DEF Uploads!TargetsWhole, Uploads!Whole
  <2>6. pc' \in Commit \cup {"idle"} /\ tmp' \in Content
    BY <1>t, <2>1, Marks DEF Commit
  <2>7. QED
    BY <1>t, <1>7, <2>1, <2>3, <2>4, <2>5, <2>6, CommitKeeps
<1>8. CASE Uploads!Unpark /\ UNCHANGED volume
  <2>1. /\ UNCHANGED <<target, authed, declared, chunked, body, accepted, files, tmp, parked, owned>>
        /\ pc = "unpark"
        /\ \/ files[target] = Uploads!NoFile /\ pc' = "move" /\ bak' = bak
           \/ files[target] # Uploads!NoFile /\ pc' = "park" /\ bak' \in {Uploads!NoFile, bak}
    BY <1>8 DEF Uploads!Unpark, Uploads!GoTo
  <2>2. CommitSound'
    BY <1>w, <2>1 DEF CommitSound, Uploads!Whole
  <2>3. CopiesKept'
    <3>1. \A f \in owned : files[f] # Uploads!NoFile => files[f] = Uploads!Whole(f)
      BY <1>t, <1>w
    <3>2. \A f \in owned : f = target \/ files[f] # Uploads!NoFile
      BY <1>w, <2>1 DEF CopiesKept, Commit
    <3>3. \A f \in owned : Uploads!Whole(f) \in {files[f], bak'}
      BY <1>w, <2>1, <3>1, <3>2 DEF CopiesKept
    <3>4. QED
      BY <2>1, <3>2, <3>3 DEF CopiesKept, Uploads!Whole
  <2>4. Uploads!TargetsWhole'
    BY <1>w, <2>1 DEF Uploads!TargetsWhole, Uploads!Whole
  <2>5. pc' \in Commit \cup {"idle"} /\ bak' \in Content
    BY <1>t, <2>1, Marks DEF Commit
  <2>6. QED
    BY <1>t, <1>8, <2>1, <2>2, <2>3, <2>4, <2>5, CommitKeeps
<1>9. CASE Uploads!Park /\ UNCHANGED volume
  <2>1. /\ UNCHANGED <<target, authed, declared, chunked, body, accepted, owned>> /\ pc = "park"
        /\ \/ /\ bak = Uploads!NoFile /\ bak' = files[target]
              /\ files' = [files EXCEPT ![target] = Uploads!NoFile]
              /\ parked' = TRUE /\ pc' = "move" /\ tmp' = tmp
           \/ /\ tmp' \in {Uploads!NoFile, tmp} /\ pc' = "idle"
              /\ UNCHANGED <<files, bak, parked>>
    BY <1>9 DEF Uploads!Park, Uploads!GoTo, Uploads!DropTmp
  <2>2. files[target] = Uploads!Whole(target) /\ tmp = Uploads!Whole(target)
    BY <1>t, <1>w, <2>1 DEF CommitSound
  <2>3. CommitSound'
    BY <1>w, <2>1, <2>2 DEF CommitSound, Uploads!Whole
  <2>4. \A f \in Files : f # target => files'[f] = files[f]
    BY <1>t, <2>1
  <2>5. \A f \in owned : f = target \/ files[f] = Uploads!Whole(f)
    BY <1>t, <1>w, <2>1 DEF CopiesKept, Commit
  <2>6. CopiesKept'
    <3>1. \A f \in owned : Uploads!Whole(f) \in {files'[f], bak'}
      BY <1>t, <1>w, <2>1, <2>2, <2>4, <2>5 DEF CopiesKept
    <3>2. \A f \in owned : f = target \/ files'[f] # Uploads!NoFile
      BY <1>t, <2>4, <2>5, Marks
    <3>3. QED
      BY <2>1, <3>1, <3>2 DEF CopiesKept, Uploads!Whole
  <2>7. Uploads!TargetsWhole'
    BY <1>t, <1>w, <2>1 DEF Uploads!TargetsWhole, Uploads!Whole
  <2>8. /\ pc' \in Commit \cup {"idle"} /\ tmp' \in Content /\ bak' \in Content
        /\ files' \in [Files -> Content] /\ parked' \in BOOLEAN
    BY <1>t, <2>1, Marks DEF Commit
  <2>9. QED
    BY <1>t, <1>9, <2>1, <2>3, <2>6, <2>7, <2>8, CommitKeeps
<1>10. CASE Uploads!Move /\ UNCHANGED volume
  <2>1. /\ UNCHANGED <<target, authed, declared, chunked, body, accepted, bak, parked>> /\ pc = "move"
        /\ \/ /\ files' = [files EXCEPT ![target] = tmp] /\ tmp' = Uploads!NoFile
              /\ pc' = (IF parked THEN "tidy" ELSE "idle") /\ owned' = owned \cup {target}
           \/ parked /\ pc' = "restore" /\ UNCHANGED <<files, tmp, owned>>
           \/ ~parked /\ pc' = "idle" /\ tmp' \in {Uploads!NoFile, tmp} /\ UNCHANGED <<files, owned>>
    BY <1>10 DEF Uploads!Move, Uploads!GoTo, Uploads!DropTmp
  <2>2. tmp = Uploads!Whole(target) /\ (parked => bak = Uploads!Whole(target))
    BY <1>w, <2>1 DEF CommitSound
  <2>3. files' \in [Files -> Content] /\ \A f \in Files : f # target => files'[f] = files[f]
    BY <1>t, <2>1
  <2>4. files'[target] = Uploads!Whole(target) \/ (files' = files /\ owned' = owned)
    BY <1>t, <2>1, <2>2
  <2>5. CommitSound'
    <3>1. pc' = "tidy" => files'[target] # Uploads!NoFile
      BY <1>t, <2>1, <2>2, Marks
    <3>2. pc' = "restore" => tmp' = Uploads!Whole(target) /\ parked /\ bak' = Uploads!Whole(target)
      BY <2>1, <2>2
    <3>3. pc' \in {"tidy", "restore", "idle"}
      BY <2>1
    <3>4. QED
      BY <2>1, <3>1, <3>2, <3>3 DEF CommitSound, Uploads!Whole
  <2>6. CopiesKept'
    <3>1. \A f \in owned : f = target \/ files[f] = Uploads!Whole(f)
      BY <1>t, <1>w, <2>1 DEF CopiesKept, Commit
    <3>2. \A f \in owned' : Uploads!Whole(f) \in {files'[f], bak'}
      BY <1>t, <1>w, <2>1, <2>3, <2>4, <3>1 DEF CopiesKept
    <3>3. \A f \in owned' : f = target \/ files'[f] # Uploads!NoFile
      BY <1>t, <2>1, <2>3, <3>1, Marks
    <3>4. QED
      BY <2>1, <3>2, <3>3 DEF CopiesKept, Uploads!Whole
  <2>7. Uploads!TargetsWhole'
    BY <1>t, <1>w, <2>3, <2>4 DEF Uploads!TargetsWhole, Uploads!Whole
  <2>8. /\ pc' \in Commit \cup {"idle"} /\ tmp' \in Content /\ owned' \subseteq Files
    BY <1>t, <2>1, Marks DEF Commit
  <2>9. QED
    BY <1>t, <1>10, <2>1, <2>3, <2>5, <2>6, <2>7, <2>8, CommitKeeps
<1>11. CASE Uploads!Restore /\ UNCHANGED volume
  <2>1. /\ UNCHANGED <<target, authed, declared, chunked, body, accepted, owned, parked>>
        /\ pc = "restore" /\ pc' = "idle"
        /\ \/ /\ files' = [files EXCEPT ![target] = bak] /\ bak' = Uploads!NoFile
              /\ tmp' \in {Uploads!NoFile, tmp}
           \/ UNCHANGED <<files, tmp, bak>>
    BY <1>11 DEF Uploads!Restore, Uploads!GoTo, Uploads!DropTmp
  <2>2. bak = Uploads!Whole(target)
    BY <1>w, <2>1 DEF CommitSound
  <2>3. files' \in [Files -> Content] /\ \A f \in Files : f # target => files'[f] = files[f]
    BY <1>t, <2>1
  <2>4. files'[target] = Uploads!Whole(target) \/ (files' = files /\ bak' = bak)
    BY <1>t, <2>1, <2>2
  <2>5. CommitSound'
    BY <2>1 DEF CommitSound
  <2>6. CopiesKept'
    <3>1. \A f \in owned : f = target \/ files[f] = Uploads!Whole(f)
      BY <1>t, <1>w, <2>1 DEF CopiesKept, Commit
    <3>2. \A f \in owned : Uploads!Whole(f) \in {files'[f], bak'}
      BY <1>t, <1>w, <2>1, <2>3, <2>4, <3>1 DEF CopiesKept
    <3>3. QED
      BY <2>1, <3>2 DEF CopiesKept, Commit, Uploads!Whole
  <2>7. Uploads!TargetsWhole'
    BY <1>t, <1>w, <2>3, <2>4 DEF Uploads!TargetsWhole, Uploads!Whole
  <2>8. tmp' \in Content /\ bak' \in Content
    BY <1>t, <2>1, Marks
  <2>9. QED
    BY <1>t, <1>11, <2>1, <2>3, <2>5, <2>6, <2>7, <2>8, CommitKeeps
<1>12. CASE Uploads!Tidy /\ UNCHANGED volume
  <2>1. /\ UNCHANGED <<target, authed, declared, chunked, body, accepted, owned, parked, files, tmp>>
        /\ pc = "tidy" /\ pc' = "idle" /\ bak' \in {Uploads!NoFile, bak}
    BY <1>12 DEF Uploads!Tidy, Uploads!GoTo
  <2>2. \A f \in owned : files[f] = Uploads!Whole(f)
    BY <1>t, <1>w, <2>1 DEF CopiesKept, CommitSound, Commit
  <2>3. CommitSound'
    BY <2>1 DEF CommitSound
  <2>4. CopiesKept'
    BY <2>1, <2>2 DEF CopiesKept, Commit, Uploads!Whole
  <2>5. Uploads!TargetsWhole'
    BY <1>w, <2>1 DEF Uploads!TargetsWhole, Uploads!Whole
  <2>6. bak' \in Content
    BY <1>t, <2>1, Marks
  <2>7. QED
    BY <1>t, <1>12, <2>1, <2>3, <2>4, <2>5, <2>6, CommitKeeps
<1>13. ASSUME UNCHANGED volume, NEW f \in Files, Uploads!Delete(f)
       PROVE  UploadInv'
  <2>1. /\ UNCHANGED <<target, authed, declared, chunked, body, accepted, parked, tmp, bak>>
        /\ pc = "idle" /\ pc' = "idle" /\ owned' = owned \ {f}
        /\ files' = [files EXCEPT ![f] = Uploads!NoFile]
    BY <1>13 DEF Uploads!Delete
  <2>2. files' \in [Files -> Content] /\ \A g \in Files : g # f => files'[g] = files[g]
    BY <1>t, <2>1, Marks
  <2>3. CommitSound'
    BY <2>1 DEF CommitSound
  <2>4. CopiesKept'
    BY <1>t, <1>w, <2>1, <2>2 DEF CopiesKept, Commit, Uploads!Whole
  <2>5. Uploads!TargetsWhole'
    BY <1>t, <1>w, <2>1 DEF Uploads!TargetsWhole, Uploads!Whole
  <2>6. QED
    BY <1>t, <1>13, <2>1, <2>2, <2>3, <2>4, <2>5, CommitKeeps
<1>14. CASE Uploads!PowerCut /\ UNCHANGED volume
  <2>1. /\ UNCHANGED <<target, authed, declared, chunked, accepted, files, tmp, bak, owned>>
        /\ pc' = "idle" /\ body' = Uploads!NoBody /\ parked' = FALSE
    BY <1>14 DEF Uploads!PowerCut
  <2>2. BodyInOrder' /\ Len(body'.data) <= declared'
    BY <2>1, UploadTypes, EmptyInOrder
  <2>3. Uploads!BodyExact' /\ CommitSound'
    BY <2>1 DEF Uploads!BodyExact, CommitSound
  <2>4. CopiesKept'
    BY <1>w, <2>1 DEF CopiesKept, Commit, Uploads!Whole
  <2>5. Uploads!TargetsWhole'
    BY <1>w, <2>1 DEF Uploads!TargetsWhole, Uploads!Whole
  <2>6. body'.state \in {"none", "refused", "held"} /\ pc' \in Uploads!Steps
    BY <2>1, NoBytes DEF Uploads!Steps
  <2>7. Uploads!TypeOK'
    BY <1>14, <2>1, <2>2, <2>6, UploadTypes DEF Uploads!TypeOK, Content
  <2>8. QED
    BY <2>2, <2>3, <2>4, <2>5, <2>7 DEF UploadInv
<1>15. CASE UNCHANGED Uploads!vars
  BY <1>15
     DEF Uploads!vars, UploadInv, Uploads!TypeOK, BodyInOrder, CommitSound, CopiesKept,
         Uploads!BodyExact, Uploads!TargetsWhole, Uploads!Bytes, Uploads!Whole, Uploads!Torn
<1>16. QED
  BY <1>1, <1>2, <1>3, <1>4, <1>5, <1>6, <1>7, <1>8, <1>9, <1>10, <1>11, <1>12, <1>13,
     <1>14, <1>15 DEF Uploads!Next, Uploads!Step

LEMMA UploadInit == Uploads!Init => UploadInv
<1> SUFFICES ASSUME Uploads!Init PROVE UploadInv
  OBVIOUS
<1>1. /\ volume \in {"lfs", "fat"} /\ pc = "idle" /\ target \in Files /\ authed = FALSE
      /\ declared = 0 /\ chunked = FALSE /\ body = Uploads!NoBody /\ accepted = <<>>
      /\ files = [f \in Files |-> Uploads!NoFile] /\ tmp = Uploads!NoFile
      /\ bak = Uploads!NoFile /\ parked = FALSE /\ owned = {}
  BY DEF Uploads!Init
<1>2. Uploads!TypeOK
  <2>1. declared \in 0..MaxBody /\ pc \in Uploads!Steps
    BY <1>1, UploadAssumption DEF Uploads!Steps
  <2>2. files \in [Files -> Content] /\ tmp \in Content /\ bak \in Content
    BY <1>1, Marks
  <2>3. body.state \in {"none", "refused", "held"} /\ Len(body.data) <= declared
    BY <1>1, NoBytes
  <2>4. QED
    BY <1>1, <2>1, <2>2, <2>3 DEF Uploads!TypeOK, Content
<1>3. BodyInOrder
  BY <1>1, NoBytes DEF BodyInOrder
<1>4. CommitSound /\ CopiesKept /\ Uploads!BodyExact
  BY <1>1 DEF CommitSound, CopiesKept, Uploads!BodyExact, Commit
<1>5. Uploads!TargetsWhole
  BY <1>1 DEF Uploads!TargetsWhole
<1>6. QED
  BY <1>2, <1>3, <1>4, <1>5 DEF UploadInv

\* The scenes move an upload by its own steps only.
LEMMA SceneUploads == SceneSpec => Uploads!Spec
<1>1. SceneInit => Uploads!Init
  BY DEF SceneInit, FileRests
<1>2. [SceneNext]_allVars => [Uploads!Next]_(Uploads!vars)
  <2> SUFFICES ASSUME [SceneNext]_allVars PROVE [Uploads!Next]_(Uploads!vars)
    OBVIOUS
  <2>1. CASE UNCHANGED fileVars
    BY <2>1 DEF fileVars, Uploads!vars, Uploads!reqVars, Uploads!fsVars
  <2>2. CASE Uploads!Next
    BY <2>2
  <2>3. QED
    BY <2>1, <2>2 DEF SceneNext, allVars
<1>3. QED
  BY <1>1, <1>2, PTL DEF SceneSpec, Uploads!Spec

\* What an upload writes is the declared body, no name ever holds half a file,
\* and a stored file survives every failing step and power cut of an upload.
\* For every set of files, cap and length of a body.
THEOREM UploadIsSound == SceneSpec => []UploadSound
<1>1. UploadInv => UploadSound
  <2> SUFFICES ASSUME UploadInv PROVE Uploads!UploadSound
    BY DEF UploadSound
  <2>1. Uploads!SomeCopySurvives
    BY DEF UploadInv, CopiesKept, Uploads!SomeCopySurvives, Uploads!Kept
  <2>2. QED
    BY <2>1 DEF UploadInv, Uploads!UploadSound
<1>2. QED
  BY <1>1, UploadInit, UploadNext, SceneUploads, PTL DEF Uploads!Spec

-----------------------------------------------------------------------------
(* ScriptEngine.                                                              *)

SubType == [topic : {"cli", "ota", "config", "reload", "lua"}, gen : Scripts!Gens \cup {Scripts!NoLua}]

StackTyped == stack \in Seq(Scripts!Frame) /\ Len(stack) <= MaxDepth
SubsTyped  == subs \in Seq(SubType) /\ Len(subs) <= MaxSubs

\* Every call under way runs a function of the state it was made in.
OwnFrames == \A i \in 1..Len(stack) : stack[i].from = stack[i].lua

\* There is one state at most, the current generation's, and no timer outlives it.
OneState ==
  /\ lua \in {gen, Scripts!NoLua}
  /\ \A s \in Scripts!Slots : timers[s] \in {gen, Scripts!NoLua}

BudgetSound == spent \in 0..Budget /\ (~hit => spent < Budget)

ScriptInv ==
  /\ Scripts!TypeOK
  /\ OwnFrames
  /\ OneState
  /\ BudgetSound
  /\ Scripts!CoreRegistered

\* What is left of the type invariant beside the stack, the table and the budget.
RestTyped ==
  /\ gen \in Scripts!Gens /\ lua \in Scripts!Gens \cup {Scripts!NoLua}
  /\ events \subseteq Scripts!Gens
  /\ timers \in [Scripts!Slots -> Scripts!Gens \cup {Scripts!NoLua}]
  /\ booting \in BOOLEAN /\ pump \in {"no", "mqtt", "console"}
  /\ credit \in 0..CreditCap /\ hit \in BOOLEAN
  /\ online \in BOOLEAN /\ refused \subseteq Scripts!Gens

StackSound == StackTyped /\ OwnFrames
TableSound == SubsTyped /\ Scripts!CoreRegistered

LEMMA ScriptParts ==
  ScriptInv <=> StackSound /\ TableSound /\ BudgetSound /\ RestTyped /\ OneState
BY DEF ScriptInv, Scripts!TypeOK, StackSound, TableSound, StackTyped, SubsTyped, RestTyped,
       BudgetSound, SubType

LEMMA ScriptPartsNext ==
  ASSUME StackSound', TableSound', BudgetSound', RestTyped', OneState'
  PROVE  ScriptInv'
<1>1. (StackSound /\ TableSound /\ BudgetSound /\ RestTyped /\ OneState => ScriptInv)'
  BY ScriptParts, PTL
<1>2. QED
  BY <1>1

LEMMA GenFacts ==
  /\ 0 \in Scripts!Gens /\ Scripts!NoLua \notin Scripts!Gens
  /\ \A g \in Scripts!Gens : g \in Nat /\ (g < MaxGen => g + 1 \in Scripts!Gens)
BY ScriptAssumption DEF Scripts!Gens, Scripts!NoLua

LEMMA OwnFrame ==
  ASSUME NEW g \in Scripts!Gens, NEW kind \in Scripts!Kinds
  PROVE  \E f \in Scripts!Frame : f = [lua |-> g, from |-> g, kind |-> kind] /\ f.from = f.lua
<1> DEFINE f == [lua |-> g, from |-> g, kind |-> kind]
<1>1. f \in Scripts!Frame /\ f.from = f.lua
  BY DEF Scripts!Frame
<1>2. QED
  BY <1>1

\* A call is pushed, the innermost one goes on to the next file, or returns.
LEMMA StackPushed ==
  ASSUME StackSound, Len(stack) < MaxDepth, NEW f \in Scripts!Frame, f.from = f.lua,
         stack' = Append(stack, f)
  PROVE  StackSound'
<1>1. stack \in Seq(Scripts!Frame) /\ Len(stack) \in Nat
  BY DEF StackSound, StackTyped
<1>2. /\ stack' \in Seq(Scripts!Frame) /\ Len(stack') = Len(stack) + 1
      /\ \A i \in 1..Len(stack) : stack'[i] = stack[i]
      /\ stack'[Len(stack) + 1] = f
  BY <1>1, AppendProperties
<1>3. StackTyped'
  BY <1>1, <1>2, ScriptAssumption DEF StackTyped
<1>4. OwnFrames'
  <2> SUFFICES ASSUME NEW i \in 1..Len(stack') PROVE stack'[i].from = stack'[i].lua
    BY DEF OwnFrames
  <2>1. i \in 1..Len(stack) \/ i = Len(stack) + 1
    BY <1>1, <1>2
  <2>2. QED
    BY <1>2, <2>1 DEF StackSound, OwnFrames
<1>5. QED
  BY <1>3, <1>4 DEF StackSound

LEMMA StackGoesOn ==
  ASSUME StackSound, stack # <<>>, stack' = [stack EXCEPT ![Len(stack)].kind = "rules"]
  PROVE  StackSound'
<1>1. stack \in Seq(Scripts!Frame) /\ Len(stack) \in 1..Len(stack)
  BY EmptySeq DEF StackSound, StackTyped
<1>2. PICK f \in Scripts!Frame : f = stack[Len(stack)]
  BY <1>1, ElementOfSeq
<1>3. PICK g \in Scripts!Frame : g = [f EXCEPT !.kind = "rules"] /\ g.from = f.from /\ g.lua = f.lua
  <2> DEFINE h == [f EXCEPT !.kind = "rules"]
  <2>1. h \in Scripts!Frame /\ h.from = f.from /\ h.lua = f.lua
    BY DEF Scripts!Frame, Scripts!Kinds
  <2>2. QED
    BY <2>1
<1>4. stack' = [stack EXCEPT ![Len(stack)] = g]
  BY <1>2, <1>3
<1>5. /\ stack' \in Seq(Scripts!Frame) /\ Len(stack') = Len(stack)
      /\ \A i \in 1..Len(stack) : stack'[i] = IF i = Len(stack) THEN g ELSE stack[i]
  BY <1>1, <1>4, ExceptSeq
<1>6. OwnFrames'
  BY <1>1, <1>2, <1>3, <1>5 DEF OwnFrames, StackSound
<1>7. QED
  BY <1>5, <1>6 DEF StackSound, StackTyped

LEMMA StackPopped ==
  ASSUME StackSound, stack # <<>>, stack' = SubSeq(stack, 1, Len(stack) - 1)
  PROVE  StackSound'
<1>1. stack \in Seq(Scripts!Frame) /\ Len(stack) \in Nat /\ Len(stack) > 0
  BY EmptySeq DEF StackSound, StackTyped
<1>2. PICK n \in Nat : n = Len(stack) - 1
  BY <1>1
<1>3. \A i \in 1..n : i \in 1..Len(stack) /\ stack[i] \in Scripts!Frame
  BY <1>1, <1>2, ElementOfSeq
<1>4. /\ stack' \in Seq(Scripts!Frame)
      /\ Len(stack') = (IF 1 <= n THEN n - 1 + 1 ELSE 0)
      /\ \A i \in 1..(n - 1 + 1) : stack'[i] = stack[1 + i - 1]
  BY <1>2, <1>3, SubSeqProperties
<1>5. Len(stack') = n /\ n - 1 + 1 = n /\ \A i \in 1..n : 1 + i - 1 = i
  BY <1>4
<1>6. StackTyped'
  BY <1>1, <1>2, <1>4, <1>5, ScriptAssumption DEF StackTyped, StackSound
<1>7. OwnFrames'
  BY <1>3, <1>4, <1>5 DEF OwnFrames, StackSound
<1>8. QED
  BY <1>6, <1>7 DEF StackSound

LEMMA StackBoots == stack = <<[lua |-> 0, from |-> 0, kind |-> "main"]>> => StackSound
<1> SUFFICES ASSUME stack = <<[lua |-> 0, from |-> 0, kind |-> "main"]>> PROVE StackSound
  OBVIOUS
<1>1. PICK f \in Scripts!Frame : f = [lua |-> 0, from |-> 0, kind |-> "main"] /\ f.from = f.lua
  BY GenFacts, OwnFrame DEF Scripts!Kinds
<1>2. stack = <<f>>
  BY <1>1
<1>3. stack \in Seq(Scripts!Frame) /\ Len(stack) = 1 /\ stack[1] = f
  BY <1>2
<1>4. QED
  BY <1>1, <1>3, ScriptAssumption DEF StackSound, StackTyped, OwnFrames

LEMMA EntryTyped ==
  ASSUME NEW t \in {"cli", "ota", "config", "reload", "lua"},
         NEW g \in Scripts!Gens \cup {Scripts!NoLua}
  PROVE  Scripts!Entry(t, g) \in SubType /\ Scripts!Entry(t, g).topic = t
BY DEF SubType, Scripts!Entry

\* A topic added to the table is never a core one, and a reset brings them back.
LEMMA TableAdds ==
  ASSUME TableSound, NEW t \in {"lua", "reload"}, NEW g \in Scripts!Gens \cup {Scripts!NoLua},
         subs' = Scripts!Added(subs, Scripts!Entry(t, g))
  PROVE  TableSound'
<1>1. subs \in Seq(SubType) /\ Len(subs) \in Nat /\ Len(subs) <= MaxSubs
  BY DEF TableSound, SubsTyped
<1>2. PICK e \in SubType : e = Scripts!Entry(t, g) /\ e.topic = t
  BY EntryTyped
<1>3. CASE Len(subs) >= MaxSubs
  <2>1. subs' = subs
    BY <1>3 DEF Scripts!Added
  <2>2. QED
    BY <2>1 DEF TableSound, SubsTyped, Scripts!CoreRegistered
<1>4. CASE ~(Len(subs) >= MaxSubs)
  <2>1. subs' = Append(subs, e)
    BY <1>2, <1>4 DEF Scripts!Added
  <2>2. /\ subs' \in Seq(SubType) /\ Len(subs') = Len(subs) + 1
        /\ \A i \in 1..Len(subs) : subs'[i] = subs[i]
        /\ subs'[Len(subs) + 1] = e
        /\ DOMAIN subs = 1..Len(subs) /\ DOMAIN subs' = 1..Len(subs')
    BY <1>1, <2>1, AppendProperties
  <2>3. SubsTyped'
    BY <1>1, <1>4, <2>2, ScriptAssumption DEF SubsTyped
  <2>4. Scripts!CoreRegistered'
    <3> SUFFICES ASSUME NEW c \in {"cli", "ota", "config"}
                 PROVE  \E i \in DOMAIN subs' : subs'[i].topic = c
                          /\ \A j \in DOMAIN subs' : subs'[j].topic = c => j = i
      BY DEF Scripts!CoreRegistered
    <3>1. PICK i \in 1..Len(subs) : subs[i].topic = c
                                    /\ \A j \in 1..Len(subs) : subs[j].topic = c => j = i
      BY <2>2 DEF TableSound, Scripts!CoreRegistered
    <3>2. i \in DOMAIN subs' /\ subs'[i].topic = c
      BY <1>1, <2>2, <3>1
    <3>3. ASSUME NEW j \in DOMAIN subs', subs'[j].topic = c PROVE j = i
      <4>1. j \in 1..Len(subs) \/ j = Len(subs) + 1
        BY <1>1, <2>2
      <4>2. QED
        BY <1>2, <2>2, <3>1, <3>3, <4>1
    <3>4. QED
      BY <3>2, <3>3
  <2>5. QED
    BY <2>3, <2>4 DEF TableSound
<1>5. QED
  BY <1>3, <1>4

LEMMA TableStays == ASSUME TableSound, subs' = subs PROVE TableSound'
BY DEF TableSound, SubsTyped, Scripts!CoreRegistered

LEMMA CoreFacts ==
  /\ Scripts!Core \in Seq(SubType) /\ Len(Scripts!Core) = 3 /\ DOMAIN Scripts!Core = 1..3
  /\ Scripts!Core[1].topic = "cli" /\ Scripts!Core[2].topic = "ota"
  /\ Scripts!Core[3].topic = "config"
<1>1. PICK a \in SubType : a = Scripts!Entry("cli", Scripts!NoLua) /\ a.topic = "cli"
  BY EntryTyped
<1>2. PICK b \in SubType : b = Scripts!Entry("ota", Scripts!NoLua) /\ b.topic = "ota"
  BY EntryTyped
<1>3. PICK c \in SubType : c = Scripts!Entry("config", Scripts!NoLua) /\ c.topic = "config"
  BY EntryTyped
<1>4. Scripts!Core = <<a, b, c>>
  BY <1>1, <1>2, <1>3 DEF Scripts!Core
<1>5. QED
  BY <1>1, <1>2, <1>3, <1>4

LEMMA TableResets == subs = Scripts!Core => TableSound
<1> SUFFICES ASSUME subs = Scripts!Core PROVE TableSound
  OBVIOUS
<1>1. SubsTyped
  BY CoreFacts, ScriptAssumption DEF SubsTyped
<1>2. Scripts!CoreRegistered
  <2>1. DOMAIN subs = 1..3 /\ 1 \in 1..3 /\ 2 \in 1..3 /\ 3 \in 1..3
    BY CoreFacts
  <2>2. \A j \in 1..3 : j = 1 \/ j = 2 \/ j = 3
    OBVIOUS
  <2>3. QED
    BY <2>1, <2>2, CoreFacts DEF Scripts!CoreRegistered
<1>3. QED
  BY <1>1, <1>2 DEF TableSound

LEMMA StackStays == ASSUME StackSound, stack' = stack PROVE StackSound'
BY DEF StackSound, StackTyped, OwnFrames

\* The clock of the outermost call runs out at the budget and not past it.
BudgetKept == BudgetSound /\ credit \in 0..CreditCap /\ hit \in BOOLEAN

LEMMA ClockStarts == spent = 0 /\ credit = 0 /\ hit = FALSE => BudgetKept
<1>1. 0 \in 0..Budget /\ 0 < Budget /\ 0 \in 0..CreditCap
  BY ScriptAssumption
<1>2. QED
  BY <1>1 DEF BudgetKept, BudgetSound

LEMMA ClockTicks == ASSUME BudgetKept, ~hit, Scripts!Tick PROVE BudgetKept'
<1>1. spent' = spent + 1 /\ hit' = (spent + 1 >= Budget) /\ credit' = credit
  BY DEF Scripts!Tick
<1>2. spent \in 0..Budget /\ spent < Budget /\ credit \in 0..CreditCap
  BY DEF BudgetKept, BudgetSound
<1>3. spent' \in 0..Budget /\ (~(spent + 1 >= Budget) => spent' < Budget)
  BY <1>1, <1>2, ScriptAssumption
<1>4. hit' \in BOOLEAN
  BY <1>1
<1>5. QED
  BY <1>1, <1>2, <1>3, <1>4 DEF BudgetKept, BudgetSound

LEMMA ClockBlocked == ASSUME BudgetKept, ~hit, Scripts!Blocked PROVE BudgetKept'
<1>1. CASE credit < CreditCap
  <2>1. credit' = credit + 1 /\ spent' = spent /\ hit' = hit
    BY <1>1 DEF Scripts!Blocked
  <2>2. QED
    BY <1>1, <2>1, ScriptAssumption DEF BudgetKept, BudgetSound
<1>2. CASE ~(credit < CreditCap)
  BY <1>2, ClockTicks DEF Scripts!Blocked
<1>3. QED
  BY <1>1, <1>2

LEMMA ClockStays == ASSUME BudgetKept, UNCHANGED <<spent, credit, hit>> PROVE BudgetKept'
BY DEF BudgetKept, BudgetSound

LEMMA ClockRestarts == ASSUME spent' = 0, credit' = 0, hit' = FALSE PROVE BudgetKept'
<1>1. (spent = 0 /\ credit = 0 /\ hit = FALSE => BudgetKept)'
  BY ClockStarts, PTL
<1>2. QED
  BY <1>1

LEMMA ClockEnters == ASSUME BudgetKept, Scripts!Enter PROVE BudgetKept'
BY ClockRestarts, ClockStays DEF Scripts!Enter, Scripts!budgetVars

\* Timers and the state, untouched.
LEMMA StateStays ==
  ASSUME OneState, UNCHANGED <<gen, lua, timers>> PROVE OneState'
BY DEF OneState, Scripts!Slots

\* A call of a function of the current state.
LEMMA CallSound ==
  ASSUME ScriptInv, NEW g, NEW kind \in Scripts!Kinds, lua # Scripts!NoLua, g = gen,
         Scripts!Call(g, kind)
  PROVE  StackSound' /\ BudgetKept'
<1>1. lua = gen /\ lua \in Scripts!Gens
  BY DEF ScriptInv, OneState, Scripts!TypeOK
<1>2. PICK f \in Scripts!Frame : f = [lua |-> gen, from |-> gen, kind |-> kind] /\ f.from = f.lua
  BY <1>1, OwnFrame
<1>3. Len(stack) < MaxDepth /\ stack' = Append(stack, f) /\ Scripts!Enter
  BY <1>1, <1>2 DEF Scripts!Call
<1>4. StackSound /\ BudgetKept
  BY ScriptParts DEF BudgetKept, RestTyped
<1>5. QED
  BY <1>2, <1>3, <1>4, StackPushed, ClockEnters

\* A reload: another generation, with a state of its own or none.
LEMMA LuaReloadKeeps ==
  ASSUME ScriptInv, Scripts!ReloadNow, pump' = "no", UNCHANGED online PROVE ScriptInv'
<1>p. StackSound /\ TableSound /\ BudgetKept /\ RestTyped /\ OneState
  BY ScriptParts DEF BudgetKept, RestTyped
<1>1. /\ gen < MaxGen /\ Len(stack) < MaxDepth /\ gen' = gen + 1
      /\ timers' = [s \in Scripts!Slots |-> Scripts!NoLua]
      /\ UNCHANGED <<subs, refused, events, booting>>
      /\ \/ /\ lua' = gen + 1 /\ Scripts!Enter
            /\ stack' = Append(stack, [lua |-> gen + 1, from |-> gen + 1, kind |-> "main"])
         \/ lua' = Scripts!NoLua /\ UNCHANGED <<stack, spent, credit, hit>>
  BY DEF Scripts!ReloadNow, Scripts!ClearTimers, Scripts!tableVars, Scripts!budgetVars
<1>2. gen + 1 \in Scripts!Gens
  BY <1>p, <1>1, GenFacts DEF RestTyped
<1>3. PICK f \in Scripts!Frame : f = [lua |-> gen + 1, from |-> gen + 1, kind |-> "main"]
                                /\ f.from = f.lua
  BY <1>2, OwnFrame DEF Scripts!Kinds
<1>4. StackSound'
  BY <1>p, <1>1, <1>3, StackPushed, StackStays
<1>5. BudgetKept'
  BY <1>p, <1>1, ClockEnters, ClockStays
<1>6. TableSound'
  BY <1>p, <1>1, TableStays
<1>7. RestTyped'
  BY <1>p, <1>1, <1>2, <1>5 DEF RestTyped, BudgetKept, Scripts!Gens, Scripts!NoLua, Scripts!Slots
<1>8. OneState'
  BY <1>1 DEF OneState, Scripts!Slots, Scripts!NoLua
<1>9. QED
  BY <1>4, <1>5, <1>6, <1>7, <1>8, ScriptPartsNext DEF BudgetKept

LEMMA ReturnKeeps == ASSUME ScriptInv, Scripts!Return PROVE ScriptInv'
<1>p. StackSound /\ TableSound /\ BudgetKept /\ RestTyped /\ OneState
  BY ScriptParts DEF BudgetKept, RestTyped
<1>1. stack # <<>> /\ UNCHANGED <<gen, lua, events, timers, pump, online>>
  BY DEF Scripts!Return
<1>2. OneState'
  BY <1>p, <1>1, StateStays
<1>3. CASE Scripts!Top.kind = "main"
  <2>1. /\ stack' = [stack EXCEPT ![Len(stack)].kind = "rules"]
        /\ \/ spent' = 0 /\ credit' = 0 /\ hit' = FALSE
           \/ UNCHANGED <<spent, credit, hit>>
        /\ UNCHANGED <<subs, refused, booting>>
    BY <1>3 DEF Scripts!Return, Scripts!budgetVars, Scripts!tableVars
  <2>2. StackSound'
    BY <1>p, <1>1, <2>1, StackGoesOn
  <2>3. BudgetKept'
    BY <1>p, <2>1, ClockRestarts, ClockStays
  <2>4. TableSound'
    BY <1>p, <2>1, TableStays
  <2>5. RestTyped'
    BY <1>p, <1>1, <2>1, <2>3 DEF RestTyped, BudgetKept, Scripts!Gens, Scripts!Slots
  <2>6. QED
    BY <1>2, <2>2, <2>3, <2>4, <2>5, ScriptPartsNext DEF BudgetKept
<1>4. CASE Scripts!Top.kind # "main"
  <2>1. /\ stack' = SubSeq(stack, 1, Len(stack) - 1) /\ UNCHANGED <<spent, credit, hit, refused>>
        /\ \/ subs' = Scripts!Added(subs, Scripts!Entry("reload", Scripts!NoLua)) \/ subs' = subs
        /\ booting' \in BOOLEAN
    BY <1>4 DEF Scripts!Return, Scripts!budgetVars
  <2>2. StackSound'
    BY <1>p, <1>1, <2>1, StackPopped
  <2>3. BudgetKept'
    BY <1>p, <2>1, ClockStays
  <2>4. TableSound'
    BY <1>p, <2>1, TableStays, TableAdds
  <2>5. RestTyped'
    BY <1>p, <1>1, <2>1, <2>3 DEF RestTyped, BudgetKept, Scripts!Gens, Scripts!Slots
  <2>6. QED
    BY <1>2, <2>2, <2>3, <2>4, <2>5, ScriptPartsNext DEF BudgetKept
<1>5. QED
  BY <1>3, <1>4

\* A boot as far as the first script: Init, and what a panic comes to.
Boots ==
  /\ gen = 0 /\ lua = 0 /\ booting = TRUE
  /\ stack = <<[lua |-> 0, from |-> 0, kind |-> "main"]>>
  /\ subs = Scripts!Core /\ events = {} /\ timers = [s \in Scripts!Slots |-> Scripts!NoLua]
  /\ spent = 0 /\ credit = 0 /\ hit = FALSE /\ refused = {}
  /\ pump \in {"no", "mqtt", "console"} /\ online \in BOOLEAN

LEMMA BootIsSound == Boots => ScriptInv
<1> SUFFICES ASSUME Boots PROVE ScriptInv
  OBVIOUS
<1>1. StackSound /\ TableSound /\ BudgetKept
  BY StackBoots, TableResets, ClockStarts DEF Boots
<1>2. RestTyped
  BY <1>1, GenFacts DEF Boots, RestTyped, BudgetKept
<1>3. OneState
  BY DEF Boots, OneState
<1>4. QED
  BY <1>1, <1>2, <1>3, ScriptParts DEF BudgetKept

LEMMA ScriptNext == ScriptInv /\ [Scripts!Next]_(Scripts!vars) => ScriptInv'
<1> SUFFICES ASSUME ScriptInv, [Scripts!Next]_(Scripts!vars) PROVE ScriptInv'
  OBVIOUS
<1> USE DEF Scripts!tableVars, Scripts!budgetVars
<1>p. StackSound /\ TableSound /\ BudgetKept /\ RestTyped /\ OneState
  BY ScriptParts DEF BudgetKept, RestTyped
<1>q. ASSUME StackSound', TableSound', BudgetKept', OneState',
             gen' \in Scripts!Gens, lua' \in Scripts!Gens \cup {Scripts!NoLua},
             events' \subseteq Scripts!Gens,
             timers' \in [Scripts!Slots -> Scripts!Gens \cup {Scripts!NoLua}],
             booting' \in BOOLEAN, pump' \in {"no", "mqtt", "console"}, online' \in BOOLEAN,
             refused' \subseteq Scripts!Gens
      PROVE  ScriptInv'
  <2>1. RestTyped'
    BY <1>q DEF RestTyped, BudgetKept, Scripts!Gens, Scripts!Slots
  <2>2. QED
    BY <1>q, <2>1, ScriptPartsNext DEF BudgetKept
<1>r. /\ gen \in Scripts!Gens /\ lua \in Scripts!Gens \cup {Scripts!NoLua}
      /\ events \subseteq Scripts!Gens
      /\ timers \in [Scripts!Slots -> Scripts!Gens \cup {Scripts!NoLua}]
      /\ booting \in BOOLEAN /\ pump \in {"no", "mqtt", "console"} /\ online \in BOOLEAN
      /\ refused \subseteq Scripts!Gens
  BY <1>p DEF RestTyped
<1>1. CASE Scripts!Spin
  <2>1. /\ ~hit /\ Scripts!Tick
        /\ UNCHANGED <<gen, lua, stack, subs, refused, events, timers, booting, pump, online>>
    BY <1>1 DEF Scripts!Spin, Scripts!Runs
  <2>2. QED
    BY <1>p, <1>q, <1>r, <2>1, StackStays, TableStays, ClockTicks, StateStays
<1>2. CASE Scripts!MqttSubscribe
  <2>1. /\ ~hit /\ Scripts!Tick /\ subs' = Scripts!Added(subs, Scripts!Entry("lua", gen))
        /\ refused' \in {refused, refused \cup {gen}} /\ pump' \in {"mqtt", "no"}
        /\ UNCHANGED <<gen, lua, stack, events, timers, booting, online>>
    BY <1>2 DEF Scripts!MqttSubscribe, Scripts!Runs
  <2>2. TableSound'
    BY <1>p, <1>r, <2>1, TableAdds
  <2>3. refused' \subseteq Scripts!Gens
    BY <1>r, <2>1
  <2>4. QED
    BY <1>p, <1>q, <1>r, <2>1, <2>2, <2>3, StackStays, ClockTicks, StateStays
<1>3. CASE Scripts!EventSubscribe
  <2>1. /\ ~hit /\ Scripts!Tick /\ events' = events \cup {gen}
        /\ UNCHANGED <<gen, lua, stack, subs, refused, timers, booting, pump, online>>
    BY <1>3 DEF Scripts!EventSubscribe, Scripts!Runs
  <2>2. events' \subseteq Scripts!Gens
    BY <1>r, <2>1
  <2>3. QED
    BY <1>p, <1>q, <1>r, <2>1, <2>2, StackStays, TableStays, ClockTicks, StateStays
<1>4. CASE Scripts!SetTimeout
  <2>1. PICK s \in Scripts!Slots : timers' = [timers EXCEPT ![s] = gen]
    BY <1>4 DEF Scripts!SetTimeout
  <2>2. /\ ~hit /\ Scripts!Tick
        /\ UNCHANGED <<gen, lua, stack, subs, refused, events, booting, pump, online>>
    BY <1>4 DEF Scripts!SetTimeout, Scripts!Runs
  <2>3. timers' \in [Scripts!Slots -> Scripts!Gens \cup {Scripts!NoLua}]
    BY <1>r, <2>1
  <2>4. OneState'
    BY <1>p, <1>r, <2>1, <2>2 DEF OneState, Scripts!Slots
  <2>5. QED
    BY <1>p, <1>q, <1>r, <2>2, <2>3, <2>4, StackStays, TableStays, ClockTicks
<1>5. CASE Scripts!MqttPublish
  <2>1. /\ ~hit /\ Scripts!Blocked /\ pump' = "console"
        /\ UNCHANGED <<gen, lua, stack, subs, refused, events, timers, booting, online>>
    BY <1>5 DEF Scripts!MqttPublish, Scripts!Runs
  <2>2. QED
    BY <1>p, <1>q, <1>r, <2>1, StackStays, TableStays, ClockBlocked, StateStays
<1>6. CASE Scripts!Return
  BY <1>6, ReturnKeeps
<1>7. CASE Scripts!Panic
  <2>1. (Boots => ScriptInv)'
    BY BootIsSound, PTL
  <2>2. Boots'
    BY <1>7, <1>r DEF Scripts!Panic, Boots, Scripts!Core, Scripts!Slots, Scripts!NoLua, Scripts!Entry
  <2>3. QED
    BY <2>1, <2>2
<1>8. CASE Scripts!PumpDone
  <2>1. /\ pump' = "no"
        /\ UNCHANGED <<gen, lua, stack, subs, refused, events, timers, booting, spent, credit, hit,
                       online>>
    BY <1>8 DEF Scripts!PumpDone
  <2>2. QED
    BY <1>p, <1>q, <1>r, <2>1, StackStays, TableStays, ClockStays, StateStays
<1>9. CASE Scripts!MessageArrives
  <2>1. /\ \E g : lua # Scripts!NoLua /\ g = gen /\ Scripts!Call(g, "callback")
        /\ pump' = "no"
        /\ UNCHANGED <<gen, lua, subs, refused, events, timers, booting, online>>
    BY <1>9 DEF Scripts!MessageArrives, Scripts!FromMqtt, Scripts!Live
  <2>2. StackSound' /\ BudgetKept'
    BY <2>1, CallSound DEF Scripts!Kinds
  <2>3. QED
    BY <1>p, <1>q, <1>r, <2>1, <2>2, TableStays, StateStays
<1>10. CASE Scripts!ReloadTopic \/ Scripts!LuaReload
  BY <1>10, LuaReloadKeeps
     DEF Scripts!ReloadTopic, Scripts!LuaReload, Scripts!FromMqtt, Scripts!FromConsole
<1>11. CASE Scripts!LuaExec
  <2>1. /\ lua # Scripts!NoLua /\ Scripts!Call(gen, "callback") /\ pump' = "no"
        /\ UNCHANGED <<gen, lua, subs, refused, events, timers, booting, online>>
    BY <1>11 DEF Scripts!LuaExec, Scripts!FromConsole
  <2>2. StackSound' /\ BudgetKept'
    BY <2>1, CallSound DEF Scripts!Kinds
  <2>3. QED
    BY <1>p, <1>q, <1>r, <2>1, <2>2, TableStays, StateStays
<1>12. CASE Scripts!ReinitSubscriptions
  <2>1. /\ subs' = Scripts!Core /\ online' = FALSE /\ pump' = "no"
        /\ UNCHANGED <<gen, lua, stack, refused, events, timers, booting, spent, credit, hit>>
    BY <1>12 DEF Scripts!ReinitSubscriptions, Scripts!FromConsole, Scripts!ResetSubs
  <2>2. (subs = Scripts!Core => TableSound)'
    BY TableResets, PTL
  <2>3. Scripts!Core' = Scripts!Core
    BY DEF Scripts!Core, Scripts!Entry, Scripts!NoLua
  <2>4. QED
    BY <1>p, <1>q, <1>r, <2>1, <2>2, <2>3, StackStays, ClockStays, StateStays
<1>13. CASE Scripts!EventPublished
  <2>1. /\ \E g : lua # Scripts!NoLua /\ g = gen /\ Scripts!Call(g, "callback")
        /\ UNCHANGED <<gen, lua, subs, refused, events, timers, booting, pump, online>>
    BY <1>13 DEF Scripts!EventPublished, Scripts!Live
  <2>2. StackSound' /\ BudgetKept'
    BY <2>1, CallSound DEF Scripts!Kinds
  <2>3. QED
    BY <1>p, <1>q, <1>r, <2>1, <2>2, TableStays, StateStays
<1>14. ASSUME NEW s \in Scripts!Slots, Scripts!FireTimer(s) PROVE ScriptInv'
  <2>1. /\ lua # Scripts!NoLua /\ timers[s] # Scripts!NoLua
        /\ timers' = [timers EXCEPT ![s] = Scripts!NoLua] /\ Scripts!Call(timers[s], "callback")
        /\ UNCHANGED <<gen, lua, subs, refused, events, booting, pump, online>>
    BY <1>14 DEF Scripts!FireTimer
  <2>2. timers[s] = gen
    BY <1>p, <2>1 DEF OneState
  <2>3. StackSound' /\ BudgetKept'
    BY <2>1, <2>2, CallSound DEF Scripts!Kinds
  <2>4. timers' \in [Scripts!Slots -> Scripts!Gens \cup {Scripts!NoLua}]
    BY <1>r, <2>1
  <2>5. OneState'
    BY <1>p, <1>r, <2>1 DEF OneState, Scripts!Slots
  <2>6. QED
    BY <1>p, <1>q, <1>r, <2>1, <2>3, <2>4, <2>5, TableStays
<1>15. CASE Scripts!Session
  <2>1. /\ online' = ~online
        /\ UNCHANGED <<gen, lua, stack, subs, refused, events, timers, booting, pump, spent, credit,
                       hit>>
    BY <1>15 DEF Scripts!Session
  <2>2. QED
    BY <1>p, <1>q, <1>r, <2>1, StackStays, TableStays, ClockStays, StateStays
<1>16. CASE UNCHANGED Scripts!vars
  <2>1. UNCHANGED <<gen, lua, stack, subs, refused, events, timers, booting, pump, spent, credit,
                    hit, online>>
    BY <1>16 DEF Scripts!vars
  <2>2. QED
    BY <1>p, <1>q, <1>r, <2>1, StackStays, TableStays, ClockStays, StateStays
<1>17. QED
  BY <1>1, <1>2, <1>3, <1>4, <1>5, <1>6, <1>7, <1>8, <1>9, <1>10, <1>11, <1>12, <1>13, <1>14,
     <1>15, <1>16 DEF Scripts!Next, Scripts!Run, Scripts!Arrivals

\* The scenes move the script engine by its own steps only.
LEMMA SceneScripts == SceneSpec => Scripts!Spec
<1>1. SceneInit => Scripts!Init
  BY DEF SceneInit, LuaRests
<1>2. [SceneNext]_allVars => [Scripts!Next]_(Scripts!vars)
  <2> SUFFICES ASSUME [SceneNext]_allVars PROVE [Scripts!Next]_(Scripts!vars)
    OBVIOUS
  <2>1. CASE UNCHANGED luaVars
    BY <2>1 DEF luaVars, Scripts!vars, Scripts!tableVars, Scripts!budgetVars
  <2>2. CASE Scripts!Next
    BY <2>2
  <2>3. QED
    BY <2>1, <2>2 DEF SceneNext, allVars
<1>3. QED
  BY <1>1, <1>2, PTL DEF SceneSpec, Scripts!Spec

\* What a call into Lua runs was registered in the state it runs in, and
\* however scripts subscribe, fail and reload each core topic stays in the
\* subscription table, once.  For every size of the table, number of timers,
\* budget, number of reloads and depth of nested calls.
THEOREM ScriptsAreSound == SceneSpec => []ScriptsSound
<1>1. Scripts!Init => ScriptInv
  BY BootIsSound DEF Scripts!Init, Boots
<1>2. ScriptInv => ScriptsSound
  <2> SUFFICES ASSUME ScriptInv PROVE Scripts!OwnCallbacksOnly /\ Scripts!CoreRegistered
    BY DEF ScriptsSound
  <2>1. stack \in Seq(Scripts!Frame)
    BY DEF ScriptInv, Scripts!TypeOK
  <2>2. stack # <<>> => Len(stack) \in 1..Len(stack)
    BY <2>1, EmptySeq
  <2>3. Scripts!OwnCallbacksOnly
    BY <2>2 DEF ScriptInv, OwnFrames, Scripts!OwnCallbacksOnly, Scripts!Top
  <2>4. QED
    BY <2>3 DEF ScriptInv
<1>3. QED
  BY <1>1, <1>2, ScriptNext, SceneScripts, PTL DEF Scripts!Spec

-----------------------------------------------------------------------------
(* Enrollment.                                                                *)

JobType == [ask : Enroll!Requests \cup {"nothing"}, serial : Nat, answer : Enroll!Answers]
NvsType == [cert : Nat, key : Nat, ack : BOOLEAN]
AppType == [at : {"unknown", "challenged", "verified", "claimed"}, serial : 0..MaxSerial,
            sealed : BOOLEAN]

CertTyped ==
  /\ ident \in [sk : Nat, pk : Nat, id : BOOLEAN] /\ minted \in Nat
  /\ nvs \in NvsType /\ app \in AppType /\ job \in JobType

\* An identity that loads is one mint's, whatever cut a mint short.
IdentitySound == (ready \/ Enroll!Loads) => ident.sk = ident.pk

\* Only a running unit asks for anything or stores anything, what is asked is
\* what the step is about, and what is stored was polled for.
JobSound ==
  /\ phase # "run" => job = Enroll!NoJob /\ storing = "no"
  /\ job.ask = "nothing" => job = Enroll!NoJob
  /\ job.ask \in {"announce", "verify", "poll", "ack"} => step = job.ask
  /\ storing # "no" => job.ask = "poll" /\ job.answer = "ok"

\* The app's serials run on, and until a poll has stored it the key of its
\* latest one is not on the unit: the certificate that arrives first never
\* matches a key left from before.
KeyIsOlder ==
  /\ nvs.key <= app.serial \/ nvs.key > MaxSerial
  /\ app.at = "claimed" => app.serial >= 1
  /\ /\ app.at = "claimed"
     /\ step \in {"verify", "poll"} \/ (job.ask = "announce" /\ job.answer = "ok")
     => nvs.key # app.serial
  /\ job.ask = "poll" /\ job.answer = "ok" => app.serial >= 1 /\ nvs.key # app.serial

CertInv ==
  /\ CertTyped
  /\ IdentitySound
  /\ JobSound
  /\ KeyIsOlder
  /\ Enroll!BrokenIsBroken

LEMMA EmptyJob ==
  /\ Enroll!NoJob \in JobType /\ Enroll!NoJob.ask = "nothing" /\ Enroll!NoJob.serial = 0
  /\ Enroll!NoJob.answer = "none"
<1>1. 0 \in Nat
  OBVIOUS
<1>2. QED
  BY <1>1 DEF Enroll!NoJob, Enroll!None, JobType, Enroll!Answers

LEMMA CertFacts ==
  ASSUME CertInv
  PROVE  /\ ident \in [sk : Nat, pk : Nat, id : BOOLEAN] /\ minted \in Nat
         /\ nvs \in NvsType /\ app \in AppType /\ job \in JobType
         /\ app.serial \in Nat /\ app.serial <= MaxSerial /\ nvs.key \in Nat /\ nvs.cert \in Nat
BY CertAssumption DEF CertInv, CertTyped, NvsType, AppType

\* The identity and the stored pair, untouched.
LEMMA IdentityStays == ASSUME IdentitySound, UNCHANGED <<ident, ready>> PROVE IdentitySound'
BY DEF IdentitySound, Enroll!Loads, Enroll!None

LEMMA VerdictStays ==
  ASSUME Enroll!BrokenIsBroken, UNCHANGED broken, nvs'.cert = nvs.cert, nvs'.key = nvs.key
  PROVE  Enroll!BrokenIsBroken'
BY DEF Enroll!BrokenIsBroken, Enroll!PairValid, Enroll!HasCert, Enroll!None

\* Every restart, also of a unit whose identity was erased.
LEMMA RestartKeeps ==
  ASSUME CertInv, Enroll!Restarts, ident' \in {ident, Enroll!Blank} PROVE CertInv'
<1>1. /\ phase' = "identity" /\ ready' = FALSE /\ step' = "done" /\ job' = Enroll!NoJob
      /\ storing' = "no" /\ broken' = FALSE /\ UNCHANGED <<minted, nvs, saved, app, revoked>>
  BY DEF Enroll!Restarts, Enroll!storeVars, Enroll!appVars
<1>2. Enroll!Blank \in [sk : Nat, pk : Nat, id : BOOLEAN] /\ Enroll!Blank.sk = Enroll!Blank.pk
  <2>1. 0 \in Nat
    OBVIOUS
  <2>2. QED
    BY <2>1 DEF Enroll!Blank, Enroll!None
<1>3. CertTyped'
  BY <1>1, <1>2, CertFacts, EmptyJob DEF CertTyped, NvsType, AppType, JobType, Enroll!Requests, Enroll!Answers
<1>4. IdentitySound'
  BY <1>1, <1>2 DEF CertInv, IdentitySound, Enroll!Loads, Enroll!None
<1>5. JobSound'
  BY <1>1, EmptyJob DEF JobSound, Enroll!NoJob, Enroll!None
<1>6. KeyIsOlder'
  BY <1>1, EmptyJob DEF CertInv, KeyIsOlder
<1>7. Enroll!BrokenIsBroken'
  BY <1>1 DEF Enroll!BrokenIsBroken
<1>8. QED
  BY <1>3, <1>4, <1>5, <1>6, <1>7 DEF CertInv

LEMMA IdentityBeginKeeps == ASSUME CertInv, Enroll!IdentityBegin PROVE CertInv'
<1>1. /\ phase = "identity" /\ phase' \in {"identity", "enroll"}
      /\ UNCHANGED <<step, active, job, stale, storing, nvs, saved, broken, app, revoked>>
  BY DEF Enroll!IdentityBegin, Enroll!enrollVars, Enroll!storeVars, Enroll!linkVars, Enroll!appVars
<1>2. PICK n \in Nat : n = minted + 1
  BY CertFacts
<1>3. \/ Enroll!Loads /\ ready' = TRUE /\ UNCHANGED <<ident, minted>>
      \/ ~Enroll!Loads /\ minted' = n /\ ident' = Enroll!Whole(n) /\ ready' = TRUE
      \/ ~Enroll!Loads /\ minted' = n /\ ident' \in Enroll!MintWrites(n) /\ ready' = FALSE
  BY <1>2 DEF Enroll!IdentityBegin
<1>4. /\ Enroll!Whole(n) \in [sk : Nat, pk : Nat, id : BOOLEAN]
      /\ Enroll!Whole(n).sk = Enroll!Whole(n).pk
  BY DEF Enroll!Whole
<1>5. ident' \in [sk : Nat, pk : Nat, id : BOOLEAN]
      /\ ((ready' \/ (ident'.id /\ ident'.pk # 0)) => ident'.sk = ident'.pk)
  <2>1. CASE Enroll!Loads /\ ready' = TRUE /\ UNCHANGED <<ident, minted>>
    BY <2>1, CertFacts DEF CertInv, IdentitySound
  <2>2. CASE ident' = Enroll!Whole(n)
    BY <1>4, <2>2
  <2>3. CASE ~Enroll!Loads /\ ident' \in Enroll!MintWrites(n) /\ ready' = FALSE
    <3>1. ~(ident.id /\ ident.pk # 0)
      BY <2>3 DEF Enroll!Loads, Enroll!None
    <3>2. CASE ident' = ident
      BY <2>3, <3>1, <3>2, CertFacts
    <3>3. CASE ident' = [ident EXCEPT !.sk = n]
      BY <2>3, <3>1, <3>3, CertFacts
    <3>4. CASE ident' = [ident EXCEPT !.sk = n, !.pk = n]
      BY <3>4, CertFacts
    <3>5. QED
      BY <2>2, <2>3, <3>2, <3>3, <3>4 DEF Enroll!MintWrites
  <2>4. QED
    BY <1>3, <2>1, <2>2, <2>3
<1>6. CertTyped'
  BY <1>1, <1>2, <1>3, <1>5, CertFacts
     DEF CertTyped, NvsType, AppType, JobType, Enroll!Requests, Enroll!Answers
<1>7. IdentitySound'
  BY <1>5 DEF IdentitySound, Enroll!Loads, Enroll!None
<1>8. JobSound'
  BY <1>1 DEF CertInv, JobSound, Enroll!NoJob, Enroll!None
<1>9. KeyIsOlder'
  BY <1>1 DEF CertInv, KeyIsOlder
<1>10. Enroll!BrokenIsBroken'
  BY <1>1, VerdictStays DEF CertInv
<1>11. QED
  BY <1>6, <1>7, <1>8, <1>9, <1>10 DEF CertInv

LEMMA EnrollBeginKeeps == ASSUME CertInv, Enroll!EnrollBegin PROVE CertInv'
<1>1. /\ phase = "enroll" /\ phase' = "run"
      /\ UNCHANGED <<ident, minted, ready, job, stale, storing, broken, app, revoked>>
  BY DEF Enroll!EnrollBegin, Enroll!appVars
<1>2. step' \in {step, "announce", "awaitMtls", "done"}
  BY DEF Enroll!EnrollBegin, Enroll!StartStep
<1>3. nvs' \in NvsType /\ nvs'.cert = nvs.cert /\ nvs'.key = nvs.key
  <2>1. nvs' = nvs \/ nvs' = [nvs EXCEPT !.ack = nvs.ack /\ Enroll!HasCert]
    BY DEF Enroll!EnrollBegin
  <2>2. (nvs.ack /\ Enroll!HasCert) \in BOOLEAN
    BY CertFacts DEF NvsType, Enroll!HasCert
  <2>3. QED
    BY <2>1, <2>2, CertFacts DEF NvsType
<1>4. job = Enroll!NoJob /\ storing = "no" /\ job.ask = "nothing" /\ job.answer = "none"
  BY <1>1, EmptyJob DEF CertInv, JobSound
<1>5. CertTyped'
  BY <1>1, <1>3, CertFacts
     DEF CertTyped, NvsType, AppType, JobType, Enroll!Requests, Enroll!Answers
<1>6. IdentitySound'
  BY <1>1, IdentityStays DEF CertInv
<1>7. JobSound'
  BY <1>1, <1>4 DEF JobSound
<1>8. KeyIsOlder'
  BY <1>1, <1>2, <1>3, <1>4 DEF CertInv, KeyIsOlder
<1>9. Enroll!BrokenIsBroken'
  BY <1>1, <1>3, VerdictStays DEF CertInv
<1>10. QED
  BY <1>5, <1>6, <1>7, <1>8, <1>9 DEF CertInv

\* The steps after boot leave the identity alone.
LEMMA RunKeeps ==
  ASSUME CertInv, UNCHANGED <<ident, minted, ready>>, nvs' \in NvsType, app' \in AppType,
         job' \in JobType, JobSound', KeyIsOlder', Enroll!BrokenIsBroken'
  PROVE  CertInv'
<1>1. CertTyped'
  BY CertFacts DEF CertTyped, NvsType, AppType, JobType, Enroll!Requests, Enroll!Answers
<1>2. IdentitySound'
  BY IdentityStays DEF CertInv
<1>3. QED
  BY <1>1, <1>2 DEF CertInv

LEMMA ServeFacts ==
  ASSUME CertInv, NEW ask, Enroll!Serve(ask)
  PROVE  /\ app' \in AppType /\ app'.serial = app.serial
         /\ app'.at = "claimed" => app.at = "claimed" /\ ask # "announce"
<1>1. app \in AppType
  BY CertFacts
<1>2. CASE ask = "announce"
  <2>1. app' = [app EXCEPT !.at = "challenged", !.sealed = FALSE]
    BY <1>2 DEF Enroll!Serve
  <2>2. QED
    BY <1>1, <2>1 DEF AppType
<1>3. CASE ask = "verify"
  <2>1. app' = [app EXCEPT !.at = "verified"] \/ app' = [app EXCEPT !.at = "unknown"]
    BY <1>1, <1>3 DEF Enroll!Serve, AppType
  <2>2. QED
    BY <1>1, <2>1 DEF AppType
<1>4. CASE ask = "ack"
  <2>1. app' = [app EXCEPT !.sealed = TRUE]
    BY <1>4 DEF Enroll!Serve
  <2>2. QED
    BY <1>1, <1>4, <2>1 DEF AppType
<1>5. CASE ask \notin {"announce", "verify", "ack"}
  BY <1>1, <1>5 DEF Enroll!Serve
<1>6. QED
  BY <1>2, <1>3, <1>4, <1>5

LEMMA AdvanceFacts ==
  ASSUME NEW answer, Enroll!Advance(answer)
  PROVE  /\ step' \in {"verify", "poll"} =>
              step \in {"verify", "poll"} \/ (step = "announce" /\ answer = "ok")
         /\ step = "poll" /\ answer = "ok" => step' = "awaitMtls"
BY DEF Enroll!Advance

\* A job ends, its answer moves the step on.
LEMMA JobEnds ==
  ASSUME CertInv, NEW answer, Enroll!Advance(answer), job' = Enroll!NoJob, storing' = "no",
         UNCHANGED <<app>>, nvs'.key = nvs.key,
         job.ask \in {"announce", "verify", "poll", "ack"},
         job.ask = "announce" /\ answer = "ok" => job.answer = "ok"
  PROVE  JobSound' /\ KeyIsOlder'
<1>1. job'.ask = "nothing" /\ job'.answer = "none"
  BY EmptyJob
<1>2. step = job.ask
  BY DEF CertInv, JobSound
<1>3. step' \in {"verify", "poll"} =>
        step \in {"verify", "poll"} \/ (job.ask = "announce" /\ job.answer = "ok")
  BY <1>2, AdvanceFacts
<1>4. JobSound'
  BY <1>1 DEF JobSound, Enroll!NoJob, Enroll!None
<1>5. KeyIsOlder'
  BY <1>1, <1>3 DEF CertInv, KeyIsOlder
<1>6. QED
  BY <1>4, <1>5

\* Both halves go, or the removal of one or both fails.
LEMMA ClearFacts ==
  ASSUME CertInv, Enroll!Cleared \/ Enroll!ClearFailed
  PROVE  /\ nvs' \in NvsType /\ nvs'.key \in {nvs.key, 0}
         /\ Enroll!BrokenIsBroken'
<1>1. nvs \in NvsType /\ 0 \in Nat
  BY CertFacts
<1>2. CASE nvs' = nvs /\ broken' = broken
  BY <1>1, <1>2, VerdictStays DEF CertInv
<1>3. CASE nvs' = [nvs EXCEPT !.cert = 0, !.key = 0] \/ nvs' = [nvs EXCEPT !.cert = 0]
           \/ nvs' = [nvs EXCEPT !.key = 0]
  <2>1. nvs' \in NvsType /\ nvs'.key \in {nvs.key, 0} /\ (nvs'.cert = 0 \/ nvs'.key = 0)
    BY <1>1, <1>3 DEF NvsType
  <2>2. QED
    BY <2>1 DEF Enroll!BrokenIsBroken, Enroll!PairValid, Enroll!HasCert, Enroll!None
<1>4. QED
  BY <1>2, <1>3 DEF Enroll!Cleared, Enroll!ClearFailed, Enroll!None

\* A key an operator pushed or a wipe left is never the app's latest.
LEMMA KeyReplaced ==
  ASSUME CertInv, nvs'.key \in Nat, nvs'.key = nvs.key \/ nvs'.key = 0 \/ nvs'.key > MaxSerial,
         UNCHANGED <<app, step>>,
         job' = job \/ job' = Enroll!NoJob
  PROVE  KeyIsOlder'
<1>1. app.serial \in Nat /\ app.serial <= MaxSerial
  BY CertFacts
<1>2. nvs'.key = nvs.key \/ (app.serial >= 1 => nvs'.key # app.serial)
  BY <1>1, CertAssumption
<1>3. nvs'.key <= app.serial \/ nvs'.key > MaxSerial
  BY <1>1, CertAssumption DEF CertInv, KeyIsOlder
<1>4. QED
  BY <1>2, <1>3, EmptyJob DEF CertInv, KeyIsOlder

LEMMA CertNext == CertInv /\ [Enroll!Next]_(Enroll!vars) => CertInv'
<1> SUFFICES ASSUME CertInv, [Enroll!Next]_(Enroll!vars) PROVE CertInv'
  OBVIOUS
<1> USE DEF Enroll!identVars, Enroll!enrollVars, Enroll!storeVars, Enroll!linkVars, Enroll!appVars
<1>t. /\ nvs \in NvsType /\ app \in AppType /\ job \in JobType
      /\ app.serial \in Nat /\ app.serial <= MaxSerial /\ nvs.key \in Nat /\ nvs.cert \in Nat
  BY CertFacts
<1>i. JobSound /\ KeyIsOlder /\ Enroll!BrokenIsBroken
  BY DEF CertInv
<1>n. Enroll!NoJob \in JobType /\ Enroll!NoJob.ask = "nothing" /\ Enroll!NoJob.answer = "none"
  BY EmptyJob
<1>1. CASE Enroll!IdentityBegin \/ Enroll!EnrollBegin
  BY <1>1, IdentityBeginKeeps, EnrollBeginKeeps
<1>2. CASE Enroll!CertReboot \/ Enroll!PowerCut
  BY <1>2, RestartKeeps DEF Enroll!CertReboot, Enroll!PowerCut
<1>3. CASE Enroll!IdentityReset
  BY <1>3, RestartKeeps DEF Enroll!IdentityReset
<1>4. CASE Enroll!Connect
  <2>1. /\ broken' = (Enroll!HasCert /\ ~Enroll!PairValid)
        /\ UNCHANGED <<ident, minted, ready, phase, step, job, storing, nvs, app>>
    BY <1>4 DEF Enroll!Connect
  <2>2. JobSound' /\ KeyIsOlder'
    BY <1>i, <2>1 DEF JobSound, KeyIsOlder, Enroll!NoJob, Enroll!None
  <2>3. Enroll!BrokenIsBroken'
    BY <2>1 DEF Enroll!BrokenIsBroken, Enroll!PairValid, Enroll!HasCert, Enroll!None
  <2>4. QED
    BY <1>t, <2>1, <2>2, <2>3, RunKeeps
<1>5. CASE Enroll!StartJob
  <2>1. /\ phase = "run" /\ storing = "no" /\ step \in {"announce", "verify", "poll", "ack"}
        /\ job' = [Enroll!NoJob EXCEPT !.ask = step]
        /\ UNCHANGED <<ident, minted, ready, phase, step, storing, nvs, app, broken>>
    BY <1>5 DEF Enroll!StartJob, Enroll!Idle
  <2>2. job' \in JobType /\ job'.ask = step /\ job'.answer = "none"
    BY <1>n, <2>1 DEF JobType, Enroll!Requests
  <2>3. JobSound'
    BY <2>1, <2>2 DEF JobSound
  <2>4. KeyIsOlder'
    BY <1>i, <2>1, <2>2 DEF KeyIsOlder
  <2>5. QED
    BY <1>t, <1>i, <2>1, <2>2, <2>3, <2>4, VerdictStays, RunKeeps
<1>6. CASE Enroll!AwaitMtls
  <2>1. /\ phase = "run" /\ storing = "no" /\ job = Enroll!NoJob /\ step' = "ack"
        /\ UNCHANGED <<ident, minted, ready, phase, job, storing, nvs, app, broken>>
    BY <1>6 DEF Enroll!AwaitMtls, Enroll!Idle
  <2>2. JobSound'
    BY <1>n, <2>1 DEF JobSound
  <2>3. KeyIsOlder'
    BY <1>i, <1>n, <2>1 DEF KeyIsOlder
  <2>4. QED
    BY <1>t, <1>i, <2>1, <2>2, <2>3, VerdictStays, RunKeeps
<1>7. CASE Enroll!StartCheck
  <2>1. /\ phase = "run" /\ storing = "no"
        /\ job' = Enroll!NoJob \/ job' = [Enroll!NoJob EXCEPT !.ask = "status", !.serial = nvs.cert]
        /\ UNCHANGED <<ident, minted, ready, phase, step, storing, nvs, app, broken>>
    BY <1>7 DEF Enroll!StartCheck, Enroll!Idle
  <2>2. job' \in JobType /\ job'.ask \in {"nothing", "status"} /\ job'.answer = "none"
    <3>1. "status" \in Enroll!Requests /\ nvs.cert \in Nat
      BY <1>t DEF Enroll!Requests
    <3>2. CASE job' = Enroll!NoJob
      BY <1>n, <3>2
    <3>3. CASE job' = [Enroll!NoJob EXCEPT !.ask = "status", !.serial = nvs.cert]
      BY <1>n, <3>1, <3>3 DEF JobType
    <3>4. QED
      BY <2>1, <3>2, <3>3
  <2>3. JobSound'
    <3>1. job'.ask = "nothing" => job' = Enroll!NoJob
      BY <1>n, <2>1 DEF JobType
    <3>2. QED
      BY <2>1, <2>2, <3>1 DEF JobSound, Enroll!NoJob, Enroll!None
  <2>4. KeyIsOlder'
    BY <1>i, <2>1, <2>2 DEF KeyIsOlder
  <2>5. QED
    BY <1>t, <1>i, <2>1, <2>2, <2>3, <2>4, VerdictStays, RunKeeps
<1>8. CASE Enroll!TaskDone
  <2>1. /\ job # Enroll!NoJob /\ job.answer = "none"
        /\ UNCHANGED <<ident, minted, ready, phase, step, storing, nvs, broken>>
        /\ \/ Enroll!Serve(job.ask) /\ job' = [job EXCEPT !.answer = Enroll!Says(job.ask)]
           \/ Enroll!Serve(job.ask) /\ job' = [job EXCEPT !.answer = "lost"]
           \/ UNCHANGED app /\ job' = [job EXCEPT !.answer = "lost"]
    BY <1>8 DEF Enroll!TaskDone
  <2>2. phase = "run" /\ storing = "no"
    BY <1>i, <2>1 DEF JobSound
  <2>3. job.ask \in Enroll!Requests
    BY <1>t, <1>i, <2>1 DEF JobSound, JobType
  <2>4. /\ app' \in AppType /\ app'.serial = app.serial
        /\ app'.at = "claimed" => app.at = "claimed"
        /\ job'.answer # "lost" /\ job.ask = "announce" => app'.at # "claimed"
    <3>1. CASE Enroll!Serve(job.ask)
      BY <2>3, <3>1, ServeFacts
    <3>2. CASE UNCHANGED app /\ job' = [job EXCEPT !.answer = "lost"]
      BY <1>t, <3>2 DEF JobType, AppType
    <3>3. QED
      BY <2>1, <3>1, <3>2
  <2>5. Enroll!Says(job.ask) \in Enroll!Answers
        /\ (job.ask = "poll" /\ Enroll!Says(job.ask) = "ok" => app.at = "claimed")
    BY <2>3 DEF Enroll!Says, Enroll!Answers, Enroll!Requests
  <2>6. /\ job' \in JobType /\ job'.ask = job.ask
        /\ job.ask = "poll" /\ job'.answer = "ok" => app.at = "claimed"
    BY <1>t, <2>1, <2>5 DEF JobType, Enroll!Answers
  <2>7. JobSound'
    BY <1>i, <2>1, <2>2, <2>3, <2>6 DEF JobSound, Enroll!Requests
  <2>8. KeyIsOlder'
    <3>1. job.ask = "poll" => step = "poll"
      BY <1>i DEF JobSound
    <3>2. /\ nvs'.key <= app'.serial \/ nvs'.key > MaxSerial
          /\ app'.at = "claimed" => app'.serial >= 1
      BY <1>i, <2>1, <2>4 DEF KeyIsOlder
    <3>3. job'.ask = "poll" /\ job'.answer = "ok" => app'.serial >= 1 /\ nvs'.key # app'.serial
      BY <1>i, <2>1, <2>4, <2>6, <3>1 DEF KeyIsOlder
    <3>4. /\ app'.at = "claimed"
          /\ step' \in {"verify", "poll"} \/ (job'.ask = "announce" /\ job'.answer = "ok")
          => nvs'.key # app'.serial
      BY <1>i, <2>1, <2>4, <2>6 DEF KeyIsOlder
    <3>5. QED
      BY <3>2, <3>3, <3>4 DEF KeyIsOlder
  <2>9. QED
    BY <1>t, <1>i, <2>1, <2>4, <2>6, <2>7, <2>8, VerdictStays, RunKeeps
<1>9. CASE Enroll!Overrun
  <2>1. /\ job # Enroll!NoJob /\ job' = Enroll!NoJob
        /\ \/ job.ask = "status" /\ step' = step
           \/ job.ask # "status" /\ Enroll!Advance("lost")
        /\ job.answer = "none"
        /\ UNCHANGED <<ident, minted, ready, phase, storing, nvs, app, broken>>
    BY <1>9 DEF Enroll!Overrun
  <2>2. storing = "no" /\ job.ask \in Enroll!Requests
    BY <1>t, <1>i, <2>1 DEF JobSound, JobType
  <2>3. JobSound' /\ KeyIsOlder'
    <3>1. CASE job.ask = "status" /\ step' = step
      BY <1>i, <1>n, <2>1, <2>2, <3>1 DEF JobSound, KeyIsOlder, Enroll!NoJob, Enroll!None
    <3>2. CASE job.ask # "status" /\ Enroll!Advance("lost")
      <4>1. job.ask \in {"announce", "verify", "poll", "ack"} /\ storing' = "no"
        BY <2>1, <2>2, <3>2 DEF Enroll!Requests
      <4>2. QED
        BY <2>1, <3>2, <4>1, JobEnds
    <3>3. QED
      BY <2>1, <3>1, <3>2
  <2>4. QED
    BY <1>t, <1>i, <1>n, <2>1, <2>3, VerdictStays, RunKeeps
<1>10. CASE Enroll!ReapStale
  <2>1. /\ stale # "nothing" /\ (Enroll!Serve(stale) \/ UNCHANGED app)
        /\ UNCHANGED <<ident, minted, ready, phase, step, job, storing, nvs, broken>>
    BY <1>10 DEF Enroll!ReapStale
  <2>2. app' \in AppType /\ app'.serial = app.serial /\ (app'.at = "claimed" => app.at = "claimed")
    <3>1. CASE Enroll!Serve(stale)
      BY <3>1, ServeFacts
    <3>2. CASE UNCHANGED app
      BY <1>t, <3>2
    <3>3. QED
      BY <2>1, <3>1, <3>2
  <2>3. JobSound'
    BY <1>i, <2>1 DEF JobSound, Enroll!NoJob, Enroll!None
  <2>4. KeyIsOlder'
    BY <1>i, <2>1, <2>2 DEF KeyIsOlder
  <2>5. QED
    BY <1>t, <1>i, <2>1, <2>2, <2>3, <2>4, VerdictStays, RunKeeps
<1>11. CASE Enroll!FinishJob
  <2>1. /\ job.ask \in {"announce", "verify", "poll"} /\ storing = "no" /\ job' = Enroll!NoJob
        /\ Enroll!Advance(job.answer)
        /\ UNCHANGED <<ident, minted, ready, phase, storing, nvs, app, broken>>
    BY <1>11 DEF Enroll!FinishJob
  <2>2. JobSound' /\ KeyIsOlder'
    BY <2>1, JobEnds
  <2>3. QED
    BY <1>t, <1>i, <1>n, <2>1, <2>2, VerdictStays, RunKeeps
<1>12. CASE Enroll!FinishAck
  <2>1. /\ job.ask = "ack" /\ job' = Enroll!NoJob
        /\ \E answer : Enroll!Advance(answer)
        /\ nvs' = nvs \/ nvs' = [nvs EXCEPT !.ack = nvs.ack /\ job.answer # "ok"]
        /\ UNCHANGED <<ident, minted, ready, phase, storing, app, broken>>
    BY <1>12 DEF Enroll!FinishAck
  <2>2. (nvs.ack /\ job.answer # "ok") \in BOOLEAN
    BY <1>t DEF NvsType
  <2>3. nvs' \in NvsType /\ nvs'.cert = nvs.cert /\ nvs'.key = nvs.key
    BY <1>t, <2>1, <2>2 DEF NvsType
  <2>4. storing' = "no"
    BY <1>i, <2>1 DEF JobSound
  <2>5. JobSound' /\ KeyIsOlder'
    BY <2>1, <2>3, <2>4, JobEnds
  <2>6. QED
    BY <1>t, <1>i, <1>n, <2>1, <2>3, <2>5, VerdictStays, RunKeeps
<1>13. CASE Enroll!BeginStore
  <2>1. /\ job.ask = "poll" /\ job.answer = "ok" /\ storing' = "ack"
        /\ UNCHANGED <<ident, minted, ready, phase, step, job, nvs, app, broken>>
    BY <1>13 DEF Enroll!BeginStore
  <2>2. JobSound'
    BY <1>i, <1>n, <2>1 DEF JobSound, Enroll!NoJob, Enroll!None
  <2>3. KeyIsOlder'
    BY <1>i, <2>1 DEF KeyIsOlder
  <2>4. QED
    BY <1>t, <1>i, <2>1, <2>2, <2>3, VerdictStays, RunKeeps
<1>14. CASE Enroll!StoreNext
  <2>1. /\ storing \in {"ack", "save", "cert"} /\ storing' \in {"save", "cert", "key", "undo"}
        /\ \/ nvs' = nvs \/ nvs' = [nvs EXCEPT !.ack = TRUE]
           \/ nvs' = [nvs EXCEPT !.cert = app.serial]
        /\ UNCHANGED <<ident, minted, ready, phase, step, job, app, broken>>
    BY <1>14 DEF Enroll!StoreNext, Enroll!Stored, Enroll!After
  <2>2. /\ job.ask = "poll" /\ job.answer = "ok" /\ nvs.key # app.serial
    BY <1>i, <2>1 DEF JobSound, KeyIsOlder
  <2>3. /\ nvs' \in NvsType /\ nvs'.key = nvs.key
        /\ nvs'.cert = nvs.cert \/ nvs'.cert = app.serial
    BY <1>t, <2>1 DEF NvsType
  <2>4. JobSound'
    BY <1>i, <1>n, <2>1, <2>2 DEF JobSound, Enroll!NoJob, Enroll!None
  <2>5. KeyIsOlder'
    BY <1>i, <2>1, <2>3 DEF KeyIsOlder
  <2>6. Enroll!BrokenIsBroken'
    <3>1. CASE nvs'.cert = nvs.cert
      BY <1>i, <2>1, <2>3, <3>1, VerdictStays
    <3>2. CASE nvs'.cert = app.serial
      BY <2>2, <2>3, <3>2 DEF Enroll!BrokenIsBroken, Enroll!PairValid, Enroll!HasCert, Enroll!None
    <3>3. QED
      BY <2>3, <3>1, <3>2
  <2>7. QED
    BY <1>t, <2>1, <2>3, <2>4, <2>5, <2>6, RunKeeps
<1>15. CASE Enroll!StoreKey
  <2>1. /\ storing = "key" /\ UNCHANGED <<ident, minted, ready, phase, app>>
        /\ \/ /\ nvs' = [nvs EXCEPT !.key = app.serial] /\ broken' = FALSE /\ storing' = "no"
              /\ job' = Enroll!NoJob /\ Enroll!Advance("ok")
           \/ storing' = "undo" /\ UNCHANGED <<nvs, broken, job, step>>
    BY <1>15 DEF Enroll!StoreKey
  <2>2. job.ask = "poll" /\ job.answer = "ok" /\ step = "poll"
    BY <1>i, <2>1 DEF JobSound
  <2>3. CASE storing' = "undo" /\ UNCHANGED <<nvs, broken, job, step>>
    <3>1. JobSound' /\ KeyIsOlder'
      BY <1>i, <1>n, <2>1, <2>2, <2>3 DEF JobSound, KeyIsOlder, Enroll!NoJob, Enroll!None
    <3>2. QED
      BY <1>t, <1>i, <2>1, <2>3, <3>1, VerdictStays, RunKeeps
  <2>4. CASE /\ nvs' = [nvs EXCEPT !.key = app.serial] /\ broken' = FALSE /\ storing' = "no"
             /\ job' = Enroll!NoJob /\ Enroll!Advance("ok")
    <3>1. nvs' \in NvsType /\ nvs'.key = app.serial
      BY <1>t, <2>4 DEF NvsType
    <3>2. step' = "awaitMtls"
      BY <2>2, <2>4, AdvanceFacts
    <3>3. JobSound'
      BY <1>n, <2>4 DEF JobSound, Enroll!NoJob, Enroll!None
    <3>4. KeyIsOlder'
      BY <1>t, <1>i, <1>n, <2>1, <2>4, <3>1, <3>2 DEF KeyIsOlder
    <3>5. Enroll!BrokenIsBroken'
      BY <2>4 DEF Enroll!BrokenIsBroken
    <3>6. QED
      BY <1>t, <1>n, <2>1, <2>4, <3>1, <3>3, <3>4, <3>5, RunKeeps
  <2>5. QED
    BY <2>1, <2>3, <2>4
<1>16. CASE Enroll!UndoStore
  <2>1. /\ storing = "undo" /\ storing' = "no" /\ job' = Enroll!NoJob /\ Enroll!Advance("lost")
        /\ nvs' = nvs \/ nvs' = [nvs EXCEPT !.ack = FALSE]
        /\ UNCHANGED <<ident, minted, ready, phase, app, broken>>
    BY <1>16 DEF Enroll!UndoStore
  <2>2. nvs' \in NvsType /\ nvs'.cert = nvs.cert /\ nvs'.key = nvs.key
    BY <1>t, <2>1 DEF NvsType
  <2>3. job.ask = "poll"
    BY <1>i, <2>1 DEF JobSound
  <2>4. JobSound' /\ KeyIsOlder'
    BY <2>1, <2>2, <2>3, JobEnds
  <2>5. QED
    BY <1>t, <1>i, <1>n, <2>1, <2>2, <2>4, VerdictStays, RunKeeps
<1>17. CASE Enroll!FinishCheck
  <2>1. /\ job.ask = "status" /\ job' = Enroll!NoJob
        /\ \/ UNCHANGED <<nvs, broken>> \/ Enroll!Cleared \/ Enroll!ClearFailed
        /\ UNCHANGED <<ident, minted, ready, phase, step, storing, app>>
    BY <1>17 DEF Enroll!FinishCheck
  <2>2. nvs' \in NvsType /\ nvs'.key \in {nvs.key, 0} /\ Enroll!BrokenIsBroken'
    BY <1>t, <1>i, <2>1, ClearFacts, VerdictStays
  <2>3. storing = "no"
    BY <1>i, <2>1 DEF JobSound
  <2>4. JobSound'
    BY <1>n, <2>1, <2>3 DEF JobSound, Enroll!NoJob, Enroll!None
  <2>5. KeyIsOlder'
    BY <1>t, <2>1, <2>2, KeyReplaced
  <2>6. QED
    BY <1>t, <1>n, <2>1, <2>2, <2>4, <2>5, RunKeeps
<1>18. CASE Enroll!Claim
  <2>1. /\ app.serial < MaxSerial /\ app' = [app EXCEPT !.at = "claimed", !.serial = app.serial + 1]
        /\ UNCHANGED <<ident, minted, ready, phase, step, job, storing, nvs, broken>>
    BY <1>18 DEF Enroll!Claim
  <2>2. app.serial + 1 \in 0..MaxSerial /\ nvs.key # app.serial + 1
        /\ (nvs.key <= app.serial + 1 \/ nvs.key > MaxSerial) /\ app.serial + 1 >= 1
    BY <1>t, <1>i, <2>1, CertAssumption DEF KeyIsOlder
  <2>3. app' \in AppType /\ app'.serial = app.serial + 1
    BY <1>t, <2>1, <2>2 DEF AppType
  <2>4. JobSound'
    BY <1>i, <2>1 DEF JobSound, Enroll!NoJob, Enroll!None
  <2>5. KeyIsOlder'
    BY <2>1, <2>2, <2>3 DEF KeyIsOlder
  <2>6. QED
    BY <1>t, <1>i, <2>1, <2>3, <2>4, <2>5, VerdictStays, RunKeeps
<1>19. ASSUME Enroll!Prune \/ \E n \in Enroll!Issued : Enroll!Revoke(n)
       PROVE  CertInv'
  <2>1. /\ app' = [app EXCEPT !.at = "unknown"] \/ app' = app
        /\ UNCHANGED <<ident, minted, ready, phase, step, job, storing, nvs, broken>>
    BY <1>19, <1>t DEF Enroll!Prune, Enroll!Revoke, AppType
  <2>2. app' \in AppType /\ app'.serial = app.serial /\ (app'.at = "claimed" => app.at = "claimed")
    BY <1>t, <2>1 DEF AppType
  <2>3. JobSound'
    BY <1>i, <2>1 DEF JobSound, Enroll!NoJob, Enroll!None
  <2>4. KeyIsOlder'
    BY <1>i, <2>1, <2>2 DEF KeyIsOlder
  <2>5. QED
    BY <1>t, <1>i, <2>1, <2>2, <2>3, <2>4, VerdictStays, RunKeeps
<1>20. ASSUME NEW n \in Enroll!ByHand, NEW half \in {"cert", "key"}, Enroll!CertSet(half, n)
       PROVE  CertInv'
  <2>1. /\ nvs' = [nvs EXCEPT ![half] = n] /\ broken' = FALSE
        /\ UNCHANGED <<ident, minted, ready, phase, step, job, storing, app>>
    BY <1>20 DEF Enroll!CertSet
  <2>2. n \in Nat /\ n > MaxSerial
    BY CertAssumption DEF Enroll!ByHand
  <2>3. nvs' \in NvsType /\ (nvs'.key = nvs.key \/ nvs'.key = n)
    <3>1. CASE half = "cert"
      BY <1>t, <2>1, <2>2, <3>1 DEF NvsType
    <3>2. CASE half = "key"
      BY <1>t, <2>1, <2>2, <3>2 DEF NvsType
    <3>3. QED
      BY <3>1, <3>2
  <2>4. JobSound'
    BY <1>i, <2>1 DEF JobSound, Enroll!NoJob, Enroll!None
  <2>5. KeyIsOlder'
    BY <1>t, <2>1, <2>2, <2>3, KeyReplaced
  <2>6. Enroll!BrokenIsBroken'
    BY <2>1 DEF Enroll!BrokenIsBroken
  <2>7. QED
    BY <1>t, <2>1, <2>3, <2>4, <2>5, <2>6, RunKeeps
<1>21. CASE Enroll!CertApply
  <2>1. /\ broken' = ~Enroll!PairValid
        /\ UNCHANGED <<ident, minted, ready, phase, step, job, storing, nvs, app>>
    BY <1>21 DEF Enroll!CertApply
  <2>2. JobSound' /\ KeyIsOlder'
    BY <1>i, <2>1 DEF JobSound, KeyIsOlder, Enroll!NoJob, Enroll!None
  <2>3. Enroll!BrokenIsBroken'
    BY <2>1 DEF Enroll!BrokenIsBroken, Enroll!PairValid, Enroll!HasCert, Enroll!None
  <2>4. QED
    BY <1>t, <2>1, <2>2, <2>3, RunKeeps
<1>22. CASE Enroll!CertClear
  <2>1. /\ Enroll!Cleared \/ Enroll!ClearFailed
        /\ UNCHANGED <<ident, minted, ready, phase, step, job, storing, app>>
    BY <1>22 DEF Enroll!CertClear
  <2>2. nvs' \in NvsType /\ nvs'.key \in {nvs.key, 0} /\ Enroll!BrokenIsBroken'
    BY <2>1, ClearFacts
  <2>3. JobSound'
    BY <1>i, <2>1 DEF JobSound, Enroll!NoJob, Enroll!None
  <2>4. KeyIsOlder'
    BY <1>t, <2>1, <2>2, KeyReplaced
  <2>5. QED
    BY <1>t, <2>1, <2>2, <2>3, <2>4, RunKeeps
<1>23. CASE UNCHANGED Enroll!vars
  <2>1. UNCHANGED <<ident, minted, ready, phase, step, job, storing, nvs, app, broken>>
    BY <1>23 DEF Enroll!vars
  <2>2. JobSound' /\ KeyIsOlder'
    BY <1>i, <2>1 DEF JobSound, KeyIsOlder, Enroll!NoJob, Enroll!None
  <2>3. QED
    BY <1>t, <1>i, <2>1, <2>2, VerdictStays, RunKeeps
<1>24. QED
  BY <1>1, <1>2, <1>3, <1>4, <1>5, <1>6, <1>7, <1>8, <1>9, <1>10, <1>11, <1>12, <1>13, <1>14,
     <1>15, <1>16, <1>17, <1>18, <1>19, <1>20, <1>21, <1>22, <1>23
     DEF Enroll!Next, Enroll!Device, Enroll!Environment, Enroll!Operator

LEMMA CertInit == Enroll!Init => CertInv
<1> SUFFICES ASSUME Enroll!Init PROVE CertInv
  OBVIOUS
<1>1. /\ phase = "identity" /\ ident = Enroll!Blank /\ minted = 0 /\ ready = FALSE
      /\ step = "done" /\ job = Enroll!NoJob /\ storing = "no"
      /\ nvs = [cert |-> 0, key |-> 0, ack |-> FALSE] /\ broken = FALSE
      /\ app = [at |-> "unknown", serial |-> 0, sealed |-> FALSE]
  BY DEF Enroll!Init, Enroll!None
<1>2. 0 \in Nat /\ 0 \in 0..MaxSerial
  BY CertAssumption
<1>3. CertTyped
  BY <1>1, <1>2, EmptyJob DEF CertTyped, Enroll!Blank, Enroll!None, NvsType, AppType
<1>4. IdentitySound
  BY <1>1 DEF IdentitySound, Enroll!Loads, Enroll!Blank, Enroll!None
<1>5. JobSound
  BY <1>1, EmptyJob DEF JobSound
<1>6. KeyIsOlder
  BY <1>1, EmptyJob DEF KeyIsOlder
<1>7. Enroll!BrokenIsBroken
  BY <1>1 DEF Enroll!BrokenIsBroken
<1>8. QED
  BY <1>3, <1>4, <1>5, <1>6, <1>7 DEF CertInv

\* The scenes move an enrollment by its own steps only.
LEMMA SceneEnrolls == SceneSpec => Enroll!Spec
<1>1. SceneInit => Enroll!Init
  BY DEF SceneInit
<1>2. [SceneNext]_allVars => [Enroll!Next]_(Enroll!vars)
  <2> SUFFICES ASSUME [SceneNext]_allVars PROVE [Enroll!Next]_(Enroll!vars)
    OBVIOUS
  <2>1. CASE UNCHANGED certVars
    BY <2>1 DEF certVars, Enroll!vars, Enroll!identVars, Enroll!enrollVars, Enroll!storeVars,
                Enroll!linkVars, Enroll!appVars
  <2>2. CASE CertStep
    BY <2>2 DEF CertStep, Enroll!Next
  <2>3. QED
    BY <2>1, <2>2 DEF SceneNext, allVars
<1>3. QED
  BY <1>1, <1>2, PTL DEF SceneSpec, Enroll!Spec

\* What signs is the secret half of the key announced, and only a pair that
\* does not validate opens cert.clear to a password session, with an operator
\* pushing, applying and clearing certificates at every point of an enrollment.
\* For every number of certificates, lost answers, failed writes and power cuts.
THEOREM CertIsSound == SceneSpec => []CertSound
<1>1. CertInv => CertSound
  BY DEF CertInv, CertSound, IdentitySound, Enroll!IdentityWhole
<1>2. QED
  BY <1>1, CertInit, CertNext, SceneEnrolls, PTL DEF Enroll!Spec

-----------------------------------------------------------------------------
(* WebAdmin, for any tables t.                                                *)

LEMMA TableFacts ==
  ASSUME NEW t \in Tables
  PROVE  /\ t.rateSlots \in Nat /\ t.rateSlots >= 1 /\ t.tokens \in Nat /\ t.tokens >= 1
         /\ t.grants \in Nat /\ t.grants >= 1 /\ t.maxFails \in Nat /\ t.maxFails >= 1
         /\ t.lockout \in Nat /\ t.quiet \in Nat /\ t.lockout <= t.quiet
         /\ t.tokenTtl \in Nat /\ t.tokenTtl >= 1 /\ t.grantTtl \in Nat /\ t.grantTtl >= 1
         /\ t.maxTime \in Nat /\ t.maxTime >= 1
         /\ t.maxIssued \in Nat /\ t.maxGrants \in Nat /\ "none" \notin t.ips
BY WebAssumption

\* A set of numbers that is not empty has its smallest, so Lowest names one.
LEMMA SmallestExists ==
  ASSUME NEW S \in SUBSET Nat, S # {}
  PROVE  \E s \in S : \A r \in S : s <= r
<1>1. IsWellFoundedOn(OpToRel(<, Nat), Nat)
  BY NatLessThanWellFounded
<1>2. PICK s \in S : \A r \in S : ~(<<r, s>> \in OpToRel(<, Nat))
  BY <1>1, WFMin
<1>3. \A r \in S : ~(r < s)
  BY <1>2 DEF OpToRel
<1>4. QED
  BY <1>3

LEMMA LowestIn ==
  ASSUME NEW t \in Tables, NEW S \in SUBSET Nat, S # {}
  PROVE  Web(t)!Lowest(S) \in S /\ \A r \in S : Web(t)!Lowest(S) <= r
BY SmallestExists DEF Web!Lowest

\* The steps of the web server, by the part of the state they move.
LEMMA WebSteps ==
  ASSUME NEW t \in Tables, [Web(t)!Next]_(Web(t)!vars)
  PROVE  \/ UNCHANGED webVars
         \/ \E ip \in t.ips, o \in Web(t)!Offers : Web(t)!AuthCheck(ip, o)
         \/ \E ip \in t.ips, o \in Web(t)!Offers : Web(t)!Login(ip, o)
         \/ \E ip \in t.ips, o \in Web(t)!Offers : Web(t)!WsToken(ip, o)
         \/ \E ip \in t.ips : Web(t)!WsConnect(ip)
         \/ \E c \in {"ok", "default", "toolong"} : Web(t)!SetCredential(c)
         \/ Web(t)!Tick
<1>1. CASE Web(t)!Next
  BY <1>1, Zenon DEF Web!Next
<1>2. CASE UNCHANGED Web(t)!vars
  BY <1>2 DEF Web!vars, Web!rateVars, Web!tokenVars, Web!grantVars, webVars
<1>3. QED
  BY <1>1, <1>2

EntryType(t) == [ip : t.ips \cup {"none"}, fails : 0..t.maxFails,
                 until : 0..(t.maxTime + t.lockout), last : 0..t.maxTime]

RateTyped(t) ==
  /\ now \in 0..t.maxTime
  /\ rate \in [1..t.rateSlots -> EntryType(t)]
  /\ over \in EntryType(t) /\ over.ip = "none"
  /\ lockEnd \in [t.ips -> 0..(t.maxTime + t.lockout)]

\* A lockout is held by a slot of its address until it ends.
LockedIn(t, s, ip) ==
  /\ rate[s].ip = ip /\ rate[s].fails >= t.maxFails
  /\ lockEnd[ip] <= rate[s].until /\ rate[s].until <= rate[s].last + t.quiet

RateSound(t) ==
  /\ RateTyped(t)
  /\ \A s \in 1..t.rateSlots : rate[s].ip = "none" => rate[s].fails = 0
  /\ \A ip \in t.ips : now < lockEnd[ip] => \E s \in 1..t.rateSlots : LockedIn(t, s, ip)

LEMMA AgeType ==
  ASSUME NEW t \in Tables, NEW e \in EntryType(t), now \in 0..t.maxTime
  PROVE  /\ Web(t)!Age(e) \in EntryType(t)
         /\ Web(t)!Age(e).ip \in {e.ip, "none"}
         /\ (e.ip = "none" => e.fails = 0) =>
              (Web(t)!Age(e).ip = "none" => Web(t)!Age(e).fails = 0)
<1>1. Web(t)!Empty \in EntryType(t) /\ Web(t)!Empty.ip = "none" /\ Web(t)!Empty.fails = 0
  BY TableFacts DEF Web!Empty, Web!NoIp, EntryType
<1>2. [e EXCEPT !.fails = t.maxFails - 1, !.until = 0] \in EntryType(t)
  <2>1. t.maxFails - 1 \in 0..t.maxFails /\ 0 \in 0..(t.maxTime + t.lockout)
    BY TableFacts
  <2>2. QED
    BY <2>1 DEF EntryType
<1>3. [e EXCEPT !.fails = t.maxFails - 1, !.until = 0].ip = e.ip
  BY DEF EntryType
<1>4. \/ Web(t)!Age(e) = e
      \/ Web(t)!Age(e) = Web(t)!Empty
      \/ Web(t)!Age(e) = [e EXCEPT !.fails = t.maxFails - 1, !.until = 0] /\ e.fails # 0
  BY DEF Web!Age
<1>5. QED
  BY <1>1, <1>2, <1>3, <1>4

LEMMA CountedType ==
  ASSUME NEW t \in Tables, NEW e \in EntryType(t), now \in 0..t.maxTime
  PROVE  /\ Web(t)!Counted(e) \in EntryType(t) /\ Web(t)!Counted(e).ip = e.ip
         /\ e.fails < t.maxFails /\ Web(t)!Counted(e).fails >= t.maxFails =>
              /\ Web(t)!Counted(e).until = now + t.lockout
              /\ Web(t)!Counted(e).last = now
<1>1. CASE e.fails >= t.maxFails
  <2>1. e.fails \in Nat /\ t.maxFails \in Nat
    BY TableFacts DEF EntryType
  <2>2. ~(e.fails < t.maxFails)
    BY <1>1, <2>1
  <2>3. QED
    BY <1>1, <2>2 DEF Web!Counted
<1>2. CASE ~(e.fails >= t.maxFails)
  <2> DEFINE u == IF e.fails + 1 >= t.maxFails THEN now + t.lockout ELSE e.until
  <2>1. e.fails \in 0..t.maxFails /\ t.maxFails \in Nat
    BY TableFacts DEF EntryType
  <2>2. e.fails + 1 \in 0..t.maxFails
    BY <1>2, <2>1
  <2>3. now + t.lockout \in 0..(t.maxTime + t.lockout)
    BY TableFacts
  <2>4. u \in 0..(t.maxTime + t.lockout)
    BY <2>3 DEF EntryType
  <2>5. Web(t)!Counted(e) = [e EXCEPT !.last = now, !.fails = e.fails + 1, !.until = u]
    BY <1>2 DEF Web!Counted, EntryType
  <2>6. e.fails + 1 >= t.maxFails => u = now + t.lockout
    OBVIOUS
  <2> HIDE DEF u
  <2>7. QED
    BY <2>2, <2>4, <2>5, <2>6 DEF EntryType
<1>3. QED
  BY <1>1, <1>2

\* A slot that holds a lockout is not changed by ageing.
LEMMA LockedStays ==
  ASSUME NEW t \in Tables, RateTyped(t), NEW ip \in t.ips, now < lockEnd[ip],
         NEW s \in 1..t.rateSlots, LockedIn(t, s, ip)
  PROVE  Web(t)!Age(rate[s]) = rate[s] /\ s \in Web(t)!Held(ip)
<1>1. /\ rate[s] \in EntryType(t) /\ lockEnd[ip] \in Nat /\ now \in Nat
      /\ t.maxFails \in Nat /\ t.maxFails >= 1 /\ t.quiet \in Nat
  <2>1. lockEnd[ip] \in 0..(t.maxTime + t.lockout) /\ now \in 0..t.maxTime
        /\ rate[s] \in EntryType(t)
    BY DEF RateTyped
  <2>2. QED
    BY <2>1, TableFacts
<1>2. /\ rate[s].fails \in Nat /\ rate[s].until \in Nat /\ rate[s].last \in Nat
  BY <1>1, TableFacts DEF EntryType
<1>3. /\ ~(rate[s].fails = 0) /\ ~(now >= rate[s].last + t.quiet)
      /\ ~(now >= rate[s].until)
  BY <1>1, <1>2 DEF LockedIn
<1>4. Web(t)!Age(rate[s]) = rate[s]
  BY <1>3 DEF Web!Age
<1>5. QED
  BY <1>4 DEF Web!Held, Web!Slots, LockedIn

LEMMA LockRefuses ==
  ASSUME NEW t \in Tables, RateSound(t), NEW ip \in t.ips, now < lockEnd[ip]
  PROVE  ~Web(t)!Allow(ip)
<1>1. PICK s \in 1..t.rateSlots : LockedIn(t, s, ip)
  BY DEF RateSound
<1>2. Web(t)!Age(rate[s]) = rate[s] /\ s \in Web(t)!Held(ip)
  BY <1>1, LockedStays DEF RateSound
<1>3. rate[s].fails \in Nat /\ t.maxFails \in Nat
  BY TableFacts DEF RateSound, RateTyped, EntryType
<1>4. QED
  BY <1>1, <1>2, <1>3 DEF Web!Allow, LockedIn

\* A counted guess: on a slot of the address or a free one, never another's.
LEMMA RateFailKeeps ==
  ASSUME NEW t \in Tables, RateSound(t), NEW ip \in t.ips, Web(t)!Allow(ip),
         Web(t)!RateFail(ip), now' = now
  PROVE  RateSound(t)'
<1>1. ~(now < lockEnd[ip])
  BY LockRefuses
<1>t. /\ RateTyped(t) /\ now \in 0..t.maxTime
      /\ rate \in [1..t.rateSlots -> EntryType(t)] /\ over \in EntryType(t)
      /\ \A s \in 1..t.rateSlots : Web(t)!Age(rate[s]) \in EntryType(t)
      /\ lockEnd \in [t.ips -> 0..(t.maxTime + t.lockout)]
  BY AgeType DEF RateSound, RateTyped
<1>2. CASE Web(t)!Held(ip) \cup Web(t)!Free = {}
  <2>1. over' = Web(t)!Counted(Web(t)!Age(over)) /\ UNCHANGED <<rate, lockEnd>>
    BY <1>2 DEF Web!RateFail
  <2>2. over' \in EntryType(t) /\ over'.ip = "none"
    BY <1>t, <2>1, AgeType, CountedType DEF RateSound, RateTyped
  <2>3. QED
    BY <2>1, <2>2 DEF RateSound, RateTyped, LockedIn
<1>3. CASE ~(Web(t)!Held(ip) \cup Web(t)!Free = {})
  <2> DEFINE S == IF Web(t)!Held(ip) # {} THEN Web(t)!Held(ip) ELSE Web(t)!Free
             s == Web(t)!Lowest(S)
             a == Web(t)!Age(rate[s])
             b == [a EXCEPT !.ip = ip]
             e == Web(t)!Counted(b)
  <2>1. /\ rate' = [rate EXCEPT ![s] = e]
        /\ lockEnd' = [lockEnd EXCEPT ![ip] = IF e.fails >= t.maxFails THEN e.until ELSE @]
        /\ over' = over
    BY <1>3 DEF Web!RateFail
  <2>2. S # {} /\ S \subseteq 1..t.rateSlots
    BY <1>3 DEF Web!Held, Web!Free, Web!Slots
  <2>3. s \in S /\ s \in 1..t.rateSlots
    <3>1. S \in SUBSET Nat
      BY <2>2
    <3>2. s \in S
      BY <3>1, <2>2, LowestIn
    <3>3. QED
      BY <3>2, <2>2
  <2>4. a.ip \in {ip, "none"} /\ a.fails < t.maxFails
    <3>1. CASE Web(t)!Held(ip) # {}
      BY <3>1, <2>3 DEF Web!Allow, Web!Held
    <3>2. CASE Web(t)!Held(ip) = {}
      <4>1. a.ip = "none"
        BY <3>2, <2>3 DEF Web!Free, Web!NoIp
      <4>2. a.fails = 0
        BY <4>1, <2>3, <1>t, AgeType DEF RateSound
      <4>3. QED
        BY <4>1, <4>2, TableFacts
    <3>3. QED
      BY <3>1, <3>2
  <2>5. b \in EntryType(t) /\ b.ip = ip /\ b.fails < t.maxFails
    BY <1>t, <2>3, <2>4 DEF EntryType
  <2> HIDE DEF S, a, b, s
  <2>6. /\ e \in EntryType(t) /\ e.ip = ip
        /\ e.fails >= t.maxFails => e.until = now + t.lockout /\ e.last = now
    BY <1>t, <2>5, CountedType
  <2>7. s \in S /\ (S = Web(t)!Held(ip) \/ S = Web(t)!Free)
    BY <2>3 DEF S
  <2> HIDE DEF e
  <2>8. lockEnd' \in [t.ips -> 0..(t.maxTime + t.lockout)]
    BY <1>t, <2>1, <2>6 DEF EntryType
  <2>9. RateTyped(t)'
    BY <1>t, <2>1, <2>3, <2>6, <2>8 DEF RateSound, RateTyped, EntryType
  <2>10. \A r \in 1..t.rateSlots : rate'[r].ip = "none" => rate'[r].fails = 0
    BY <1>t, <2>1, <2>3, <2>6, TableFacts DEF RateSound
  <2>11. ASSUME NEW q \in t.ips, now < lockEnd'[q]
         PROVE  \E r \in 1..t.rateSlots : LockedIn(t, r, q)'
    <3>1. CASE q = ip
      <4>1. e.fails >= t.maxFails /\ lockEnd'[ip] = e.until
        BY <1>1, <1>t, <2>1, <2>11, <3>1
      <4>2. rate'[s] = e
        BY <1>t, <2>1, <2>3
      <4>3. /\ now \in Nat /\ t.lockout \in Nat /\ t.quiet \in Nat
            /\ t.lockout <= t.quiet /\ e.until \in Nat
        BY <1>t, <4>1, <2>6, TableFacts
      <4>4. e.until <= e.last + t.quiet /\ lockEnd'[ip] <= e.until
        BY <4>1, <4>3, <2>6
      <4>5. PICK r \in 1..t.rateSlots : r = s
        BY <2>3
      <4>6. LockedIn(t, r, q)'
        BY <3>1, <4>1, <4>2, <4>4, <4>5, <2>6 DEF LockedIn
      <4>7. QED
        BY <4>6
    <3>2. CASE q # ip
      <4>1. lockEnd'[q] = lockEnd[q]
        BY <1>t, <2>1, <3>2
      <4>2. PICK r \in 1..t.rateSlots : LockedIn(t, r, q)
        BY <4>1, <2>11 DEF RateSound
      <4>3. Web(t)!Age(rate[r]) = rate[r] /\ rate[r].ip = q
        BY <1>t, <4>1, <4>2, <2>11, LockedStays DEF LockedIn
      <4>4. r \notin Web(t)!Held(ip) /\ r \notin Web(t)!Free
        BY <4>3, <3>2, TableFacts DEF Web!Held, Web!Free, Web!NoIp
      <4>5. r # s
        BY <4>4, <2>7
      <4>6. rate'[r] = rate[r]
        BY <1>t, <2>1, <4>5
      <4>7. LockedIn(t, r, q)'
        BY <4>1, <4>2, <4>6 DEF LockedIn
      <4>8. QED
        BY <4>7
    <3>3. QED
      BY <3>1, <3>2
  <2>12. QED
    BY <2>9, <2>10, <2>11 DEF RateSound
<1>4. QED
  BY <1>2, <1>3

\* A success forgets its own address, which is not locked out.
LEMMA RateResetKeeps ==
  ASSUME NEW t \in Tables, RateSound(t), NEW ip \in t.ips, Web(t)!Allow(ip),
         Web(t)!RateReset(ip), now' = now
  PROVE  RateSound(t)'
<1>1. ~(now < lockEnd[ip])
  BY LockRefuses
<1>2. Web(t)!Empty \in EntryType(t) /\ Web(t)!Empty.fails = 0
  BY TableFacts DEF Web!Empty, Web!NoIp, EntryType
<1>3. /\ rate' = [s \in 1..t.rateSlots |-> IF rate[s].ip = ip THEN Web(t)!Empty ELSE rate[s]]
      /\ UNCHANGED <<over, lockEnd>>
  BY DEF Web!RateReset, Web!Slots
<1>4. RateTyped(t)'
  BY <1>2, <1>3 DEF RateSound, RateTyped, EntryType
<1>5. \A r \in 1..t.rateSlots : rate'[r].ip = "none" => rate'[r].fails = 0
  BY <1>2, <1>3 DEF RateSound
<1>6. ASSUME NEW q \in t.ips, now < lockEnd'[q]
      PROVE  \E r \in 1..t.rateSlots : LockedIn(t, r, q)'
  <2>1. q # ip
    BY <1>1, <1>3, <1>6
  <2>2. PICK r \in 1..t.rateSlots : LockedIn(t, r, q)
    BY <1>3, <1>6 DEF RateSound
  <2>3. rate'[r] = rate[r]
    BY <1>3, <2>1, <2>2 DEF LockedIn
  <2>4. LockedIn(t, r, q)'
    BY <1>3, <2>2, <2>3 DEF LockedIn
  <2>5. QED
    BY <2>4
<1>7. QED
  BY <1>4, <1>5, <1>6 DEF RateSound

LEMMA RateNext ==
  ASSUME NEW t \in Tables, RateSound(t), [Web(t)!Next]_(Web(t)!vars)
  PROVE  RateSound(t)'
<1>1. CASE \E ip \in t.ips, o \in Web(t)!Offers : Web(t)!AuthCheck(ip, o)
  <2>1. PICK ip \in t.ips, o \in Web(t)!Offers : Web(t)!AuthCheck(ip, o)
    BY <1>1
  <2>2. Web(t)!Allow(ip) /\ now' = now /\ (Web(t)!RateReset(ip) \/ Web(t)!RateFail(ip))
    BY <2>1 DEF Web!AuthCheck
  <2>3. QED
    BY <2>2, RateResetKeeps, RateFailKeeps
<1>2. CASE \E ip \in t.ips, o \in Web(t)!Offers : Web(t)!Login(ip, o)
  <2>1. PICK ip \in t.ips, o \in Web(t)!Offers : Web(t)!Login(ip, o)
    BY <1>2
  <2>2. Web(t)!Allow(ip) /\ now' = now /\ Web(t)!RateReset(ip)
    BY <2>1 DEF Web!Login
  <2>3. QED
    BY <2>2, RateResetKeeps
<1>3. CASE UNCHANGED <<now, rate, over, lockEnd>>
  BY <1>3 DEF RateSound, RateTyped, LockedIn
<1>4. CASE Web(t)!Tick
  <2>1. /\ now' = now + 1 /\ now < t.maxTime /\ UNCHANGED <<rate, over>>
        /\ lockEnd' = [ip \in t.ips |-> IF now' < lockEnd[ip] THEN lockEnd[ip] ELSE 0]
    BY <1>4 DEF Web!Tick
  <2>2. now \in 0..t.maxTime /\ now' \in 0..t.maxTime
    BY <2>1, TableFacts DEF RateSound, RateTyped
  <2>3. 0 \in 0..(t.maxTime + t.lockout)
    BY TableFacts
  <2>4. RateTyped(t)'
    BY <2>1, <2>2, <2>3 DEF RateSound, RateTyped, EntryType
  <2>5. ASSUME NEW q \in t.ips, now' < lockEnd'[q]
        PROVE  \E r \in 1..t.rateSlots : LockedIn(t, r, q)'
    <3>1. lockEnd'[q] = lockEnd[q]
      BY <2>1, <2>2, <2>5
    <3>2. lockEnd[q] \in Nat
      BY TableFacts DEF RateSound, RateTyped
    <3>3. now < lockEnd[q]
      BY <2>1, <2>2, <2>5, <3>1, <3>2
    <3>4. QED
      BY <2>1, <3>1, <3>3 DEF RateSound, LockedIn
  <2>6. QED
    BY <2>1, <2>4, <2>5 DEF RateSound
<1>5. CASE \/ UNCHANGED webVars
           \/ \E ip \in t.ips, o \in Web(t)!Offers : Web(t)!WsToken(ip, o)
           \/ \E ip \in t.ips : Web(t)!WsConnect(ip)
           \/ \E c \in {"ok", "default", "toolong"} : Web(t)!SetCredential(c)
  BY <1>3, <1>5 DEF webVars, Web!WsToken, Web!WsConnect, Web!SetCredential, Web!rateVars
<1>6. QED
  BY <1>1, <1>2, <1>4, <1>5, WebSteps

LEMMA RateInit == ASSUME NEW t \in Tables, Web(t)!Init PROVE RateSound(t)
<1>1. Web(t)!Empty \in EntryType(t) /\ Web(t)!Empty.ip = "none" /\ Web(t)!Empty.fails = 0
  BY TableFacts DEF Web!Empty, Web!NoIp, EntryType
<1>2. /\ now = 1 /\ rate = [s \in 1..t.rateSlots |-> Web(t)!Empty] /\ over = Web(t)!Empty
      /\ lockEnd = [ip \in t.ips |-> 0]
  BY DEF Web!Init, Web!Slots
<1>3. 0 \in 0..(t.maxTime + t.lockout) /\ 1 \in 0..t.maxTime
  BY TableFacts
<1>4. RateTyped(t)
  BY <1>1, <1>2, <1>3 DEF RateTyped
<1>5. QED
  BY <1>1, <1>2, <1>4 DEF RateSound

\* Tokens are numbered as they are issued, one a tick at most; a slot holds the
\* hour of its token, and the table the newest ones that have not expired.
TokenTyped(t) ==
  /\ now \in 0..t.maxTime /\ cred \in {"ok", "default", "toolong"}
  /\ tokens \in [1..t.tokens -> [id : 0..t.maxIssued, expiry : 0..(t.maxTime + t.tokenTtl)]]
  /\ issued \in Seq(0..t.maxTime) /\ Len(issued) <= t.maxIssued

TokenSound(t) ==
  /\ TokenTyped(t)
  /\ \A s \in 1..t.tokens :
       /\ tokens[s].id <= Len(issued)
       /\ tokens[s].expiry = IF tokens[s].id = 0 THEN 0 ELSE issued[tokens[s].id] + t.tokenTtl
  /\ \A r, s \in 1..t.tokens : r # s /\ tokens[r].id # 0 => tokens[r].id # tokens[s].id
  /\ \A i \in 1..Len(issued) : issued[i] <= now
  /\ \A i, j \in 1..Len(issued) : i < j => issued[i] < issued[j]
  /\ \A id \in 1..Len(issued) :
       id > Len(issued) - t.tokens /\ now < issued[id] + t.tokenTtl =>
         \E s \in 1..t.tokens : tokens[s].id = id

LEMMA IssuedIs ==
  ASSUME NEW t \in Tables, TokenSound(t)
  PROVE  /\ Len(issued) \in Nat
         /\ \A i \in 1..Len(issued) : issued[i] \in 0..t.maxTime /\ issued[i] \in Nat
<1>1. issued \in Seq(0..t.maxTime)
  BY DEF TokenSound, TokenTyped
<1>2. \A i \in 1..Len(issued) : issued[i] \in 0..t.maxTime
  BY <1>1, ElementOfSeq
<1>3. QED
  BY <1>1, <1>2, TableFacts

LEMMA TokenSlotIs ==
  ASSUME NEW t \in Tables, TokenSound(t)
  PROVE  /\ Web(t)!TokenSlot \in 1..t.tokens
         /\ Web(t)!Active(tokens[Web(t)!TokenSlot].expiry) =>
              \A r \in 1..t.tokens :
                /\ Web(t)!Active(tokens[r].expiry)
                /\ tokens[Web(t)!TokenSlot].expiry <= tokens[r].expiry
<1> DEFINE dead == {s \in 1..t.tokens : ~Web(t)!Active(tokens[s].expiry)}
           soonest == {s \in 1..t.tokens :
                         \A r \in 1..t.tokens : tokens[s].expiry <= tokens[r].expiry}
<1>1. Web(t)!TokenSlot = Web(t)!Lowest(IF dead # {} THEN dead ELSE soonest)
  BY DEF Web!TokenSlot
<1>2. dead \in SUBSET Nat /\ soonest \in SUBSET Nat
  OBVIOUS
<1>3. soonest # {}
  <2> DEFINE E == {tokens[s].expiry : s \in 1..t.tokens}
  <2>1. E \in SUBSET Nat
    <3>1. \A s \in 1..t.tokens : tokens[s].expiry \in 0..(t.maxTime + t.tokenTtl)
      BY DEF TokenSound, TokenTyped
    <3>2. QED
      BY <3>1
  <2>2. 1 \in 1..t.tokens
    BY TableFacts
  <2>3. E # {}
    BY <2>2
  <2>4. PICK e \in E : \A d \in E : e <= d
    BY <2>1, <2>3, SmallestExists
  <2>5. QED
    BY <2>4
<1>4. CASE dead # {}
  <2>1. Web(t)!TokenSlot \in dead
    BY <1>1, <1>2, <1>4, LowestIn
  <2>2. QED
    BY <2>1
<1>5. CASE dead = {}
  <2>1. Web(t)!TokenSlot \in soonest
    BY <1>1, <1>2, <1>3, <1>5, LowestIn
  <2>2. QED
    BY <1>5, <2>1
<1>6. QED
  BY <1>4, <1>5

\* When every slot is live, the one that expires soonest holds a token with at
\* least as many newer ones as there are other slots.
LEMMA SoonestIsOldest ==
  ASSUME NEW t \in Tables, TokenSound(t), NEW s \in 1..t.tokens,
         \A r \in 1..t.tokens : /\ Web(t)!Active(tokens[r].expiry)
                                /\ tokens[s].expiry <= tokens[r].expiry
  PROVE  tokens[s].id + t.tokens <= Len(issued) + 1
<1> DEFINE n == Len(issued)
           first == tokens[s].id
           f == [r \in 1..t.tokens |-> tokens[r].id]
<1>1. n \in Nat /\ t.tokens \in Nat /\ t.tokens >= 1 /\ t.tokenTtl \in Nat
  BY TableFacts DEF TokenSound, TokenTyped
<1>2. ASSUME NEW r \in 1..t.tokens
      PROVE  /\ tokens[r].id \in 1..n /\ issued[tokens[r].id] \in Nat
             /\ tokens[r].expiry = issued[tokens[r].id] + t.tokenTtl
  <2>1. tokens[r].expiry # 0
    BY DEF Web!Active
  <2>2. tokens[r].id # 0 /\ tokens[r].id \in Nat /\ tokens[r].id <= n
    BY <2>1 DEF TokenSound, TokenTyped
  <2>3. tokens[r].id \in 1..n
    BY <1>1, <2>2
  <2>4. issued[tokens[r].id] \in Nat
    BY <2>3, IssuedIs
  <2>5. QED
    BY <2>2, <2>3, <2>4 DEF TokenSound
<1>3. ASSUME NEW r \in 1..t.tokens PROVE f[r] \in first..n
  <2>1. ~(tokens[r].id < first)
    <3> SUFFICES ASSUME tokens[r].id < first PROVE FALSE
      OBVIOUS
    <3>1. issued[tokens[r].id] < issued[first]
      BY <1>2 DEF TokenSound
    <3>2. QED
      BY <1>1, <1>2, <3>1
  <2>2. QED
    BY <1>1, <1>2, <2>1
<1>4. \A r, q \in 1..t.tokens : f[r] = f[q] => r = q
  BY <1>2 DEF TokenSound
<1>5. f \in Injection(1..t.tokens, first..n)
  BY <1>3, <1>4 DEF Injection, IsInjective
<1>6. first \in 1..n
  BY <1>2
<1> HIDE DEF f, first, n
<1>7. Cardinality(1..t.tokens) <= Cardinality(first..n)
  <2>1. IsFiniteSet(first..n)
    BY <1>1, <1>6, FS_Interval
  <2>2. QED
    BY <1>5, <2>1, FS_Injection
<1>8. Cardinality(1..t.tokens) = t.tokens
  <2>1. 1 \in Int /\ t.tokens \in Int /\ ~(1 > t.tokens) /\ t.tokens - 1 + 1 = t.tokens
    BY <1>1
  <2>2. QED
    BY <2>1, FS_Interval
<1>9. Cardinality(first..n) = n - first + 1
  BY <1>1, <1>6, FS_Interval
<1>10. first + t.tokens <= n + 1
  BY <1>1, <1>6, <1>7, <1>8, <1>9
<1>11. QED
  BY <1>10 DEF first, n

LEMMA LoginKeeps ==
  ASSUME NEW t \in Tables, TokenSound(t), NEW ip, NEW o, Web(t)!Login(ip, o)
  PROVE  TokenSound(t)'
<1> DEFINE n == Len(issued)
<1>1. PICK s \in 1..t.tokens : s = Web(t)!TokenSlot
  BY TokenSlotIs
<1>2. /\ tokens' = [tokens EXCEPT ![s] = [id |-> n + 1, expiry |-> now + t.tokenTtl]]
      /\ issued' = Append(issued, now)
      /\ n < t.maxIssued /\ (issued # <<>> => issued[n] < now)
      /\ UNCHANGED <<now, cred>>
  BY <1>1 DEF Web!Login, Web!CreateToken
<1>t. /\ issued \in Seq(0..t.maxTime) /\ n \in Nat /\ now \in 0..t.maxTime
      /\ t.maxIssued \in Nat /\ t.tokenTtl \in Nat /\ t.tokenTtl >= 1 /\ t.maxTime \in Nat
      /\ t.tokens \in Nat
      /\ tokens \in [1..t.tokens -> [id : 0..t.maxIssued, expiry : 0..(t.maxTime + t.tokenTtl)]]
  BY TableFacts DEF TokenSound, TokenTyped
<1>3. /\ issued' \in Seq(0..t.maxTime) /\ Len(issued') = n + 1 /\ issued'[n + 1] = now
      /\ \A i \in 1..n : issued'[i] = issued[i]
  BY <1>2, <1>t
<1>4. \A i \in 1..n : issued[i] \in 0..t.maxTime /\ issued[i] < now
  <2> SUFFICES ASSUME NEW i \in 1..n PROVE issued[i] \in 0..t.maxTime /\ issued[i] < now
    OBVIOUS
  <2>1. issued[i] \in 0..t.maxTime /\ n \in 1..n /\ issued[n] \in 0..t.maxTime
    BY <1>t
  <2>2. issued # <<>>
    BY <1>t
  <2>3. i = n \/ issued[i] < issued[n]
    BY <1>t, <2>1 DEF TokenSound
  <2>4. QED
    BY <1>2, <1>t, <2>1, <2>2, <2>3
<1>5. /\ tokens'[s].id = n + 1 /\ tokens'[s].expiry = now + t.tokenTtl
      /\ \A r \in 1..t.tokens : r # s => tokens'[r] = tokens[r]
  BY <1>2, <1>t
<1>6. TokenTyped(t)'
  <2>1. n + 1 \in 0..t.maxIssued /\ now + t.tokenTtl \in 0..(t.maxTime + t.tokenTtl)
    BY <1>2, <1>t
  <2>2. [id |-> n + 1, expiry |-> now + t.tokenTtl]
          \in [id : 0..t.maxIssued, expiry : 0..(t.maxTime + t.tokenTtl)]
    BY <2>1
  <2> HIDE DEF n
  <2>3. Len(issued') <= t.maxIssued
    BY <1>2, <1>3, <1>t
  <2>4. QED
    BY <1>2, <1>3, <1>t, <2>2, <2>3 DEF TokenSound, TokenTyped
<1>7. \A r \in 1..t.tokens : tokens[r].id \in 0..n
  <2> SUFFICES ASSUME NEW r \in 1..t.tokens PROVE tokens[r].id \in 0..n
    OBVIOUS
  <2>1. tokens[r].id \in 0..t.maxIssued /\ tokens[r].id <= n
    BY <1>t DEF TokenSound
  <2>2. QED
    BY <1>t, <2>1
<1>8. ASSUME NEW r \in 1..t.tokens
      PROVE  /\ tokens'[r].id <= Len(issued')
             /\ tokens'[r].expiry = IF tokens'[r].id = 0 THEN 0
                                    ELSE issued'[tokens'[r].id] + t.tokenTtl
  <2>1. CASE r = s
    BY <1>3, <1>5, <1>t, <2>1
  <2>2. CASE r # s
    <3>1. tokens'[r] = tokens[r] /\ tokens[r].id \in 0..n
      BY <1>5, <1>7, <2>2
    <3>2. tokens[r].expiry = IF tokens[r].id = 0 THEN 0 ELSE issued[tokens[r].id] + t.tokenTtl
      BY DEF TokenSound
    <3>3. tokens[r].id # 0 => issued'[tokens[r].id] = issued[tokens[r].id]
      BY <1>3, <3>1
    <3>4. QED
      BY <1>3, <1>t, <3>1, <3>2, <3>3
  <2>3. QED
    BY <2>1, <2>2
<1>9. ASSUME NEW r \in 1..t.tokens, NEW q \in 1..t.tokens, r # q, tokens'[r].id # 0
      PROVE  tokens'[r].id # tokens'[q].id
  <2>1. CASE r = s \/ q = s
    BY <1>5, <1>7, <1>9, <1>t, <2>1
  <2>2. CASE r # s /\ q # s
    BY <1>5, <1>9, <2>2 DEF TokenSound
  <2>3. QED
    BY <2>1, <2>2
<1>10. \A i \in 1..Len(issued') : issued'[i] <= now'
  BY <1>2, <1>3, <1>4, <1>t
<1>11. \A i, j \in 1..Len(issued') : i < j => issued'[i] < issued'[j]
  <2> SUFFICES ASSUME NEW i \in 1..(n + 1), NEW j \in 1..(n + 1), i < j
               PROVE  issued'[i] < issued'[j]
    BY <1>3
  <2>1. i \in 1..n
    BY <1>t
  <2>2. CASE j = n + 1
    BY <1>3, <1>4, <2>1, <2>2
  <2>3. CASE j # n + 1
    <3>1. j \in 1..n
      BY <1>t, <2>3
    <3>2. QED
      BY <1>3, <2>1, <3>1 DEF TokenSound
  <2>4. QED
    BY <2>2, <2>3
<1>12. ASSUME NEW id \in 1..Len(issued'), id > Len(issued') - t.tokens,
              now' < issued'[id] + t.tokenTtl
       PROVE  \E r \in 1..t.tokens : tokens'[r].id = id
  <2>1. CASE id = n + 1
    BY <1>5, <2>1
  <2>2. CASE id # n + 1
    <3>1. id \in 1..n /\ id > n - t.tokens /\ id > (n + 1) - t.tokens
      <4>0. Len(issued') = n + 1
        BY <1>3
      <4>1. id \in 1..(n + 1) /\ id > (n + 1) - t.tokens
        BY <1>12, <4>0
      <4>2. n \in Nat /\ t.tokens \in Nat
        BY <1>t
      <4> HIDE DEF n
      <4>3. QED
        BY <2>2, <4>1, <4>2
    <3>2. now < issued[id] + t.tokenTtl
      BY <1>2, <1>3, <1>12, <3>1
    <3>3. PICK r \in 1..t.tokens : tokens[r].id = id
      BY <3>1, <3>2 DEF TokenSound
    <3>4. r # s
      <4> SUFFICES ASSUME r = s PROVE FALSE
        OBVIOUS
      <4>1. tokens[s].id # 0 /\ tokens[s].expiry = issued[id] + t.tokenTtl
        BY <3>1, <3>3 DEF TokenSound
      <4>2. issued[id] \in Nat
        BY <1>4, <3>1
      <4>3. Web(t)!Active(tokens[s].expiry)
        BY <1>t, <3>2, <4>1, <4>2 DEF Web!Active
      <4>4. tokens[s].id + t.tokens <= n + 1
        BY <1>1, <4>3, TokenSlotIs, SoonestIsOldest
      <4>5. QED
        BY <1>t, <3>1, <3>3, <4>4
    <3>5. QED
      BY <1>5, <3>3, <3>4
  <2>3. QED
    BY <2>1, <2>2
<1>13. QED
  BY <1>6, <1>8, <1>9, <1>10, <1>11, <1>12 DEF TokenSound

LEMMA TokenNext ==
  ASSUME NEW t \in Tables, TokenSound(t), [Web(t)!Next]_(Web(t)!vars)
  PROVE  TokenSound(t)'
<1>1. CASE \E ip \in t.ips, o \in Web(t)!Offers : Web(t)!Login(ip, o)
  BY <1>1, LoginKeeps
<1>2. CASE UNCHANGED <<now, tokens, issued>> /\ cred' \in {cred, "ok", "default", "toolong"}
  BY <1>2 DEF TokenSound, TokenTyped
<1>3. CASE Web(t)!Tick
  <2>1. now' = now + 1 /\ now < t.maxTime /\ UNCHANGED <<cred, tokens, issued>>
    BY <1>3 DEF Web!Tick, Web!tokenVars
  <2>2. now \in Nat /\ now' \in 0..t.maxTime
    BY <2>1, TableFacts DEF TokenSound, TokenTyped
  <2>3. \A i \in 1..Len(issued) : issued[i] \in Nat
    BY IssuedIs
  <2>4. \A i \in 1..Len(issued) : issued[i] <= now' /\ (now' < issued[i] + t.tokenTtl
                                                        => now < issued[i] + t.tokenTtl)
    BY <2>1, <2>2, <2>3, TableFacts DEF TokenSound
  <2>5. TokenTyped(t)'
    BY <2>1, <2>2 DEF TokenSound, TokenTyped
  <2>6. QED
    BY <2>1, <2>4, <2>5 DEF TokenSound
<1>4. CASE \/ UNCHANGED webVars
           \/ \E ip \in t.ips, o \in Web(t)!Offers : Web(t)!AuthCheck(ip, o)
           \/ \E ip \in t.ips, o \in Web(t)!Offers : Web(t)!WsToken(ip, o)
           \/ \E ip \in t.ips : Web(t)!WsConnect(ip)
           \/ \E c \in {"ok", "default", "toolong"} : Web(t)!SetCredential(c)
  BY <1>2, <1>4
     DEF webVars, Web!AuthCheck, Web!WsToken, Web!WsConnect, Web!SetCredential, Web!tokenVars
<1>5. QED
  BY <1>1, <1>3, <1>4, WebSteps

LEMMA TokenInit == ASSUME NEW t \in Tables, Web(t)!Init PROVE TokenSound(t)
<1>1. /\ now = 1 /\ cred = "ok" /\ issued = <<>>
      /\ tokens = [s \in 1..t.tokens |-> [id |-> 0, expiry |-> 0]]
  BY DEF Web!Init
<1>2. 0 \in 0..t.maxIssued /\ 0 \in 0..(t.maxTime + t.tokenTtl) /\ 1 \in 0..t.maxTime
  BY TableFacts
<1>3. issued \in Seq(0..t.maxTime) /\ Len(issued) = 0 /\ 0 <= t.maxIssued
  BY <1>1, TableFacts
<1>4. TokenTyped(t)
  BY <1>1, <1>2, <1>3 DEF TokenTyped
<1>5. QED
  BY <1>1, <1>3, <1>4 DEF TokenSound

LEMMA TokensAreKept == ASSUME NEW t \in Tables, TokenSound(t) PROVE Web(t)!TokensKept
<1> SUFFICES ASSUME NEW id \in 1..Len(issued)
             PROVE  /\ Web(t)!Validates(id) => now < issued[id] + t.tokenTtl
                    /\ now < issued[id] + t.tokenTtl /\ id > Len(issued) - t.tokens
                         => Web(t)!Validates(id)
  BY DEF Web!TokensKept
<1>1. id # 0 /\ issued[id] + t.tokenTtl # 0
  <2>1. issued[id] \in Nat
    BY IssuedIs
  <2>2. QED
    BY <2>1, TableFacts
<1>2. \A s \in 1..t.tokens : tokens[s].id = id => tokens[s].expiry = issued[id] + t.tokenTtl
  BY <1>1 DEF TokenSound
<1>3. QED
  BY <1>1, <1>2 DEF TokenSound, Web!Validates, Web!Active

\* Every live slot of _wsAuth has a grant of its own to spend, no older than the
\* slot: whichever slot a terminal uses and whichever grant the record drops,
\* the others can be matched again.
Live(t) == {s \in 1..t.grants : Web(t)!Active(grants[s].expiry)}

Matches(t, m, alive, left, slots) ==
  /\ m \in [alive -> left]
  /\ \A r, s \in alive : r # s => m[r] # m[s]
  /\ \A s \in alive : m[s].ip = slots[s].ip /\ slots[s].expiry <= m[s].at + t.grantTtl

GrantTyped(t) ==
  /\ now \in 0..t.maxTime
  /\ grants \in [1..t.grants -> [ip : t.ips \cup {"none"}, expiry : 0..(t.maxTime + t.grantTtl)]]
  /\ unspent \subseteq [n : 1..t.maxGrants, ip : t.ips, at : 0..t.maxTime]
  /\ usurped \in BOOLEAN

GrantSound(t) ==
  /\ GrantTyped(t)
  /\ ~usurped
  /\ \E m : Matches(t, m, Live(t), unspent, grants)

LEMMA GrantSlotIs == ASSUME NEW t \in Tables PROVE Web(t)!GrantSlot \in 1..t.grants
<1> DEFINE dead == {s \in 1..t.grants : ~Web(t)!Active(grants[s].expiry)}
<1>1. Web(t)!GrantSlot = IF dead # {} THEN Web(t)!Lowest(dead) ELSE 1
  BY DEF Web!GrantSlot
<1>2. dead \in SUBSET Nat /\ 1 \in 1..t.grants
  BY TableFacts
<1>3. dead # {} => Web(t)!Lowest(dead) \in dead
  BY <1>2, LowestIn
<1>4. QED
  BY <1>1, <1>2, <1>3

LEMMA WsTokenKeeps ==
  ASSUME NEW t \in Tables, GrantSound(t), NEW ip \in t.ips, NEW o, Web(t)!WsToken(ip, o)
  PROVE  GrantSound(t)'
<1>1. PICK s \in 1..t.grants : s = Web(t)!GrantSlot
  BY GrantSlotIs
<1>2. PICK n : n = Web(t)!Lowest(Web(t)!Unnumbered(ip))
  OBVIOUS
<1>3. n \in Web(t)!Unnumbered(ip)
  <2>1. Web(t)!Unnumbered(ip) \in SUBSET Nat /\ Web(t)!Unnumbered(ip) # {}
    BY TableFacts DEF Web!WsToken, Web!Unnumbered
  <2>2. QED
    BY <1>2, <2>1, LowestIn
<1>4. PICK g : g = [n |-> n, ip |-> ip, at |-> now]
  OBVIOUS
<1>5. /\ grants' = [grants EXCEPT ![s] = [ip |-> ip, expiry |-> now + t.grantTtl]]
      /\ unspent' = unspent \cup {g} /\ UNCHANGED <<now, usurped>>
  BY <1>1, <1>2, <1>4 DEF Web!WsToken
<1>6. g \notin unspent /\ g \in [n : 1..t.maxGrants, ip : t.ips, at : 0..t.maxTime]
      /\ g.ip = ip /\ g.at = now
  BY <1>3, <1>4 DEF Web!Unnumbered, GrantSound, GrantTyped
<1>t. /\ now \in 0..t.maxTime /\ t.grantTtl \in Nat /\ t.maxTime \in Nat
      /\ grants \in [1..t.grants -> [ip : t.ips \cup {"none"}, expiry : 0..(t.maxTime + t.grantTtl)]]
  BY TableFacts DEF GrantSound, GrantTyped
<1>7. GrantTyped(t)'
  <2>1. now + t.grantTtl \in 0..(t.maxTime + t.grantTtl)
    BY <1>t
  <2>2. QED
    BY <1>5, <1>6, <1>t, <2>1 DEF GrantSound, GrantTyped
<1>8. PICK m : Matches(t, m, Live(t), unspent, grants)
  BY DEF GrantSound
<1>9. PICK alive : alive = Live(t)'
  OBVIOUS
<1>10. PICK k : k = [r \in alive |-> IF r = s THEN g ELSE m[r]]
  OBVIOUS
<1>11. \A r \in alive : r \in 1..t.grants /\ (r # s => r \in Live(t) /\ grants'[r] = grants[r])
  BY <1>5, <1>9, <1>t DEF Live, Web!Active
<1>12. grants'[s].ip = ip /\ grants'[s].expiry = now + t.grantTtl
  BY <1>5, <1>t
<1>13. Matches(t, k, Live(t)', unspent', grants')
  <2>1. \A r \in alive : r # s => k[r] = m[r] /\ m[r] \in unspent
    BY <1>8, <1>10, <1>11 DEF Matches
  <2>2. \A r \in alive : r = s => k[r] = g
    BY <1>10
  <2>3. k \in [alive -> unspent']
    BY <1>5, <1>10, <2>1, <2>2
  <2>4. \A r, q \in alive : r # q => k[r] # k[q]
    BY <1>6, <1>8, <1>11, <2>1, <2>2 DEF Matches
  <2>5. \A r \in alive : k[r].ip = grants'[r].ip /\ grants'[r].expiry <= k[r].at + t.grantTtl
    <3> SUFFICES ASSUME NEW r \in alive
                 PROVE  k[r].ip = grants'[r].ip /\ grants'[r].expiry <= k[r].at + t.grantTtl
      OBVIOUS
    <3>1. CASE r = s
      BY <1>6, <1>12, <1>t, <2>2, <3>1
    <3>2. CASE r # s
      BY <1>8, <1>11, <2>1, <3>2 DEF Matches
    <3>3. QED
      BY <3>1, <3>2
  <2>6. QED
    BY <1>9, <2>3, <2>4, <2>5 DEF Matches
<1>14. QED
  BY <1>5, <1>7, <1>13 DEF GrantSound

LEMMA WsConnectKeeps ==
  ASSUME NEW t \in Tables, GrantSound(t), NEW ip \in t.ips, Web(t)!WsConnect(ip)
  PROVE  GrantSound(t)'
<1> DEFINE mine == {s \in 1..t.grants : Web(t)!Active(grants[s].expiry) /\ grants[s].ip = ip}
<1>1. PICK s : s = Web(t)!Lowest(mine)
  OBVIOUS
<1>2. s \in 1..t.grants /\ s \in Live(t) /\ grants[s].ip = ip
  <2>1. mine \in SUBSET Nat /\ mine # {}
    BY DEF Web!WsConnect
  <2>2. s \in mine
    BY <1>1, <2>1, LowestIn
  <2>3. QED
    BY <2>2 DEF Live
<1>3. grants' = [grants EXCEPT ![s].expiry = 0] /\ Web(t)!Spend(ip) /\ now' = now
  BY <1>1 DEF Web!WsConnect
<1>t. /\ now \in Nat /\ t.grantTtl \in Nat /\ t.maxTime \in Nat
      /\ grants \in [1..t.grants -> [ip : t.ips \cup {"none"}, expiry : 0..(t.maxTime + t.grantTtl)]]
      /\ unspent \subseteq [n : 1..t.maxGrants, ip : t.ips, at : 0..t.maxTime]
  <2>1. now \in 0..t.maxTime
    BY DEF GrantSound, GrantTyped
  <2>2. QED
    BY <2>1, TableFacts DEF GrantSound, GrantTyped
<1>a. \A g \in unspent : g.at \in Nat
  <2> SUFFICES ASSUME NEW g \in unspent PROVE g.at \in Nat
    OBVIOUS
  <2>1. g.at \in 0..t.maxTime
    BY <1>t
  <2>2. QED
    BY <1>t, <2>1
<1>4. PICK m : Matches(t, m, Live(t), unspent, grants)
  BY DEF GrantSound
<1>5. \A r \in Live(t) : /\ m[r] \in unspent /\ m[r].ip = grants[r].ip
                         /\ grants[r].expiry <= m[r].at + t.grantTtl
                         /\ r \in 1..t.grants /\ now < grants[r].expiry
                         /\ grants[r].expiry \in Nat
  <2> SUFFICES ASSUME NEW r \in Live(t)
               PROVE  /\ m[r] \in unspent /\ m[r].ip = grants[r].ip
                      /\ grants[r].expiry <= m[r].at + t.grantTtl
                      /\ r \in 1..t.grants /\ now < grants[r].expiry
                      /\ grants[r].expiry \in Nat
    OBVIOUS
  <2>1. r \in 1..t.grants /\ now < grants[r].expiry
    BY DEF Live, Web!Active
  <2>2. grants[r].expiry \in 0..(t.maxTime + t.grantTtl)
    BY <1>t, <2>1
  <2>3. QED
    BY <1>4, <2>1, <2>2 DEF Matches
<1>6. m[s] \in Web(t)!Usable(ip)
  <2>1. m[s].at \in Nat
    BY <1>2, <1>5, <1>a
  <2>2. now < m[s].at + t.grantTtl
    BY <1>2, <1>5, <1>t, <2>1
  <2>3. QED
    BY <1>2, <1>5, <2>2 DEF Web!Usable
<1>7. PICK old : old = Web(t)!Oldest(Web(t)!Usable(ip))
  OBVIOUS
<1>8. old \in Web(t)!Usable(ip) /\ \A h \in Web(t)!Usable(ip) : old.at <= h.at
  <2> DEFINE G == Web(t)!Usable(ip)
             A == {g.at : g \in G}
  <2>1. A \in SUBSET Nat /\ A # {}
    BY <1>6, <1>a DEF Web!Usable
  <2>2. PICK a \in A : \A b \in A : a <= b
    BY <2>1, SmallestExists
  <2>3. \E g \in G : \A h \in G : g.at <= h.at
    BY <2>2
  <2> HIDE DEF G
  <2>4. Web(t)!Oldest(G) \in G /\ \A h \in G : Web(t)!Oldest(G).at <= h.at
    BY <2>3 DEF Web!Oldest
  <2>5. QED
    BY <1>7, <2>4 DEF G
<1>9. unspent' = unspent \ {old} /\ usurped' = usurped
  BY <1>3, <1>6, <1>7 DEF Web!Spend, GrantSound, GrantTyped
<1>10. /\ grants'[s].expiry = 0
       /\ \A r \in 1..t.grants : r # s => grants'[r] = grants[r]
  BY <1>2, <1>3, <1>t
<1>11. Live(t)' = Live(t) \ {s}
  BY <1>2, <1>3, <1>10 DEF Live, Web!Active
<1>12. GrantTyped(t)'
  <2>1. 0 \in 0..(t.maxTime + t.grantTtl)
    BY <1>t
  <2>2. QED
    BY <1>2, <1>3, <1>9, <1>t, <2>1 DEF GrantSound, GrantTyped
<1>13. PICK alive : alive = Live(t)'
  OBVIOUS
<1>14. PICK k : k = [r \in alive |-> IF m[r] = old THEN m[s] ELSE m[r]]
  OBVIOUS
<1>15. \A r \in alive : r \in Live(t) /\ r # s /\ m[r] # m[s] /\ grants'[r] = grants[r]
  BY <1>2, <1>4, <1>5, <1>10, <1>11, <1>13 DEF Matches
<1>16. Matches(t, k, Live(t)', unspent', grants')
  <2>1. k \in [alive -> unspent']
    BY <1>2, <1>5, <1>9, <1>14, <1>15
  <2>2. \A r, q \in alive : r # q => k[r] # k[q]
    BY <1>4, <1>14, <1>15 DEF Matches
  <2>3. \A r \in alive : k[r].ip = grants'[r].ip /\ grants'[r].expiry <= k[r].at + t.grantTtl
    <3> SUFFICES ASSUME NEW r \in alive
                 PROVE  k[r].ip = grants'[r].ip /\ grants'[r].expiry <= k[r].at + t.grantTtl
      OBVIOUS
    <3>1. CASE m[r] = old
      <4>1. k[r] = m[s] /\ m[s].ip = ip /\ old.ip = ip /\ old.at <= m[s].at
        BY <1>2, <1>5, <1>6, <1>8, <1>14, <3>1 DEF Web!Usable
      <4>2. old.at \in Nat /\ m[s].at \in Nat /\ grants[r].expiry \in Nat
            /\ grants[r].expiry <= old.at + t.grantTtl /\ grants[r].ip = old.ip
        BY <1>2, <1>5, <1>a, <1>15, <3>1
      <4>3. grants[r].expiry <= m[s].at + t.grantTtl
        BY <1>t, <4>1, <4>2
      <4>4. QED
        BY <1>15, <4>1, <4>2, <4>3
    <3>2. CASE m[r] # old
      BY <1>5, <1>14, <1>15, <3>2
    <3>3. QED
      BY <3>1, <3>2
  <2>4. QED
    BY <1>13, <2>1, <2>2, <2>3 DEF Matches
<1>17. QED
  BY <1>9, <1>12, <1>16 DEF GrantSound

LEMMA GrantTickKeeps ==
  ASSUME NEW t \in Tables, GrantSound(t), Web(t)!Tick
  PROVE  GrantSound(t)'
<1>1. /\ now' = now + 1 /\ now < t.maxTime /\ UNCHANGED <<grants, usurped>>
      /\ unspent' = {g \in unspent : now' < g.at + t.grantTtl}
  BY DEF Web!Tick
<1>2. now \in Nat /\ now' \in 0..t.maxTime /\ t.maxTime \in Nat /\ t.grantTtl \in Nat
  BY <1>1, TableFacts DEF GrantSound, GrantTyped
<1>3. GrantTyped(t)'
  BY <1>1, <1>2 DEF GrantSound, GrantTyped
<1>4. PICK m : Matches(t, m, Live(t), unspent, grants)
  BY DEF GrantSound
<1>5. ASSUME NEW s \in Live(t)'
      PROVE  s \in Live(t) /\ m[s] \in unspent'
  <2>1. s \in 1..t.grants /\ grants[s].expiry # 0 /\ now' < grants[s].expiry
    BY <1>1 DEF Live, Web!Active
  <2>2. grants[s].expiry \in 0..(t.maxTime + t.grantTtl)
    BY <2>1 DEF GrantSound, GrantTyped
  <2>3. s \in Live(t)
    BY <1>1, <1>2, <2>1, <2>2 DEF Live, Web!Active
  <2>4. m[s] \in unspent /\ grants[s].expiry <= m[s].at + t.grantTtl
    BY <1>4, <2>3 DEF Matches
  <2>5. m[s].at \in 0..t.maxTime
    BY <2>4 DEF GrantSound, GrantTyped
  <2>6. now' < m[s].at + t.grantTtl
    BY <1>2, <2>1, <2>2, <2>4, <2>5
  <2>7. QED
    BY <1>1, <2>3, <2>4, <2>6
<1>6. PICK alive : alive = Live(t)'
  OBVIOUS
<1>7. PICK k : k = [s \in alive |-> m[s]]
  OBVIOUS
<1>8. Matches(t, k, Live(t)', unspent', grants')
  BY <1>1, <1>4, <1>5, <1>6, <1>7 DEF Matches
<1>9. QED
  BY <1>1, <1>3, <1>8 DEF GrantSound

LEMMA GrantNext ==
  ASSUME NEW t \in Tables, GrantSound(t), [Web(t)!Next]_(Web(t)!vars)
  PROVE  GrantSound(t)'
<1>1. CASE \E ip \in t.ips, o \in Web(t)!Offers : Web(t)!WsToken(ip, o)
  BY <1>1, WsTokenKeeps
<1>2. CASE \E ip \in t.ips : Web(t)!WsConnect(ip)
  BY <1>2, WsConnectKeeps
<1>3. CASE Web(t)!Tick
  BY <1>3, GrantTickKeeps
<1>4. CASE UNCHANGED <<now, grants, unspent, usurped>>
  <2>1. Live(t)' = Live(t)
    BY <1>4 DEF Live, Web!Active
  <2>2. QED
    BY <1>4, <2>1 DEF GrantSound, GrantTyped
<1>5. CASE \/ UNCHANGED webVars
           \/ \E ip \in t.ips, o \in Web(t)!Offers : Web(t)!AuthCheck(ip, o)
           \/ \E ip \in t.ips, o \in Web(t)!Offers : Web(t)!Login(ip, o)
           \/ \E c \in {"ok", "default", "toolong"} : Web(t)!SetCredential(c)
  BY <1>4, <1>5 DEF webVars, Web!AuthCheck, Web!Login, Web!SetCredential, Web!grantVars
<1>6. QED
  BY <1>1, <1>2, <1>3, <1>5, WebSteps

LEMMA GrantInit == ASSUME NEW t \in Tables, Web(t)!Init PROVE GrantSound(t)
<1>1. /\ now = 1 /\ unspent = {} /\ usurped = FALSE
      /\ grants = [s \in 1..t.grants |-> [ip |-> "none", expiry |-> 0]]
  BY DEF Web!Init, Web!NoIp
<1>2. 0 \in 0..(t.maxTime + t.grantTtl) /\ 1 \in 0..t.maxTime
  BY TableFacts
<1>3. GrantTyped(t)
  BY <1>1, <1>2 DEF GrantTyped
<1>4. Live(t) = {}
  BY <1>1 DEF Live, Web!Active
<1>5. Matches(t, <<>>, Live(t), unspent, grants)
  <2>1. <<>> \in [{} -> unspent]
    OBVIOUS
  <2>2. QED
    BY <1>4, <2>1 DEF Matches
<1>6. QED
  BY <1>1, <1>3, <1>5 DEF GrantSound

-----------------------------------------------------------------------------
(* The three scenes of the web server.                                        *)

WebInv(t) == RateSound(t) /\ TokenSound(t) /\ GrantSound(t)

WebScenes ==
  /\ scene = "logins"    => WebInv(LoginTables)
  /\ scene = "tokens"    => WebInv(TokenTables)
  /\ scene = "terminals" => WebInv(TerminalTables)

LEMMA TablesAre ==
  LoginTables \in Tables /\ TokenTables \in Tables /\ TerminalTables \in Tables
BY DEF Tables

LEMMA WebInitially == ASSUME NEW t \in Tables, Web(t)!Init PROVE WebInv(t)
BY RateInit, TokenInit, GrantInit DEF WebInv

LEMMA WebNext ==
  ASSUME NEW t \in Tables, WebInv(t), [Web(t)!Next]_(Web(t)!vars) PROVE WebInv(t)'
BY RateNext, TokenNext, GrantNext DEF WebInv

LEMMA WebTyped == ASSUME NEW t \in Tables, WebInv(t) PROVE Web(t)!TypeOK
BY DEF WebInv, RateSound, RateTyped, TokenSound, TokenTyped, GrantSound, GrantTyped,
       EntryType, Web!TypeOK, Web!Slots, Web!NoIp

LEMMA WebAlways == SceneSpec => []WebScenes
<1>1. SceneInit => WebScenes
  <2> SUFFICES ASSUME SceneInit PROVE WebScenes
    OBVIOUS
  <2>1. scene = "logins" => WebInv(LoginTables)
    BY TablesAre, WebInitially DEF SceneInit
  <2>2. scene = "tokens" => WebInv(TokenTables)
    BY TablesAre, WebInitially DEF SceneInit
  <2>3. scene = "terminals" => WebInv(TerminalTables)
    BY TablesAre, WebInitially DEF SceneInit
  <2>4. QED
    BY <2>1, <2>2, <2>3 DEF WebScenes
<1>2. WebScenes /\ [SceneNext]_allVars => WebScenes'
  <2> SUFFICES ASSUME WebScenes, [SceneNext]_allVars PROVE WebScenes'
    OBVIOUS
  <2>1. scene' = scene
    BY DEF SceneNext, allVars
  <2>2. UNCHANGED webVars \/ WebStep
    BY DEF SceneNext, allVars
  <2>3. ASSUME NEW t \in Tables, UNCHANGED webVars \/ Web(t)!Next
        PROVE  [Web(t)!Next]_(Web(t)!vars)
    BY <2>3 DEF webVars, Web!vars, Web!rateVars, Web!tokenVars, Web!grantVars
  <2>4. ASSUME scene = "logins" PROVE WebInv(LoginTables)'
    <3>1. UNCHANGED webVars \/ Web(LoginTables)!Next
      BY <2>2, <2>4 DEF WebStep
    <3>2. QED
      BY <2>3, <2>4, <3>1, TablesAre, WebNext DEF WebScenes
  <2>5. ASSUME scene = "tokens" PROVE WebInv(TokenTables)'
    <3>1. UNCHANGED webVars \/ Web(TokenTables)!Next
      BY <2>2, <2>5 DEF WebStep
    <3>2. QED
      BY <2>3, <2>5, <3>1, TablesAre, WebNext DEF WebScenes
  <2>6. ASSUME scene = "terminals" PROVE WebInv(TerminalTables)'
    <3>1. UNCHANGED webVars \/ Web(TerminalTables)!Next
      BY <2>2, <2>6 DEF WebStep
    <3>2. QED
      BY <2>3, <2>6, <3>1, TablesAre, WebNext DEF WebScenes
  <2>7. QED
    BY <2>1, <2>4, <2>5, <2>6 DEF WebScenes
<1>3. QED
  BY <1>1, <1>2, PTL DEF SceneSpec

\* The three tables of HttpServer keep what they promise when they are full: a
\* lockout its full term, a token its hour unless enough newer ones were issued,
\* a terminal grant one terminal of its own address.  For tables, limits and
\* times of any size.
THEOREM WebIsSound == SceneSpec => []WebSound
<1>1. WebScenes => WebSound
  <2> SUFFICES ASSUME WebScenes PROVE WebSound
    OBVIOUS
  <2>1. ASSUME scene = "logins" PROVE Web(LoginTables)!LockoutHolds
    <3>1. RateSound(LoginTables)
      BY <2>1 DEF WebScenes, WebInv
    <3>2. QED
      BY <3>1, TablesAre, LockRefuses DEF Web!LockoutHolds
  <2>2. ASSUME scene = "tokens" PROVE Web(TokenTables)!TokensKept
    BY <2>2, TablesAre, TokensAreKept DEF WebScenes, WebInv
  <2>3. ASSUME scene = "terminals" PROVE Web(TerminalTables)!TerminalGranted
    BY <2>3 DEF WebScenes, WebInv, GrantSound, Web!TerminalGranted
  <2>4. QED
    BY <2>1, <2>2, <2>3 DEF WebSound
<1>2. QED
  BY <1>1, WebAlways, PTL

-----------------------------------------------------------------------------
(* The types of Enrollment.                                                   *)

Halves == [cert : Enroll!Serials \cup {0}, key : Enroll!Serials \cup {0}, ack : BOOLEAN]
Jobs   == {Enroll!NoJob} \cup
          [ask : Enroll!Requests, serial : Enroll!Serials \cup {0}, answer : Enroll!Answers]
Apps   == [at : {"unknown", "challenged", "verified", "claimed"},
           serial : 0..MaxSerial, sealed : BOOLEAN]
EnrollSteps == {"announce", "verify", "poll", "awaitMtls", "ack", "done"}

IdentTyped ==
  /\ phase \in {"identity", "enroll", "run"}
  /\ ident \in [sk : 0..Enroll!MaxMint, pk : 0..Enroll!MaxMint, id : BOOLEAN]
  /\ minted \in 0..Enroll!MaxMint /\ ready \in BOOLEAN

StepTyped == step \in EnrollSteps /\ active \in BOOLEAN /\ due \in BOOLEAN

JobTyped ==
  /\ stale \in Enroll!Requests \cup {"nothing"} /\ job \in Jobs
  /\ storing \in {"no", "ack", "save", "cert", "key", "undo"}

StoreTyped == nvs \in Halves /\ saved \in BOOLEAN

LinkTyped ==
  /\ dialing \in BOOLEAN /\ mtls \in Enroll!Serials \cup {0}
  /\ broken \in BOOLEAN /\ reboot \in BOOLEAN

AppTyped == app \in Apps /\ revoked \subseteq Enroll!Issued /\ mishaps \in 0..MaxMishaps

EnrollTyped ==
  IdentTyped /\ StepTyped /\ JobTyped /\ StoreTyped /\ LinkTyped /\ AppTyped

LEMMA EnrollTypedIs == EnrollTyped <=> Enroll!TypeOK
BY DEF EnrollTyped, IdentTyped, StepTyped, JobTyped, StoreTyped, LinkTyped, AppTyped,
       Halves, Jobs, Apps, EnrollSteps, Enroll!TypeOK, Enroll!None

LEMMA SerialFacts ==
  /\ MaxSerial \in Nat /\ Enroll!Issued \subseteq Enroll!Serials
  /\ Enroll!ByHand \subseteq Enroll!Serials /\ 0..MaxSerial \subseteq Enroll!Serials \cup {0}
  /\ Enroll!NoJob \in Jobs
<1>1. MaxSerial \in Nat
  BY CertAssumption
<1>2. 0..MaxSerial \subseteq (1..MaxSerial) \cup {0}
  BY <1>1
<1>3. QED
  BY <1>1, <1>2 DEF Enroll!Issued, Enroll!ByHand, Enroll!Serials, Jobs

LEMMA MishapTyped ==
  ASSUME AppTyped, Enroll!Mishap \/ UNCHANGED mishaps
  PROVE  mishaps' \in 0..MaxMishaps
BY CertAssumption DEF AppTyped, Enroll!Mishap

LEMMA AdvanceTyped == ASSUME StepTyped, NEW answer, Enroll!Advance(answer) PROVE StepTyped'
BY DEF StepTyped, EnrollSteps, Enroll!Advance

LEMMA ServeTyped ==
  ASSUME app \in Apps, NEW ask, Enroll!Serve(ask) \/ UNCHANGED app PROVE app' \in Apps
<1>1. CASE UNCHANGED app
  BY <1>1
<1>2. CASE Enroll!Serve(ask)
  <2>1. \/ app' = [app EXCEPT !.at = "challenged", !.sealed = FALSE]
        \/ app' = [app EXCEPT !.at = "verified"] \/ app' = [app EXCEPT !.at = "unknown"]
        \/ app' = [app EXCEPT !.sealed = TRUE] \/ app' = app
    BY <1>2 DEF Enroll!Serve, Apps
  <2>2. QED
    BY <2>1 DEF Apps
<1>3. QED
  BY <1>1, <1>2

LEMMA ClearTyped ==
  ASSUME EnrollTyped, (Enroll!Cleared /\ UNCHANGED mishaps) \/ Enroll!ClearFailed
  PROVE  nvs' \in Halves /\ broken' \in BOOLEAN /\ mishaps' \in 0..MaxMishaps
<1>1. nvs' = nvs \/ nvs' = [nvs EXCEPT !.cert = 0, !.key = 0] \/ nvs' = [nvs EXCEPT !.cert = 0]
      \/ nvs' = [nvs EXCEPT !.key = 0]
  BY DEF Enroll!Cleared, Enroll!ClearFailed, Enroll!None
<1>2. nvs' \in Halves
  BY <1>1 DEF EnrollTyped, StoreTyped, Halves
<1>3. broken' \in BOOLEAN
  BY DEF EnrollTyped, LinkTyped, Enroll!Cleared, Enroll!ClearFailed
<1>4. mishaps' \in 0..MaxMishaps
  BY MishapTyped DEF EnrollTyped, Enroll!ClearFailed
<1>5. QED
  BY <1>2, <1>3, <1>4

LEMMA RestartTyped ==
  ASSUME EnrollTyped, Enroll!Restarts, ident' \in {ident, Enroll!Blank},
         Enroll!Mishap \/ UNCHANGED mishaps
  PROVE  EnrollTyped'
<1>1. /\ phase' = "identity" /\ ready' = FALSE /\ step' = "done" /\ active' = FALSE
      /\ job' = Enroll!NoJob /\ stale' = "nothing" /\ storing' = "no" /\ dialing' = FALSE
      /\ mtls' = 0 /\ broken' = FALSE /\ reboot' = FALSE /\ due' = FALSE
      /\ UNCHANGED <<minted, nvs, saved, app, revoked>>
  BY DEF Enroll!Restarts, Enroll!storeVars, Enroll!appVars, Enroll!None
<1>2. 0 \in 0..Enroll!MaxMint
  BY CertAssumption DEF Enroll!MaxMint
<1>3. IdentTyped'
  <2>1. [sk |-> 0, pk |-> 0, id |-> FALSE] \in [sk : 0..Enroll!MaxMint, pk : 0..Enroll!MaxMint, id : BOOLEAN]
    BY <1>2
  <2>2. ident' = ident \/ ident' = [sk |-> 0, pk |-> 0, id |-> FALSE]
    BY DEF Enroll!Blank, Enroll!None
  <2>3. ident' \in [sk : 0..Enroll!MaxMint, pk : 0..Enroll!MaxMint, id : BOOLEAN]
    BY <2>1, <2>2 DEF EnrollTyped, IdentTyped
  <2>4. QED
    BY <1>1, <2>3 DEF EnrollTyped, IdentTyped
<1>4. AppTyped'
  BY <1>1, MishapTyped DEF EnrollTyped, AppTyped
<1>5. QED
  BY <1>1, <1>3, <1>4, SerialFacts
     DEF EnrollTyped, StepTyped, EnrollSteps, JobTyped, Jobs, StoreTyped, Halves, LinkTyped

LEMMA EnrollTypeNext == EnrollTyped /\ [Enroll!Next]_(Enroll!vars) => EnrollTyped'
<1> SUFFICES ASSUME EnrollTyped, [Enroll!Next]_(Enroll!vars) PROVE EnrollTyped'
  OBVIOUS
<1> USE DEF Enroll!identVars, Enroll!enrollVars, Enroll!storeVars, Enroll!linkVars, Enroll!appVars
<1>t. IdentTyped /\ StepTyped /\ JobTyped /\ StoreTyped /\ LinkTyped /\ AppTyped
  BY DEF EnrollTyped
<1>i. ASSUME UNCHANGED <<phase, ident, minted, ready>> PROVE IdentTyped'
  BY <1>t, <1>i DEF IdentTyped
<1>s. ASSUME UNCHANGED <<step, active, due>> PROVE StepTyped'
  BY <1>t, <1>s DEF StepTyped
<1>j. ASSUME UNCHANGED <<stale, job, storing>> PROVE JobTyped'
  BY <1>t, <1>j, SerialFacts DEF JobTyped, Jobs
<1>w. ASSUME UNCHANGED <<nvs, saved>> PROVE StoreTyped'
  BY <1>t, <1>w DEF StoreTyped
<1>l. ASSUME UNCHANGED <<dialing, mtls, broken, reboot>> PROVE LinkTyped'
  BY <1>t, <1>l DEF LinkTyped
<1>a. ASSUME UNCHANGED <<app, revoked>>, Enroll!Mishap \/ UNCHANGED mishaps PROVE AppTyped'
  BY <1>t, <1>a, MishapTyped DEF AppTyped
<1>n. ASSUME job' = Enroll!NoJob, UNCHANGED stale,
             storing' \in {"no", storing} PROVE JobTyped'
  BY <1>t, <1>n, SerialFacts DEF JobTyped, Jobs
<1>1. CASE Enroll!IdentityBegin
  <2>1. /\ phase' \in {"identity", "enroll"} /\ ready' \in BOOLEAN
        /\ \/ UNCHANGED <<ident, minted>>
           \/ /\ minted < Enroll!MaxMint /\ minted' = minted + 1
              /\ ident' = Enroll!Whole(minted + 1) \/ ident' \in Enroll!MintWrites(minted + 1)
    BY <1>1 DEF Enroll!IdentityBegin
  <2>2. PICK n : n = minted + 1
    OBVIOUS
  <2>3. minted < Enroll!MaxMint => n \in 0..Enroll!MaxMint
    BY <1>t, <2>2, CertAssumption DEF IdentTyped, Enroll!MaxMint
  <2>4. \/ UNCHANGED <<ident, minted>>
        \/ /\ n \in 0..Enroll!MaxMint /\ minted' = n
           /\ \/ ident' = [sk |-> n, pk |-> n, id |-> TRUE] \/ ident' = ident
              \/ ident' = [ident EXCEPT !.sk = n] \/ ident' = [ident EXCEPT !.sk = n, !.pk = n]
    BY <2>1, <2>2, <2>3 DEF Enroll!Whole, Enroll!MintWrites
  <2>5. IdentTyped'
    <3> DEFINE Idents == [sk : 0..Enroll!MaxMint, pk : 0..Enroll!MaxMint, id : BOOLEAN]
    <3>1. ident \in Idents /\ minted \in 0..Enroll!MaxMint
      BY <1>t DEF IdentTyped
    <3>2. ASSUME n \in 0..Enroll!MaxMint
          PROVE  /\ [sk |-> n, pk |-> n, id |-> TRUE] \in Idents /\ [ident EXCEPT !.sk = n] \in Idents
                 /\ [ident EXCEPT !.sk = n, !.pk = n] \in Idents
      BY <3>1, <3>2
    <3>3. ident' \in Idents /\ minted' \in 0..Enroll!MaxMint
      <4> HIDE DEF Idents
      <4>1. QED
        BY <2>4, <3>1, <3>2
    <3>4. QED
      BY <2>1, <3>3 DEF IdentTyped
  <2>6. Enroll!Mishap \/ UNCHANGED mishaps
    BY <1>1 DEF Enroll!IdentityBegin
  <2>7. QED
    BY <1>1, <1>s, <1>j, <1>w, <1>l, <1>a, <2>5, <2>6 DEF Enroll!IdentityBegin, EnrollTyped
<1>2. CASE Enroll!EnrollBegin
  <2>1. nvs' = nvs \/ nvs' = [nvs EXCEPT !.ack = nvs.ack /\ Enroll!HasCert]
    BY <1>2 DEF Enroll!EnrollBegin
  <2>2. (nvs.ack /\ Enroll!HasCert) \in BOOLEAN
    BY DEF Enroll!HasCert
  <2>3. StoreTyped'
    BY <1>2, <1>t, <2>1, <2>2 DEF StoreTyped, Halves, Enroll!EnrollBegin
  <2>4. /\ step' \in {step, "announce", "awaitMtls", "done"}
        /\ active' \in {active, TRUE, FALSE} /\ due' \in {due, TRUE, FALSE}
    BY <1>2 DEF Enroll!EnrollBegin, Enroll!StartStep
  <2>5. StepTyped'
    BY <1>t, <2>4 DEF StepTyped, EnrollSteps
  <2>6. LinkTyped' /\ IdentTyped'
    BY <1>2, <1>t DEF Enroll!EnrollBegin, LinkTyped, IdentTyped, StoreTyped
  <2>7. AppTyped'
    <3>1. Enroll!Mishap \/ UNCHANGED mishaps
      BY <1>2 DEF Enroll!EnrollBegin
    <3>2. QED
      BY <1>2, <1>a, <3>1 DEF Enroll!EnrollBegin
  <2>8. JobTyped'
    BY <1>2, <1>j DEF Enroll!EnrollBegin
  <2>9. QED
    BY <2>3, <2>5, <2>6, <2>7, <2>8 DEF EnrollTyped
<1>3. CASE Enroll!CertReboot \/ Enroll!PowerCut \/ Enroll!IdentityReset
  BY <1>3, RestartTyped DEF Enroll!CertReboot, Enroll!PowerCut, Enroll!IdentityReset
<1>4. CASE Enroll!Connect
  <2>1. LinkTyped'
    <3>1. mtls' \in {nvs.cert, 0} /\ broken' \in BOOLEAN /\ UNCHANGED <<dialing, reboot>>
      BY <1>4 DEF Enroll!Connect, Enroll!HasCert, Enroll!None
    <3>2. QED
      BY <1>t, <3>1 DEF LinkTyped, StoreTyped, Halves
  <2>2. QED
    BY <1>4, <1>i, <1>s, <1>j, <1>w, <1>a, <2>1 DEF Enroll!Connect, EnrollTyped
<1>5. CASE Enroll!StartJob
  <2>1. /\ step \in {"announce", "verify", "poll", "ack"} /\ UNCHANGED <<stale, storing>>
        /\ job' = [Enroll!NoJob EXCEPT !.ask = step]
    BY <1>5 DEF Enroll!StartJob
  <2>2. job' \in Jobs
    BY <2>1 DEF Jobs, Enroll!NoJob, Enroll!None, Enroll!Requests, Enroll!Answers
  <2>3. JobTyped'
    BY <1>t, <2>1, <2>2 DEF JobTyped
  <2>4. QED
    BY <1>5, <1>i, <1>s, <1>w, <1>l, <1>a, <2>3 DEF Enroll!StartJob, EnrollTyped
<1>6. CASE Enroll!AwaitMtls
  <2>1. StepTyped'
    BY <1>6, <1>t DEF Enroll!AwaitMtls, StepTyped, EnrollSteps
  <2>2. QED
    BY <1>6, <1>i, <1>j, <1>w, <1>l, <1>a, <2>1 DEF Enroll!AwaitMtls, EnrollTyped
<1>7. CASE Enroll!StartCheck
  <2>1. /\ UNCHANGED <<stale, storing>>
        /\ \/ job' = Enroll!NoJob
           \/ job' = [Enroll!NoJob EXCEPT !.ask = "status", !.serial = nvs.cert]
    BY <1>7 DEF Enroll!StartCheck
  <2>2. nvs.cert \in Enroll!Serials \cup {0}
    BY <1>t DEF StoreTyped, Halves
  <2>3. job' \in Jobs
    BY <2>1, <2>2 DEF Jobs, Enroll!NoJob, Enroll!None, Enroll!Requests, Enroll!Answers
  <2>4. JobTyped'
    BY <1>t, <2>1, <2>3 DEF JobTyped
  <2>5. StepTyped'
    BY <1>7, <1>t DEF Enroll!StartCheck, StepTyped
  <2>6. QED
    BY <1>7, <1>i, <1>w, <1>l, <1>a, <2>4, <2>5 DEF Enroll!StartCheck, EnrollTyped
<1>8. CASE Enroll!TaskDone
  <2>1. PICK answer \in Enroll!Answers : job' = [job EXCEPT !.answer = answer]
    <3>1. Enroll!Says(job.ask) \in Enroll!Answers
      BY DEF Enroll!Says, Enroll!Answers
    <3>2. QED
      BY <1>8, <3>1 DEF Enroll!TaskDone, Enroll!Answers
  <2>2. job # Enroll!NoJob /\ UNCHANGED <<stale, storing>>
    BY <1>8 DEF Enroll!TaskDone
  <2>3. JobTyped'
    BY <1>t, <2>1, <2>2 DEF JobTyped, Jobs
  <2>4. app' \in Apps
    <3>1. Enroll!Serve(job.ask) \/ UNCHANGED app
      BY <1>8 DEF Enroll!TaskDone
    <3>2. QED
      BY <1>t, <3>1, ServeTyped DEF AppTyped
  <2>5. AppTyped'
    <3>1. (Enroll!Mishap \/ UNCHANGED mishaps) /\ UNCHANGED revoked
      BY <1>8 DEF Enroll!TaskDone
    <3>2. QED
      BY <1>t, <2>4, <3>1, MishapTyped DEF AppTyped
  <2>6. QED
    BY <1>8, <1>i, <1>s, <1>w, <1>l, <2>3, <2>5 DEF Enroll!TaskDone, EnrollTyped
<1>9. CASE Enroll!Overrun
  <2>1. job # Enroll!NoJob /\ job.ask \in Enroll!Requests
    BY <1>9, <1>t DEF Enroll!Overrun, JobTyped, Jobs
  <2>2. JobTyped'
    BY <1>9, <1>t, <2>1, SerialFacts DEF Enroll!Overrun, JobTyped
  <2>3. StepTyped'
    <3>1. (due' = TRUE /\ UNCHANGED <<step, active>>) \/ Enroll!Advance("lost")
      BY <1>9 DEF Enroll!Overrun
    <3>2. QED
      BY <1>t, <3>1, AdvanceTyped DEF StepTyped
  <2>4. QED
    BY <1>9, <1>i, <1>w, <1>l, <1>a, <2>2, <2>3 DEF Enroll!Overrun, EnrollTyped
<1>10. CASE Enroll!ReapStale
  <2>1. app' \in Apps
    <3>1. Enroll!Serve(stale) \/ UNCHANGED app
      BY <1>10 DEF Enroll!ReapStale
    <3>2. QED
      BY <1>t, <3>1, ServeTyped DEF AppTyped
  <2>2. AppTyped' /\ JobTyped'
    BY <1>10, <1>t, <2>1, SerialFacts DEF Enroll!ReapStale, AppTyped, JobTyped
  <2>3. QED
    BY <1>10, <1>i, <1>s, <1>w, <1>l, <2>2 DEF Enroll!ReapStale, EnrollTyped
<1>11. CASE Enroll!FinishJob
  <2>1. StepTyped'
    BY <1>11, <1>t, AdvanceTyped DEF Enroll!FinishJob
  <2>2. QED
    BY <1>11, <1>i, <1>n, <1>w, <1>l, <1>a, <2>1 DEF Enroll!FinishJob, EnrollTyped
<1>12. CASE Enroll!FinishAck
  <2>1. StepTyped'
    BY <1>12, <1>t, AdvanceTyped DEF Enroll!FinishAck
  <2>2. nvs' = nvs \/ nvs' = [nvs EXCEPT !.ack = nvs.ack /\ job.answer # "ok"]
    BY <1>12 DEF Enroll!FinishAck
  <2>3. StoreTyped'
    BY <1>12, <1>t, <2>2 DEF Enroll!FinishAck, StoreTyped, Halves
  <2>4. Enroll!Mishap \/ UNCHANGED mishaps
    BY <1>12 DEF Enroll!FinishAck
  <2>5. QED
    BY <1>12, <1>i, <1>n, <1>l, <1>a, <2>1, <2>3, <2>4 DEF Enroll!FinishAck, EnrollTyped
<1>13. CASE Enroll!BeginStore
  <2>1. JobTyped'
    BY <1>13, <1>t DEF Enroll!BeginStore, JobTyped
  <2>2. QED
    BY <1>13, <1>i, <1>s, <1>w, <1>l, <1>a, <2>1 DEF Enroll!BeginStore, EnrollTyped
<1>14. CASE Enroll!StoreNext
  <2>1. storing' \in {"save", "cert", "key", "undo"} /\ UNCHANGED <<stale, job>>
    BY <1>14 DEF Enroll!StoreNext, Enroll!After
  <2>2. JobTyped'
    BY <1>t, <2>1, SerialFacts DEF JobTyped
  <2>3. /\ nvs' = nvs \/ nvs' = [nvs EXCEPT !.ack = TRUE] \/ nvs' = [nvs EXCEPT !.cert = app.serial]
        /\ saved' \in {saved, TRUE}
    BY <1>14 DEF Enroll!StoreNext, Enroll!Stored
  <2>4. app.serial \in Enroll!Serials \cup {0}
    BY <1>t, SerialFacts DEF AppTyped, Apps
  <2>5. StoreTyped'
    BY <1>t, <2>3, <2>4 DEF StoreTyped, Halves
  <2>6. Enroll!Mishap \/ UNCHANGED mishaps
    BY <1>14 DEF Enroll!StoreNext
  <2>7. QED
    BY <1>14, <1>i, <1>s, <1>l, <1>a, <2>2, <2>5, <2>6 DEF Enroll!StoreNext, EnrollTyped
<1>15. CASE Enroll!StoreKey
  <2>1. app.serial \in Enroll!Serials \cup {0}
    BY <1>t, SerialFacts DEF AppTyped, Apps
  <2>2. \/ /\ nvs' = [nvs EXCEPT !.key = app.serial] /\ broken' = FALSE /\ reboot' = TRUE
           /\ storing' = "no" /\ job' = Enroll!NoJob /\ Enroll!Advance("ok")
        \/ storing' = "undo" /\ UNCHANGED <<nvs, broken, reboot, job, step, active, due>>
    BY <1>15 DEF Enroll!StoreKey
  <2>3. UNCHANGED <<stale, saved, dialing, mtls>> /\ (Enroll!Mishap \/ UNCHANGED mishaps)
    BY <1>15 DEF Enroll!StoreKey
  <2>4. StepTyped'
    BY <1>t, <1>s, <2>2, AdvanceTyped
  <2>5. JobTyped'
    BY <1>t, <2>2, <2>3, SerialFacts DEF JobTyped
  <2>6. StoreTyped' /\ LinkTyped'
    BY <1>t, <2>1, <2>2, <2>3 DEF StoreTyped, Halves, LinkTyped
  <2>7. QED
    BY <1>15, <1>i, <1>a, <2>3, <2>4, <2>5, <2>6 DEF Enroll!StoreKey, EnrollTyped
<1>16. CASE Enroll!UndoStore
  <2>1. StepTyped'
    BY <1>16, <1>t, AdvanceTyped DEF Enroll!UndoStore
  <2>2. StoreTyped'
    BY <1>16, <1>t DEF Enroll!UndoStore, StoreTyped, Halves
  <2>3. Enroll!Mishap \/ UNCHANGED mishaps
    BY <1>16 DEF Enroll!UndoStore
  <2>4. QED
    BY <1>16, <1>i, <1>n, <1>l, <1>a, <2>1, <2>2, <2>3 DEF Enroll!UndoStore, EnrollTyped
<1>17. CASE Enroll!FinishCheck
  <2>1. \/ UNCHANGED <<nvs, broken, mishaps>>
        \/ (Enroll!Cleared /\ UNCHANGED mishaps)
        \/ Enroll!ClearFailed
    BY <1>17 DEF Enroll!FinishCheck
  <2>2. nvs' \in Halves /\ broken' \in BOOLEAN /\ mishaps' \in 0..MaxMishaps
    BY <1>t, <2>1, ClearTyped DEF StoreTyped, LinkTyped, AppTyped
  <2>3. due' \in {due, TRUE} /\ reboot' \in {reboot, TRUE}
    BY <1>17 DEF Enroll!FinishCheck
  <2>4. StoreTyped' /\ LinkTyped' /\ AppTyped' /\ StepTyped'
    BY <1>17, <1>t, <2>2, <2>3
       DEF Enroll!FinishCheck, StoreTyped, LinkTyped, AppTyped, StepTyped
  <2>5. QED
    BY <1>17, <1>i, <1>n, <2>4 DEF Enroll!FinishCheck, EnrollTyped
<1>18. CASE Enroll!Claim \/ Enroll!Prune \/ \E n \in Enroll!Issued : Enroll!Revoke(n)
  <2>1. CASE Enroll!Claim
    <3>1. app.serial + 1 \in 0..MaxSerial
      BY <1>t, <2>1, SerialFacts DEF Enroll!Claim, AppTyped, Apps
    <3>2. AppTyped'
      BY <1>t, <2>1, <3>1 DEF Enroll!Claim, AppTyped, Apps
    <3>3. QED
      BY <1>i, <1>s, <1>j, <1>w, <1>l, <2>1, <3>2 DEF Enroll!Claim, EnrollTyped
  <2>2. CASE Enroll!Prune
    <3>1. AppTyped'
      BY <1>t, <2>2, MishapTyped DEF Enroll!Prune, AppTyped, Apps
    <3>2. QED
      BY <1>i, <1>s, <1>j, <1>w, <1>l, <2>2, <3>1 DEF Enroll!Prune, EnrollTyped
  <2>3. ASSUME NEW n \in Enroll!Issued, Enroll!Revoke(n) PROVE EnrollTyped'
    <3>1. app' = [app EXCEPT !.at = "unknown"] \/ app' = app
      BY <1>t, <2>3 DEF Enroll!Revoke, AppTyped, Apps
    <3>2. AppTyped'
      BY <1>t, <2>3, <3>1, MishapTyped DEF Enroll!Revoke, AppTyped, Apps
    <3>3. QED
      BY <1>i, <1>s, <1>j, <1>w, <1>l, <2>3, <3>2 DEF Enroll!Revoke, EnrollTyped
  <2>4. QED
    BY <1>18, <2>1, <2>2, <2>3
<1>19. ASSUME NEW n \in Enroll!ByHand, Enroll!CertSet("cert", n) \/ Enroll!CertSet("key", n)
       PROVE  EnrollTyped'
  <2>1. nvs' = [nvs EXCEPT !.cert = n] \/ nvs' = [nvs EXCEPT !.key = n]
    BY <1>19 DEF Enroll!CertSet
  <2>2. StoreTyped' /\ LinkTyped'
    BY <1>19, <1>t, <2>1, SerialFacts DEF Enroll!CertSet, StoreTyped, Halves, LinkTyped
  <2>3. QED
    BY <1>19, <1>i, <1>s, <1>j, <1>a, <2>2 DEF Enroll!CertSet, EnrollTyped
<1>20. CASE Enroll!CertApply
  <2>1. LinkTyped'
    BY <1>20, <1>t DEF Enroll!CertApply, LinkTyped, Enroll!PairValid, Enroll!HasCert
  <2>2. QED
    BY <1>20, <1>i, <1>s, <1>j, <1>w, <1>a, <2>1 DEF Enroll!CertApply, EnrollTyped
<1>21. CASE Enroll!CertClear
  <2>1. nvs' \in Halves /\ broken' \in BOOLEAN /\ mishaps' \in 0..MaxMishaps
    BY <1>21, ClearTyped DEF Enroll!CertClear
  <2>2. reboot' \in BOOLEAN
    BY <1>21, <1>t DEF Enroll!CertClear, LinkTyped, Enroll!HasCert
  <2>3. StoreTyped' /\ LinkTyped' /\ AppTyped'
    BY <1>21, <1>t, <2>1, <2>2 DEF Enroll!CertClear, StoreTyped, LinkTyped, AppTyped
  <2>4. QED
    BY <1>21, <1>i, <1>s, <1>j, <2>3 DEF Enroll!CertClear, EnrollTyped
<1>22. CASE UNCHANGED Enroll!vars
  BY <1>22, <1>i, <1>s, <1>j, <1>w, <1>l, <1>a DEF Enroll!vars, EnrollTyped
<1>23. QED
  BY <1>1, <1>2, <1>3, <1>4, <1>5, <1>6, <1>7, <1>8, <1>9, <1>10, <1>11, <1>12, <1>13, <1>14,
     <1>15, <1>16, <1>17, <1>18, <1>19, <1>20, <1>21, <1>22
     DEF Enroll!Next, Enroll!Device, Enroll!Environment, Enroll!Operator

LEMMA EnrollTypeInit == Enroll!Init => EnrollTyped
<1>1. 0 \in 0..Enroll!MaxMint /\ 0 \in 0..MaxSerial /\ 0 \in 0..MaxMishaps
  BY CertAssumption DEF Enroll!MaxMint
<1> SUFFICES ASSUME Enroll!Init PROVE EnrollTyped
  OBVIOUS
<1>2. IdentTyped
  <2>1. [sk |-> 0, pk |-> 0, id |-> FALSE] \in [sk : 0..Enroll!MaxMint, pk : 0..Enroll!MaxMint, id : BOOLEAN]
    BY <1>1
  <2>2. QED
    BY <1>1, <2>1 DEF Enroll!Init, Enroll!Blank, Enroll!None, IdentTyped
<1>3. StepTyped /\ LinkTyped
  BY DEF Enroll!Init, Enroll!None, StepTyped, EnrollSteps, LinkTyped
<1>4. JobTyped
  BY SerialFacts DEF Enroll!Init, JobTyped
<1>5. StoreTyped
  BY DEF Enroll!Init, Enroll!None, StoreTyped, Halves
<1>6. AppTyped
  BY <1>1 DEF Enroll!Init, Enroll!None, AppTyped, Apps
<1>7. QED
  BY <1>2, <1>3, <1>4, <1>5, <1>6 DEF EnrollTyped
-----------------------------------------------------------------------------
(* Types.                                                                     *)

LEMMA SceneConfigs == SceneSpec => Spec
<1>1. SceneInit => Init
  BY DEF SceneInit
<1>2. [SceneNext]_allVars => [Next]_vars
  BY DEF SceneNext, allVars, vars
<1>3. QED
  BY <1>1, <1>2, PTL DEF SceneSpec, Spec

LEMMA EnrollAlways == SceneSpec => []EnrollTyped
<1>1. Enroll!Spec => []EnrollTyped
  BY EnrollTypeInit, EnrollTypeNext, PTL DEF Enroll!Spec
<1>2. QED
  BY <1>1, SceneEnrolls, PTL

\* Every machine keeps within its types in the scenes that move it: no table
\* index, counter, stack or body leaves its range in ConfigStore, WebAdmin,
\* FileUpload, Enrollment and ScriptEngine.
THEOREM TypesAreCorrect == SceneSpec => []TypesOK
<1>1. SceneSpec => []TypeOK
  BY SceneConfigs, TypeCorrect, PTL
<1>2. SceneSpec => []UploadInv
  BY UploadInit, UploadNext, SceneUploads, PTL DEF Uploads!Spec
<1>3. SceneSpec => []ScriptInv
  <2>1. Scripts!Init => ScriptInv
    BY BootIsSound DEF Scripts!Init, Boots
  <2>2. QED
    BY <2>1, ScriptNext, SceneScripts, PTL DEF Scripts!Spec
<1>4. TypeOK /\ WebScenes /\ UploadInv /\ ScriptInv /\ EnrollTyped => TypesOK
  BY TablesAre, WebTyped, EnrollTypedIs DEF WebScenes, UploadInv, ScriptInv, TypesOK
<1>5. QED
  BY <1>1, <1>2, <1>3, <1>4, WebAlways, EnrollAlways, PTL
=============================================================================
