--------------------------- MODULE OtaUpdateProofs --------------------------
(***************************************************************************)
(* The download and the fled day, for every image, chunk and manifest,     *)
(* every clock, and however long both go on: flash holds the image in      *)
(* order and only a whole one is staged, and the age of a fled release is  *)
(* the time the unit was up.                                               *)
(***************************************************************************)
EXTENDS MCOtaUpdate, SequenceTheorems, TLAPS

-----------------------------------------------------------------------------
(* OtaPull.                                                                   *)

\* The range loop never asks past the end of its chunk, and always has a try
\* left when it asks.
RangeSane ==
  at \in {"chunk", "range"} =>
    /\ range.offset + range.got <= range.end + 1
    /\ range.offset + range.got <= Size
    /\ at = "chunk" => range.tries < ChunkTries /\ range.got = 0

PullInv ==
  /\ Pulling!TypeOK
  /\ RangeSane
  /\ Pulling!PullSound

RangeType == [offset : 0..Size, end : Nat, tries : 0..ChunkTries,
              status : Pulling!Statuses, got : 0..Size]
GetType == [what : {"none", "manifest", "binary"}, scheme : {"https", "http"},
            via : {"wifi", "cell"}, hops : 0..MaxHops]

LEMMA RestTypes ==
  /\ Pulling!NoGet \in GetType /\ Pulling!NoRange \in RangeType
  /\ Pulling!NoRun \in [force : BOOLEAN, asked : BOOLEAN]
BY PullAssumption
   DEF Pulling!NoGet, Pulling!NoRange, Pulling!NoRun, GetType, RangeType, Pulling!Statuses

\* What a prefix of the image is, and how one grows.
LEMMA Prefix ==
  ASSUME NEW n \in 0..Size
  PROVE  /\ SubSeq(Pulling!Image, 1, n) \in Seq(0..Size)
         /\ Len(SubSeq(Pulling!Image, 1, n)) = n
         /\ \A i \in 1..n : SubSeq(Pulling!Image, 1, n)[i] = i
<1>1. n \in Int /\ 1 \in Int /\ \A i \in 1..n : i \in 1..Size /\ Pulling!Image[i] = i
  BY PullAssumption DEF Pulling!Image
<1>2. \A i \in 1..n : Pulling!Image[i] \in 0..Size
  BY <1>1, PullAssumption
<1> HIDE DEF Pulling!Image
<1>3. /\ SubSeq(Pulling!Image, 1, n) \in Seq(0..Size)
      /\ Len(SubSeq(Pulling!Image, 1, n)) = IF 1 <= n THEN n - 1 + 1 ELSE 0
      /\ \A i \in 1..(n - 1 + 1) : SubSeq(Pulling!Image, 1, n)[i] = Pulling!Image[1 + i - 1]
  BY <1>1, <1>2, SubSeqProperties
<1>4. n - 1 + 1 = n /\ (IF 1 <= n THEN n - 1 + 1 ELSE 0) = n
  BY PullAssumption
<1>5. \A i \in 1..n : 1 + i - 1 = i
  BY PullAssumption
<1>6. QED
  BY <1>1, <1>3, <1>4, <1>5

LEMMA PrefixGrows ==
  ASSUME NEW n \in 0..Size, NEW k \in Nat, n + k <= Size
  PROVE  SubSeq(Pulling!Image, 1, n) \o SubSeq(Pulling!Image, n + 1, n + k)
           = SubSeq(Pulling!Image, 1, n + k)
<1> DEFINE first == SubSeq(Pulling!Image, 1, n)
           more  == SubSeq(Pulling!Image, n + 1, n + k)
           both  == SubSeq(Pulling!Image, 1, n + k)
<1>1. /\ n \in Nat /\ n + k \in 0..Size /\ n + 1 \in Int /\ n + k \in Int
      /\ \A i \in (n + 1)..(n + k) : i \in 1..Size /\ Pulling!Image[i] = i
  BY PullAssumption DEF Pulling!Image
<1>2. \A i \in (n + 1)..(n + k) : Pulling!Image[i] \in 0..Size
  BY <1>1, PullAssumption
<1>3. first \in Seq(0..Size) /\ Len(first) = n /\ \A i \in 1..n : first[i] = i
  BY Prefix
<1>4. both \in Seq(0..Size) /\ Len(both) = n + k /\ \A i \in 1..(n + k) : both[i] = i
  BY <1>1, Prefix
<1>5. /\ more \in Seq(0..Size) /\ Len(more) = k
      /\ \A i \in 1..k : more[i] = n + i
  <2> HIDE DEF Pulling!Image
  <2>1. /\ more \in Seq(0..Size)
        /\ Len(more) = IF n + 1 <= n + k THEN (n + k) - (n + 1) + 1 ELSE 0
        /\ \A i \in 1..((n + k) - (n + 1) + 1) : more[i] = Pulling!Image[(n + 1) + i - 1]
    BY <1>1, <1>2, SubSeqProperties
  <2>2. /\ (n + k) - (n + 1) + 1 = k
        /\ (IF n + 1 <= n + k THEN (n + k) - (n + 1) + 1 ELSE 0) = k
    BY <1>1
  <2>3. \A i \in 1..k : (n + 1) + i - 1 = n + i /\ n + i \in (n + 1)..(n + k)
    BY <1>1
  <2> HIDE DEF more
  <2>4. QED
    BY <1>1, <2>1, <2>2, <2>3
<1> HIDE DEF first, more, both
<1>6. /\ first \o more \in Seq(0..Size) /\ Len(first \o more) = n + k
      /\ \A i \in 1..(n + k) : (first \o more)[i] = IF i <= n THEN first[i] ELSE more[i - n]
  <2>1. /\ first \o more \in Seq(0..Size) /\ Len(first \o more) = Len(first) + Len(more)
        /\ \A i \in 1..(Len(first) + Len(more)) :
             (first \o more)[i] = IF i <= Len(first) THEN first[i] ELSE more[i - Len(first)]
    BY <1>3, <1>5, ConcatProperties
  <2>2. Len(first) = n /\ Len(more) = k
    BY <1>3, <1>5
  <2>3. QED
    BY <2>1, <2>2
<1>7. \A i \in 1..(n + k) : (first \o more)[i] = both[i]
  <2> SUFFICES ASSUME NEW i \in 1..(n + k) PROVE (first \o more)[i] = both[i]
    OBVIOUS
  <2>1. CASE i <= n
    <3>1. i \in 1..n
      BY <1>1, <2>1
    <3>2. QED
      BY <1>3, <1>4, <1>6, <2>1, <3>1
  <2>2. CASE i > n
    <3>1. i - n \in 1..k /\ n + (i - n) = i /\ ~(i <= n)
      BY <1>1, <2>2
    <3>2. more[i - n] = i
      BY <1>5, <3>1
    <3>3. QED
      BY <1>4, <1>6, <3>1, <3>2
  <2>3. i <= n \/ i > n
    BY <1>1
  <2>4. QED
    BY <2>1, <2>2, <2>3
<1>8. first \o more = both
  BY <1>4, <1>6, <1>7, SeqEqual
<1>9. QED
  BY <1>8 DEF first, more, both

LEMMA PullInit == Pulling!Init => PullInv
<1> SUFFICES ASSUME Pulling!Init PROVE PullInv
  OBVIOUS
<1>1. /\ at = "idle" /\ image = <<>> /\ image \in Seq(0..Size) /\ Len(image) = 0
      /\ requested = FALSE /\ forced = FALSE /\ owed = FALSE /\ wanted = FALSE
  BY DEF Pulling!Init
<1>2. Pulling!TypeOK
  <2>1. /\ wifi \in BOOLEAN /\ cell \in BOOLEAN /\ due \in BOOLEAN /\ pending = "config"
        /\ run \in [force : BOOLEAN, asked : BOOLEAN] /\ get \in GetType
        /\ man = Pulling!NoMan /\ range \in RangeType /\ writeOk \in BOOLEAN
    BY RestTypes DEF Pulling!Init
  <2>2. 0 <= Size + 1
    BY PullAssumption
  <2>3. QED
    BY <1>1, <2>1, <2>2 DEF Pulling!TypeOK, RangeType, GetType
<1>3. QED
  BY <1>1, <1>2
     DEF PullInv, RangeSane, Pulling!PullSound, Pulling!FlashInOrder, Pulling!SchemeKept,
         Pulling!AskedIsKept, Pulling!StagedWhole

\* A check that ends, or the restart into a staged image, leaves nothing behind.
LEMMA FinishKeeps ==
  ASSUME PullInv, Pulling!Finish,
         wifi' \in BOOLEAN, cell' \in BOOLEAN, requested' \in BOOLEAN, forced' \in BOOLEAN,
         owed' \in BOOLEAN, wanted' \in BOOLEAN, due' \in BOOLEAN,
         pending' \in {"config"} \cup Pulling!OverrideUrls,
         owed' => requested', forced' => wanted'
  PROVE  PullInv'
<1>1. /\ at' = "idle" /\ image' = <<>> /\ image' \in Seq(0..Size) /\ Len(image') = 0
  BY DEF Pulling!Finish
<1>2. Pulling!TypeOK'
  BY <1>1, RestTypes, PullAssumption
     DEF Pulling!Finish, Pulling!TypeOK, RangeType, GetType
<1>3. QED
  BY <1>1, <1>2
     DEF PullInv, RangeSane, Pulling!PullSound, Pulling!FlashInOrder, Pulling!SchemeKept,
         Pulling!AskedIsKept, Pulling!StagedWhole

LEMMA EndsKeeps ==
  ASSUME PullInv, Pulling!Ends
  PROVE  PullInv'
<1>1. Pulling!TypeOK /\ (owed => requested) /\ (forced => wanted)
  BY DEF PullInv, Pulling!PullSound, Pulling!AskedIsKept
<1>2. QED
  BY <1>1, FinishKeeps DEF Pulling!Ends, Pulling!TypeOK

\* The checks that start.
LEMMA StartsKeeps ==
  ASSUME PullInv, NEW scheme \in {"https", "http"}, NEW force \in BOOLEAN,
         NEW asked \in BOOLEAN, Pulling!Starts(scheme, force, asked),
         UNCHANGED <<wifi, cell>>, requested' \in BOOLEAN, forced' \in BOOLEAN,
         owed' \in BOOLEAN, wanted' \in BOOLEAN, due' \in BOOLEAN,
         pending' \in {"config"} \cup Pulling!OverrideUrls,
         owed' => requested', forced' => wanted'
  PROVE  PullInv'
<1>1. /\ at' = "get" /\ run' = [force |-> force, asked |-> asked]
      /\ get' = [what |-> "manifest", scheme |-> scheme, via |-> Pulling!Via, hops |-> 0]
      /\ scheme = "https" \/ Insecure
      /\ UNCHANGED <<man, image, writeOk, range>>
  BY DEF Pulling!Starts, Pulling!Get, Pulling!UrlAllowed, Pulling!loadVars
<1>2. get' \in GetType /\ get'.scheme = scheme
  BY <1>1, PullAssumption DEF Pulling!Via, GetType
<1>3. Pulling!TypeOK'
  BY <1>1, <1>2 DEF PullInv, Pulling!TypeOK, GetType
<1>4. QED
  BY <1>1, <1>2, <1>3
     DEF PullInv, RangeSane, Pulling!PullSound, Pulling!FlashInOrder, Pulling!SchemeKept,
         Pulling!AskedIsKept, Pulling!StagedWhole

LEMMA ZeroInRange == 0 \in 0..Size /\ 0 \in 0..ChunkTries
BY PullAssumption

\* The end of a range response: what it took is kept, nothing is asked twice.
LEMMA ResponseKeeps ==
  ASSUME Pulling!TypeOK, NEW got \in Nat, Pulling!ResponseOver(got),
         range.offset + got <= range.end + 1, range.offset + got <= Size
  PROVE  /\ at' \in {"chunk", "verify"} /\ range' \in RangeType
         /\ range'.offset = range.offset + got /\ range'.got = 0
         /\ at' = "chunk" => /\ range'.offset <= range'.end + 1
                            /\ range'.tries < ChunkTries
<1>1. /\ range.offset \in Nat /\ range.end \in Nat /\ range \in RangeType
      /\ range.tries \in 0..ChunkTries /\ man.size \in Nat
  BY PullAssumption DEF Pulling!TypeOK, RangeType, Pulling!NoMan
<1> DEFINE to == range.offset + got
<1>2. to \in 0..Size /\ to <= range.end + 1
  BY <1>1, PullAssumption
<1> HIDE DEF to
<1>3. CASE to > range.end
  <2>1. to = range.end + 1 /\ range.end + 1 \in 0..Size
    BY <1>1, <1>2, <1>3, PullAssumption
  <2>2. CASE range.end + 1 >= man.size
    <3>1. at' = "verify" /\ range' = [range EXCEPT !.offset = range.end + 1, !.got = 0]
      BY <1>3, <2>2 DEF Pulling!ResponseOver, Pulling!Resumed, to
    <3>2. range' \in RangeType /\ range'.offset = range.end + 1 /\ range'.got = 0
      BY <1>1, <2>1, <3>1, ZeroInRange DEF RangeType
    <3>3. QED
      BY <2>1, <3>1, <3>2 DEF to
  <2>3. CASE ~(range.end + 1 >= man.size)
    <3> DEFINE stop == Pulling!Least(range.end + 1 + Chunk, man.size) - 1
    <3>1. stop \in Nat /\ range.end + 1 <= stop
      BY <1>1, <2>3, PullAssumption DEF Pulling!Least
    <3>2. /\ at' = "chunk"
          /\ range' = [Pulling!NoRange EXCEPT !.offset = range.end + 1, !.end = stop]
      BY <1>3, <2>3 DEF Pulling!ResponseOver, Pulling!Resumed, to
    <3> HIDE DEF stop
    <3>3. /\ range' \in RangeType /\ range'.offset = range.end + 1 /\ range'.got = 0
          /\ range'.end = stop /\ range'.tries = 0
      BY <2>1, <3>1, <3>2, ZeroInRange DEF RangeType, Pulling!NoRange, Pulling!Statuses
    <3>4. QED
      BY <1>1, <2>1, <3>1, <3>2, <3>3, PullAssumption DEF to
  <2>4. QED
    BY <2>2, <2>3
<1>4. CASE ~(to > range.end)
  <2>1. /\ range' = [range EXCEPT !.offset = to, !.got = 0]
        /\ at' = "verify" \/ (at' = "chunk" /\ range.tries # ChunkTries)
    BY <1>4 DEF Pulling!ResponseOver, Pulling!Resumed, to
  <2>2. /\ range' \in RangeType /\ range'.offset = to /\ range'.got = 0
        /\ range'.end = range.end /\ range'.tries = range.tries
    BY <1>1, <1>2, <2>1, ZeroInRange DEF RangeType
  <2>3. range.tries # ChunkTries => range.tries < ChunkTries
    BY <1>1, PullAssumption
  <2>4. QED
    BY <1>2, <2>1, <2>2, <2>3 DEF to
<1>5. QED
  BY <1>3, <1>4

\* Bytes of a range response reach flash in order.
LEMMA RangeBytesKeeps ==
  ASSUME PullInv, NEW n \in 1..Size, Pulling!RangeBytes(n)
  PROVE  PullInv'
<1> USE DEF PullInv
<1> DEFINE done == range.offset + range.got
           room == range.end + 1 - done
           k    == Pulling!Least(n, room)
           from == (IF range.status = 206 THEN range.offset ELSE 0) + range.got
<1>1. /\ range.offset \in Nat /\ range.got \in Nat /\ range.end \in Nat
      /\ range \in RangeType /\ n \in Nat /\ Size \in Nat
      /\ image \in Seq(0..Size) /\ Len(image) <= Size + 1
  BY PullAssumption DEF Pulling!TypeOK, RangeType
<1>2. /\ at = "range" /\ from + n <= Size
      /\ UNCHANGED <<wifi, cell, requested, forced, pending, owed, wanted, due, run, get, man>>
  BY DEF Pulling!RangeBytes, Pulling!askVars
<1>3. done <= range.end + 1 /\ done <= Size /\ done \in 0..Size
  BY <1>1, <1>2 DEF RangeSane
<1>4. k \in Nat /\ k <= n /\ done + k <= range.end + 1
  BY <1>1, <1>3 DEF Pulling!Least
<1> HIDE DEF k
<1>5. ASSUME NEW got \in Nat, Pulling!ResponseOver(got), got = range.got \/ got = range.got + k,
             range.offset + got <= Size,
             image' \in Seq(0..Size), Len(image') <= Size + 1, writeOk' \in BOOLEAN,
             writeOk' => image' = SubSeq(Pulling!Image, 1, range.offset + got)
      PROVE  PullInv'
  <2>1. range.offset + got <= range.end + 1
    BY <1>1, <1>3, <1>4, <1>5
  <2>2. /\ at' \in {"chunk", "verify"} /\ range' \in RangeType
        /\ range'.offset = range.offset + got /\ range'.got = 0
        /\ at' = "chunk" => /\ range'.offset <= range'.end + 1
                           /\ range'.tries < ChunkTries
    BY <1>5, <2>1, ResponseKeeps
  <2>3. Pulling!TypeOK'
    BY <1>2, <1>5, <2>2 DEF Pulling!TypeOK, RangeType
  <2>4. range'.offset + range'.got = range.offset + got
    BY <1>1, <1>5, <2>2
  <2>5. RangeSane'
    BY <1>1, <1>5, <2>2, <2>4 DEF RangeSane
  <2>6. Pulling!FlashInOrder'
    BY <1>5, <2>4 DEF Pulling!FlashInOrder
  <2>7. QED
    BY <1>2, <2>2, <2>3, <2>5, <2>6
       DEF Pulling!PullSound, Pulling!SchemeKept, Pulling!AskedIsKept, Pulling!StagedWhole
<1>6. writeOk => image = SubSeq(Pulling!Image, 1, done)
  BY <1>2 DEF Pulling!PullSound, Pulling!FlashInOrder
<1>7. CASE Pulling!ResponseOver(range.got) /\ UNCHANGED image /\ writeOk' \in {writeOk, FALSE}
  <2>1. PICK got \in Nat : got = range.got
    BY <1>1
  <2>2. Pulling!ResponseOver(got)
    BY <1>7, <2>1 DEF Pulling!ResponseOver, Pulling!Resumed
  <2>3. range.offset + got = done
    BY <2>1
  <2>4. writeOk' => writeOk
    BY <1>7
  <2>5. writeOk' \in BOOLEAN
    BY <1>7 DEF Pulling!TypeOK
  <2> HIDE DEF done
  <2>6. QED
    BY <1>1, <1>3, <1>5, <1>6, <1>7, <2>1, <2>2, <2>3, <2>4, <2>5
<1>8. CASE /\ Pulling!Takes /\ writeOk /\ writeOk' = writeOk
           /\ image' = image \o SubSeq(Pulling!Image, from + 1, from + k)
           /\ \/ Pulling!ResponseOver(range.got + k)
              \/ range' = [range EXCEPT !.got = @ + k] /\ at' = at
  <2>1. from = done
    <3>1. range.status = 206 \/ range.offset = 0
      BY <1>8 DEF Pulling!Takes, Pulling!Whole
    <3>2. QED
      BY <1>1, <3>1
  <2>2. done + k \in 0..Size /\ done + k <= range.end + 1
    <3>1. done + n <= Size
      BY <1>2, <2>1
    <3> HIDE DEF done
    <3>2. QED
      BY <1>1, <1>3, <1>4, <3>1
  <2>3. image' = SubSeq(Pulling!Image, 1, done + k)
    <3> HIDE DEF done, k, from
    <3>1. done + k <= Size
      BY <2>2
    <3>2. QED
      BY <1>3, <1>4, <1>6, <1>8, <2>1, <3>1, PrefixGrows
  <2>4. image' \in Seq(0..Size) /\ Len(image') <= Size + 1
    <3> HIDE DEF done, k
    <3>1. Len(image') = done + k /\ image' \in Seq(0..Size)
      BY <2>2, <2>3, Prefix
    <3>2. QED
      BY <1>1, <2>2, <3>1
  <2>5. range.offset + (range.got + k) = done + k /\ range.got + k \in Nat
    BY <1>1, <1>4
  <2>6. CASE Pulling!ResponseOver(range.got + k)
    <3>1. PICK got \in Nat : got = range.got + k
      BY <2>5
    <3>2. Pulling!ResponseOver(got)
      BY <2>6, <3>1 DEF Pulling!ResponseOver, Pulling!Resumed
    <3>3. range.offset + got = done + k /\ done + k <= Size
      BY <2>2, <2>5, <3>1
    <3>4. writeOk' \in BOOLEAN
      BY <1>8
    <3> HIDE DEF done
    <3>5. QED
      BY <1>5, <2>3, <2>4, <3>1, <3>2, <3>3, <3>4
  <2>7. CASE range' = [range EXCEPT !.got = @ + k] /\ at' = at
    <3>1. range.got + k \in 0..Size
      BY <1>1, <1>4, <2>2, <2>5
    <3> HIDE DEF k, done
    <3>2. /\ range' \in RangeType /\ range'.got = range.got + k
          /\ range'.offset = range.offset /\ range'.end = range.end
      BY <1>1, <2>7, <3>1 DEF RangeType
    <3>3. Pulling!TypeOK'
      BY <1>2, <1>8, <2>4, <2>7, <3>2 DEF Pulling!TypeOK, RangeType
    <3>4. range'.offset + range'.got = done + k
      BY <2>5, <3>2
    <3>5. RangeSane'
      BY <1>2, <2>2, <2>7, <3>2, <3>4, <1>1 DEF RangeSane
    <3>6. Pulling!FlashInOrder'
      BY <2>3, <3>4 DEF Pulling!FlashInOrder
    <3>7. QED
      BY <1>2, <2>7, <3>3, <3>5, <3>6
         DEF Pulling!PullSound, Pulling!SchemeKept, Pulling!AskedIsKept, Pulling!StagedWhole
  <2>8. QED
    BY <1>8, <2>6, <2>7
<1>9. CASE ~Pulling!Takes \/ ~writeOk
  BY <1>7, <1>9 DEF Pulling!RangeBytes
<1>10. CASE Pulling!Takes /\ writeOk
  BY <1>7, <1>8, <1>10 DEF Pulling!RangeBytes, k
<1>11. QED
  BY <1>9, <1>10

\* A manifest worth a download starts one, empty handed.
LEMMA ManifestReadKeeps ==
  ASSUME PullInv, NEW m \in Manifests, Pulling!ManifestRead(m)
  PROVE  PullInv'
<1> USE DEF PullInv
<1>1. /\ m.size \in Nat /\ m.scheme \in {"https", "http"}
      /\ m.scheme = "https" \/ Insecure
  BY PullAssumption DEF Pulling!ManifestRead, Pulling!Downloads, Pulling!UrlAllowed
<1>2. /\ man' = m /\ image' = <<>> /\ writeOk' = TRUE
      /\ UNCHANGED <<wifi, cell, requested, forced, pending, owed, wanted, due, run>>
  BY DEF Pulling!ManifestRead, Pulling!askVars
<1>3. image' \in Seq(0..Size) /\ Len(image') <= Size + 1
  BY <1>2, PullAssumption
<1>4. CASE ~wifi /\ m.size > 0
  <2> DEFINE stop == Pulling!Least(Chunk, m.size) - 1
  <2>1. /\ at' = "chunk" /\ get' = [Pulling!NoGet EXCEPT !.what = "binary", !.via = "cell"]
        /\ range' = [Pulling!NoRange EXCEPT !.end = stop]
    BY <1>4 DEF Pulling!ManifestRead
  <2>2. stop \in Nat
    BY <1>1, <1>4, PullAssumption DEF Pulling!Least
  <2> HIDE DEF stop
  <2>3. /\ range' \in RangeType /\ range'.offset = 0 /\ range'.got = 0
        /\ range'.end = stop /\ range'.tries = 0
    BY <2>1, <2>2, ZeroInRange DEF RangeType, Pulling!NoRange, Pulling!Statuses
  <2>4. get' \in GetType
    BY <2>1, RestTypes DEF GetType
  <2>5. Pulling!TypeOK'
    BY <1>2, <1>3, <2>1, <2>3, <2>4 DEF Pulling!TypeOK, RangeType, GetType
  <2>6. RangeSane'
    BY <2>2, <2>3, PullAssumption DEF RangeSane
  <2>7. image' = SubSeq(Pulling!Image, 1, 0)
    BY <1>2, Prefix, ZeroInRange
  <2>8. Pulling!FlashInOrder'
    BY <2>3, <2>7 DEF Pulling!FlashInOrder
  <2>9. QED
    BY <1>2, <2>1, <2>5, <2>6, <2>8
       DEF Pulling!PullSound, Pulling!SchemeKept, Pulling!AskedIsKept, Pulling!StagedWhole
<1>5. CASE ~(~wifi /\ m.size > 0)
  <2>1. /\ at' = "get" /\ UNCHANGED range
        /\ get' = [what |-> "binary", scheme |-> m.scheme, via |-> Pulling!Via, hops |-> 0]
    BY <1>5 DEF Pulling!ManifestRead, Pulling!Get
  <2>2. get' \in GetType /\ get'.scheme = m.scheme
    BY <1>1, <2>1, PullAssumption DEF GetType, Pulling!Via
  <2>3. Pulling!TypeOK'
    BY <1>2, <1>3, <2>1, <2>2 DEF Pulling!TypeOK, GetType
  <2>4. QED
    BY <1>1, <1>2, <2>1, <2>2, <2>3
       DEF RangeSane, Pulling!PullSound, Pulling!FlashInOrder, Pulling!SchemeKept,
           Pulling!AskedIsKept, Pulling!StagedWhole
<1>6. QED
  BY <1>4, <1>5

\* The body of a plain GET: any byte may come, and is judged by the digest.
LEMMA BodyByteKeeps ==
  ASSUME PullInv, Pulling!BodyByte
  PROVE  PullInv'
<1> USE DEF PullInv
<1>1. /\ at = "body" /\ Len(image) <= Size /\ image \in Seq(0..Size)
      /\ UNCHANGED <<wifi, cell, requested, forced, pending, owed, wanted, due, run, get,
                     man, range>>
  BY DEF Pulling!BodyByte, Pulling!askVars, Pulling!TypeOK
<1>2. /\ at' \in {"body", "verify"} /\ writeOk' \in BOOLEAN
      /\ image' = image \/ \E b \in Pulling!NextBytes : image' = Append(image, b)
  BY DEF Pulling!BodyByte, Pulling!TypeOK
<1>3. Pulling!NextBytes \subseteq 0..Size
  BY PullAssumption DEF Pulling!NextBytes
<1>4. image' \in Seq(0..Size) /\ Len(image') <= Size + 1
  <2>1. CASE image' = image
    BY <1>1, <2>1 DEF Pulling!TypeOK
  <2>2. ASSUME NEW b \in Pulling!NextBytes, image' = Append(image, b)
        PROVE  image' \in Seq(0..Size) /\ Len(image') <= Size + 1
    <3>1. b \in 0..Size
      BY <1>3
    <3>2. image' \in Seq(0..Size) /\ Len(image') = Len(image) + 1
      BY <1>1, <2>2, <3>1, AppendProperties
    <3>3. QED
      BY <1>1, <3>2, PullAssumption
  <2>3. QED
    BY <1>2, <2>1, <2>2
<1>5. Pulling!TypeOK'
  BY <1>1, <1>2, <1>4 DEF Pulling!TypeOK
<1>6. QED
  BY <1>1, <1>2, <1>5
     DEF RangeSane, Pulling!PullSound, Pulling!FlashInOrder, Pulling!SchemeKept,
         Pulling!AskedIsKept, Pulling!StagedWhole

LEMMA PullNext == PullInv /\ [Pulling!Next]_(Pulling!vars) => PullInv'
<1> SUFFICES ASSUME PullInv, [Pulling!Next]_(Pulling!vars) PROVE PullInv'
  OBVIOUS
<1> USE DEF PullInv
<1>t. Pulling!TypeOK /\ Pulling!AskedIsKept
  BY DEF Pulling!PullSound
<1>1. ASSUME NEW url \in {"config"} \cup Pulling!OverrideUrls, NEW force \in BOOLEAN,
             Pulling!Trigger(url, force)
      PROVE  PullInv'
  BY <1>1
     DEF Pulling!Trigger, Pulling!loadVars, Pulling!TypeOK, RangeSane, Pulling!PullSound,
         Pulling!FlashInOrder, Pulling!SchemeKept, Pulling!AskedIsKept, Pulling!StagedWhole
<1>2. CASE Pulling!CmdTopic \/ Pulling!IntervalPasses \/ Pulling!LinkChanges
  <2>1. /\ UNCHANGED <<forced, wanted, at, run, get, man, image, writeOk, range>>
        /\ wifi' \in BOOLEAN /\ cell' \in BOOLEAN /\ due' \in BOOLEAN
        /\ (requested' = TRUE /\ owed' = TRUE /\ pending' = "config")
             \/ UNCHANGED <<requested, owed, pending>>
    BY <1>2, <1>t
       DEF Pulling!CmdTopic, Pulling!IntervalPasses, Pulling!LinkChanges, Pulling!askVars,
           Pulling!loadVars, Pulling!TypeOK
  <2>2. Pulling!TypeOK'
    <3>1. /\ requested' \in BOOLEAN /\ owed' \in BOOLEAN
          /\ pending' \in {"config"} \cup Pulling!OverrideUrls
      BY <1>t, <2>1 DEF Pulling!TypeOK
    <3>2. UNCHANGED <<forced, wanted, at, run, get, man, image, writeOk, range>>
      BY <2>1
    <3>3. QED
      BY <1>t, <2>1, <3>1, <3>2 DEF Pulling!TypeOK
  <2>3. Pulling!AskedIsKept'
    BY <1>t, <2>1 DEF Pulling!AskedIsKept
  <2>4. QED
    BY <2>1, <2>2, <2>3
       DEF RangeSane, Pulling!PullSound, Pulling!FlashInOrder, Pulling!SchemeKept,
           Pulling!StagedWhole
<1>3. CASE Pulling!TakeTrigger
  <2>1. /\ requested' = FALSE /\ forced' = FALSE /\ owed' = FALSE /\ wanted' = FALSE
        /\ UNCHANGED <<wifi, cell, due>> /\ wifi \in BOOLEAN /\ cell \in BOOLEAN
        /\ due \in BOOLEAN /\ forced \in BOOLEAN
        /\ pending \in {"config"} \cup Pulling!OverrideUrls
        /\ Pulling!Scheme(pending) \in {"https", "http"}
    BY <1>3, <1>t
       DEF Pulling!TakeTrigger, Pulling!TypeOK, Pulling!Scheme, Pulling!OverrideUrls
  <2>2. CASE Pulling!Starts(Pulling!Scheme(pending), forced, TRUE) /\ UNCHANGED pending
    <3>1. PICK scheme \in {"https", "http"}, force \in BOOLEAN :
            scheme = Pulling!Scheme(pending) /\ force = forced
      BY <2>1
    <3>2. Pulling!Starts(scheme, force, TRUE)
      BY <2>2, <3>1 DEF Pulling!Starts, Pulling!Get
    <3>3. QED
      BY <2>1, <2>2, <3>2, StartsKeeps
  <2>3. CASE Pulling!Finish /\ pending' = "config"
    BY <2>1, <2>3, FinishKeeps
  <2>4. QED
    BY <1>3, <2>2, <2>3 DEF Pulling!TakeTrigger
<1>4. CASE Pulling!Periodic
  <2>1. /\ UNCHANGED <<wifi, cell, requested, forced, pending, owed, wanted>>
        /\ due' \in BOOLEAN /\ (owed => requested) /\ (forced => wanted)
        /\ Pulling!Starts("https", FALSE, FALSE) \/ Pulling!Finish
    BY <1>4, <1>t DEF Pulling!Periodic, Pulling!askVars, Pulling!AskedIsKept
  <2>2. QED
    BY <1>t, <2>1, StartsKeeps, FinishKeeps DEF Pulling!TypeOK
<1>5. ASSUME NEW to \in {"https", "http", "relative"}, Pulling!Redirect(to)
      PROVE  PullInv'
  <2>1. CASE Pulling!Ends
    BY <2>1, EndsKeeps
  <2>2. CASE /\ to = get.scheme /\ get.hops < MaxHops /\ at = "get"
             /\ get' = [get EXCEPT !.scheme = to, !.hops = @ + 1]
             /\ UNCHANGED <<wifi, cell, requested, forced, pending, owed, wanted, due, at,
                            run, man, image, writeOk, range>>
    <3>1. get \in GetType
      BY <1>t DEF Pulling!TypeOK, GetType
    <3>2. get.hops + 1 \in 0..MaxHops /\ get.scheme \in {"https", "http"}
      BY <2>2, <3>1, PullAssumption DEF GetType
    <3>3. get' \in GetType /\ get'.scheme = get.scheme /\ get'.via = get.via
      BY <2>2, <3>1, <3>2 DEF GetType
    <3>4. Pulling!TypeOK'
      BY <1>t, <2>2, <3>3 DEF Pulling!TypeOK, GetType
    <3>5. QED
      BY <2>2, <3>3, <3>4
         DEF RangeSane, Pulling!PullSound, Pulling!FlashInOrder, Pulling!SchemeKept,
             Pulling!AskedIsKept, Pulling!StagedWhole
  <2>3. QED
    BY <1>5, <2>1, <2>2
       DEF Pulling!Redirect, Pulling!RedirectAllowed, Pulling!askVars, Pulling!loadVars
<1>6. CASE Pulling!Answered \/ Pulling!BodyEnds
  <2>1. /\ UNCHANGED <<wifi, cell, requested, forced, pending, owed, wanted, due, run, get,
                       man, image, writeOk, range>>
        /\ (at = "get" /\ at' = "body") \/ at' = "verify"
    BY <1>6 DEF Pulling!Answered, Pulling!BodyEnds, Pulling!askVars, Pulling!loadVars
  <2>2. QED
    BY <2>1
       DEF Pulling!TypeOK, RangeSane, Pulling!PullSound, Pulling!FlashInOrder,
           Pulling!SchemeKept, Pulling!AskedIsKept, Pulling!StagedWhole
<1>7. ASSUME NEW m \in Manifests, Pulling!ManifestRead(m) PROVE PullInv'
  BY <1>7, ManifestReadKeeps
<1>8. CASE Pulling!BodyByte
  BY <1>8, BodyByteKeeps
<1>9. ASSUME NEW status \in Pulling!Statuses, Pulling!RangeRequest(status) PROVE PullInv'
  <2>1. /\ at = "chunk" /\ at' = "range"
        /\ range' = [range EXCEPT !.tries = @ + 1, !.status = status, !.got = 0]
        /\ UNCHANGED <<wifi, cell, requested, forced, pending, owed, wanted, due, run, get,
                       man, image, writeOk>>
    BY <1>9 DEF Pulling!RangeRequest, Pulling!askVars
  <2>2. range \in RangeType /\ range.got = 0 /\ range.tries + 1 \in 0..ChunkTries
    BY <1>t, <2>1, PullAssumption DEF Pulling!TypeOK, RangeType, RangeSane
  <2>3. /\ range' \in RangeType /\ range'.offset = range.offset
        /\ range'.end = range.end /\ range'.got = range.got
    BY <2>1, <2>2, ZeroInRange DEF RangeType
  <2>4. Pulling!TypeOK'
    BY <1>t, <2>1, <2>3 DEF Pulling!TypeOK, RangeType
  <2>5. QED
    BY <2>1, <2>3, <2>4
       DEF RangeSane, Pulling!PullSound, Pulling!FlashInOrder, Pulling!SchemeKept,
           Pulling!AskedIsKept, Pulling!StagedWhole
<1>10. ASSUME NEW n \in 1..Size, Pulling!RangeBytes(n) PROVE PullInv'
  BY <1>10, RangeBytesKeeps
<1>11. CASE Pulling!RangeEnds
  <2>1. /\ at = "range" /\ Pulling!ResponseOver(range.got)
        /\ UNCHANGED <<wifi, cell, requested, forced, pending, owed, wanted, due, run, get,
                       man, image, writeOk>>
    BY <1>11 DEF Pulling!RangeEnds, Pulling!askVars
  <2>2. PICK got \in Nat : got = range.got
    BY <1>t DEF Pulling!TypeOK
  <2>3. Pulling!ResponseOver(got)
    BY <2>1, <2>2 DEF Pulling!ResponseOver, Pulling!Resumed
  <2>4. range.offset + got <= range.end + 1 /\ range.offset + got <= Size
    BY <2>1, <2>2 DEF RangeSane
  <2>5. /\ at' \in {"chunk", "verify"} /\ range' \in RangeType
        /\ range'.offset = range.offset + got /\ range'.got = 0
        /\ at' = "chunk" => /\ range'.offset <= range'.end + 1
                           /\ range'.tries < ChunkTries
    BY <1>t, <2>3, <2>4, ResponseKeeps
  <2>6. Pulling!TypeOK'
    BY <1>t, <2>1, <2>5 DEF Pulling!TypeOK, RangeType
  <2>7. range'.offset + range'.got = range.offset + range.got /\ range'.offset \in Nat
    BY <1>t, <2>2, <2>5 DEF Pulling!TypeOK, RangeType
  <2>8. RangeSane'
    BY <2>2, <2>4, <2>5, <2>7 DEF RangeSane
  <2>9. Pulling!FlashInOrder'
    BY <2>1, <2>7 DEF Pulling!PullSound, Pulling!FlashInOrder
  <2>10. QED
    BY <2>1, <2>5, <2>6, <2>8, <2>9
       DEF Pulling!PullSound, Pulling!SchemeKept, Pulling!AskedIsKept, Pulling!StagedWhole
<1>12. CASE Pulling!Activate
  <2>1. /\ at' = "staged" /\ image = Pulling!Image /\ man.honest
        /\ UNCHANGED <<wifi, cell, requested, forced, pending, owed, wanted, due, run, get,
                       man, image, writeOk, range>>
    BY <1>12 DEF Pulling!Activate, Pulling!Verified, Pulling!askVars, Pulling!loadVars
  <2>2. Pulling!Image' = Pulling!Image
    BY DEF Pulling!Image
  <2>3. Pulling!TypeOK'
    BY <1>t, <2>1 DEF Pulling!TypeOK
  <2>4. QED
    BY <2>1, <2>2, <2>3
       DEF RangeSane, Pulling!PullSound, Pulling!FlashInOrder, Pulling!SchemeKept,
           Pulling!AskedIsKept, Pulling!StagedWhole
<1>13. CASE Pulling!Fails
  BY <1>13, EndsKeeps DEF Pulling!Fails
<1>14. CASE Pulling!InstallRestart
  BY <1>14, <1>t, FinishKeeps DEF Pulling!InstallRestart, Pulling!TypeOK
<1>15. CASE UNCHANGED Pulling!vars
  BY <1>15
     DEF Pulling!vars, Pulling!askVars, Pulling!loadVars, Pulling!TypeOK, RangeSane,
         Pulling!PullSound, Pulling!FlashInOrder, Pulling!SchemeKept, Pulling!AskedIsKept,
         Pulling!StagedWhole
<1>16. QED
  BY <1>1, <1>2, <1>3, <1>4, <1>5, <1>6, <1>7, <1>8, <1>9, <1>10, <1>11, <1>12, <1>13,
     <1>14, <1>15 DEF Pulling!Next

\* The scenes move the download by its own steps only.
LEMMA ScenePulls == SceneSpec => Pulling!Spec
<1>1. SceneInit => Pulling!Init
  BY DEF SceneInit, PullRests
<1>2. [SceneNext]_allVars => [Pulling!Next]_(Pulling!vars)
  <2> SUFFICES ASSUME [SceneNext]_allVars PROVE [Pulling!Next]_(Pulling!vars)
    OBVIOUS
  <2>1. CASE UNCHANGED pullVars
    BY <2>1 DEF pullVars, Pulling!vars, Pulling!askVars, Pulling!loadVars
  <2>2. CASE Pulling!Next
    BY <2>2
  <2>3. QED
    BY <2>1, <2>2 DEF SceneNext, allVars
<1>3. QED
  BY <1>1, <1>2, PTL DEF SceneSpec, Pulling!Spec

\* Whatever breaks off, overruns, is retried or redirected, flash holds the
\* image in order and only the whole image the manifest names is staged; https
\* is kept at every hop; a check asked for during another one is not lost.  For
\* every image and chunk size, number of tries and set of manifests.
THEOREM PullIsSound == SceneSpec => []PullSound
<1>1. PullInv => PullSound
  BY DEF PullInv, PullSound
<1>2. QED
  BY <1>1, PullInit, PullNext, ScenePulls, PTL DEF Pulling!Spec

-----------------------------------------------------------------------------
(* FledSkip.                                                                  *)

\* What a reset would find in RTC memory.
Carried == Skipping!Least(unsaved, 2 * SaveEvery)

\* What the clock may have added by the r-th boot of the day.
Slack(r) == GapMax * r

\* A boot that has not read its record knows nothing yet.
BootSound ==
  /\ ~fled.loaded => fled = Skipping!Off
  /\ turned => fled.loaded
  /\ fled.since <= up

\* RAM and NVS agree on the tries, and on the age unless a save was lost.
KeptInStep ==
  /\ Skipping!Loaded.saved.tries = fledAge.tries
  /\ fledAge.age <= Skipping!Loaded.saved.age
  /\ ~lost => fledAge.age = Skipping!Loaded.saved.age

\* Neither RAM nor what a reset would find runs ahead of the time up by more
\* than the clock of the boots so far.
NotAhead ==
  /\ Skipping!Loaded.saved.age + Skipping!Unsaved
       <= up + Slack(IF Skipping!Loaded.first THEN resets ELSE resets + 1)
  /\ fledAge.age + Carried <= up + Slack(resets + 1)

\* Neither falls behind it, unless something was lost.
NotBehind ==
  ~lost => /\ Skipping!Loaded.saved.age + Skipping!Unsaved >= Skipping!Least(up, Skip)
           /\ turned \/ fled.since = 0 => fledAge.age + Carried >= Skipping!Least(up, Skip)

FledInv ==
  /\ Skipping!TypeOK
  /\ BootSound
  /\ KeptInStep
  /\ NotAhead
  /\ NotBehind
  /\ Skipping!TriesCounted

FledRam == [loaded : BOOLEAN, first : BOOLEAN, saved : Skipping!Saved,
            carry : 0..(2 * SaveEvery), since : 0..MaxUp]

LEMMA SlackGrows ==
  /\ Slack(0) = 0
  /\ \A r \in Nat : Slack(r) \in Nat /\ Slack(r + 1) = Slack(r) + GapMax
BY FledAssumption DEF Slack

LEMMA ZeroUpTo == \A n \in Nat : 0 \in 0..n
OBVIOUS

LEMMA RecordTypes ==
  /\ Skipping!Fresh \in Skipping!Saved /\ Skipping!Off \in FledRam
  /\ Skipping!Off.saved = Skipping!Fresh /\ Skipping!Off.carry = 0 /\ Skipping!Off.since = 0
  /\ Skipping!Off.first = TRUE /\ Skipping!Off.loaded = FALSE
<1>1. 2 * SaveEvery \in Nat
  BY FledAssumption
<1>2. 0 \in 0..Skip /\ 0 \in 0..FledTries /\ 0 \in 0..(2 * SaveEvery) /\ 0 \in 0..MaxUp
  BY <1>1, FledAssumption, ZeroUpTo
<1>3. Skipping!Fresh \in Skipping!Saved
  BY <1>2, FledAssumption DEF Skipping!Fresh, Skipping!Saved
<1>4. QED
  BY <1>2, <1>3 DEF Skipping!Off, FledRam

\* What the next reader of the record works with.
LEMMA LoadedFacts ==
  ASSUME Skipping!TypeOK, BootSound
  PROVE  /\ Skipping!Loaded \in FledRam /\ Skipping!Loaded.loaded
         /\ Carried \in 0..(2 * SaveEvery) /\ Carried <= unsaved
         /\ fled.loaded => Skipping!Loaded = fled
         /\ ~fled.loaded => /\ Skipping!Loaded.saved = fledAge
                            /\ Skipping!Loaded.carry = Carried
                            /\ Skipping!Loaded.since = 0 /\ Skipping!Loaded.first
<1>1. 2 * SaveEvery \in Nat /\ unsaved \in 0..(2 * SaveEvery) /\ fled \in FledRam
      /\ fledAge \in Skipping!Saved
  BY FledAssumption DEF Skipping!TypeOK, FledRam
<1>2. Carried \in 0..(2 * SaveEvery) /\ Carried <= unsaved
  BY <1>1 DEF Carried, Skipping!Least
<1>3. CASE fled.loaded
  BY <1>1, <1>2, <1>3 DEF Skipping!Loaded
<1>4. CASE ~fled.loaded
  <2>1. Skipping!Loaded = [fled EXCEPT !.loaded = TRUE, !.saved = fledAge, !.carry = Carried]
    BY <1>4 DEF Skipping!Loaded, Carried
  <2>2. fled = Skipping!Off
    BY <1>4 DEF BootSound
  <2>3. QED
    BY <1>1, <1>2, <1>4, <2>1, <2>2, RecordTypes DEF FledRam
<1>5. QED
  BY <1>3, <1>4

\* The time up is counted, and the clock adds at most GapMax, in a first save.
LEMMA AgeBounds ==
  ASSUME FledInv, NEW epoch \in Epochs
  PROVE  /\ Skipping!AgeNow(epoch) \in 0..Skip
         /\ Skipping!Loaded.saved.age <= Skipping!AgeNow(epoch)
         /\ Skipping!AgeNow(epoch) <= up + Slack(resets + 1)
         /\ ~lost => Skipping!AgeNow(epoch) >= Skipping!Least(up, Skip)
<1>1. PICK l \in FledRam : l = Skipping!Loaded
  BY LoadedFacts DEF FledInv
<1>2. PICK s \in Nat : s = Slack(IF l.first THEN resets ELSE resets + 1)
  BY SlackGrows DEF FledInv, Skipping!TypeOK
<1>3. /\ l.saved.age \in 0..Skip /\ l.saved.seen \in Nat /\ l.carry \in Nat /\ l.since \in Nat
      /\ l.first \in BOOLEAN /\ up \in Nat /\ resets \in Nat /\ epoch \in Nat
  <2>1. 2 * SaveEvery \in Nat
    BY FledAssumption
  <2>2. l.saved \in Skipping!Saved /\ l.carry \in Nat /\ l.since \in Nat /\ l.first \in BOOLEAN
    BY <2>1, FledAssumption DEF FledRam
  <2>3. l.saved.age \in 0..Skip /\ l.saved.seen \in Nat /\ epoch \in Nat
    BY <2>2, FledAssumption DEF Skipping!Saved
  <2>4. up \in Nat /\ resets \in Nat
    BY FledAssumption DEF FledInv, Skipping!TypeOK
  <2>5. QED
    BY <2>2, <2>3, <2>4
<1>4. /\ l.saved.age + (l.carry + l.since) <= up + s
      /\ ~lost => l.saved.age + (l.carry + l.since) >= Skipping!Least(up, Skip)
  BY <1>1, <1>2 DEF FledInv, NotAhead, NotBehind, Skipping!Unsaved
<1>5. IF l.first THEN Slack(resets + 1) = s + GapMax ELSE Slack(resets + 1) = s
  BY <1>2, <1>3, SlackGrows
<1>6. PICK e \in Nat : e = Skipping!Elapsed(epoch) /\ l.carry + l.since <= e
                      /\ e <= (l.carry + l.since) + (IF l.first THEN GapMax ELSE 0)
  <2>1. Skipping!Elapsed(epoch) =
          IF \/ ~l.first \/ l.saved.seen = 0 \/ epoch <= l.saved.seen
             \/ epoch - l.saved.seen <= l.carry + l.since
          THEN l.carry + l.since
          ELSE (l.carry + l.since)
               + Skipping!Least(epoch - l.saved.seen - (l.carry + l.since), GapMax)
    BY <1>1 DEF Skipping!Elapsed, Skipping!Unsaved
  <2>2. QED
    BY <1>3, <2>1, FledAssumption DEF Skipping!Least
<1>7. Skipping!AgeNow(epoch) = Skipping!Least(l.saved.age + e, Skip)
  BY <1>1, <1>6 DEF Skipping!AgeNow
<1>8. e <= (l.carry + l.since) + (IF l.first THEN GapMax ELSE 0)
  BY <1>6
<1>9. l.saved.age + e <= up + Slack(resets + 1)
  BY <1>3, <1>4, <1>5, <1>8, FledAssumption
<1>10. Slack(resets + 1) \in Nat
  BY <1>3, SlackGrows
<1>11. l.saved.age <= l.saved.age + e /\ l.saved.age + (l.carry + l.since) <= l.saved.age + e
  BY <1>3, <1>6
<1>12. Skipping!AgeNow(epoch) <= l.saved.age + e /\ Skipping!AgeNow(epoch) \in 0..Skip
       /\ l.saved.age <= Skipping!AgeNow(epoch)
  BY <1>3, <1>7, <1>11, FledAssumption DEF Skipping!Least
<1>13. Skipping!AgeNow(epoch) <= up + Slack(resets + 1)
  BY <1>3, <1>9, <1>10, <1>12, FledAssumption
<1>14. ~lost => Skipping!AgeNow(epoch) >= Skipping!Least(up, Skip)
  BY <1>3, <1>4, <1>7, <1>11, FledAssumption DEF Skipping!Least
<1>15. QED
  BY <1>1, <1>12, <1>13, <1>14

\* FledInv after a step that leaves the record read.
LEMMA ReadAfter ==
  ASSUME Skipping!TypeOK', fled'.loaded, fled'.since <= up',
         fled'.saved.tries = fledAge'.tries, installs' = fledAge'.tries,
         fledAge'.age <= fled'.saved.age, ~lost' => fledAge'.age = fled'.saved.age,
         fled'.saved.age + (fled'.carry + fled'.since)
           <= up' + Slack(IF fled'.first THEN resets' ELSE resets' + 1),
         fledAge'.age + Carried' <= up' + Slack(resets' + 1),
         ~lost' => fled'.saved.age + (fled'.carry + fled'.since) >= Skipping!Least(up', Skip),
         ~lost' /\ (turned' \/ fled'.since = 0) =>
           fledAge'.age + Carried' >= Skipping!Least(up', Skip)
  PROVE  FledInv'
<1>1. Skipping!Loaded' = fled'
  BY DEF Skipping!Loaded
<1>2. Skipping!Unsaved' = fled'.carry + fled'.since
  BY <1>1 DEF Skipping!Unsaved
<1>3. BootSound'
  BY DEF BootSound
<1>4. KeptInStep'
  BY <1>1 DEF KeptInStep
<1>5. NotAhead'
  BY <1>1, <1>2 DEF NotAhead, Slack
<1>6. NotBehind'
  BY <1>1, <1>2 DEF NotBehind, Skipping!Least
<1>7. Skipping!TriesCounted'
  BY DEF Skipping!TriesCounted
<1>8. QED
  BY <1>3, <1>4, <1>5, <1>6, <1>7 DEF FledInv

\* FledInv after a step that ends in a boot.
LEMMA BootedAfter ==
  ASSUME Skipping!TypeOK', fled' = Skipping!Off, turned' = FALSE,
         installs' = fledAge'.tries,
         fledAge'.age + Carried' <= up' + Slack(resets'),
         ~lost' => fledAge'.age + Carried' >= Skipping!Least(up', Skip)
  PROVE  FledInv'
<1>1. /\ resets' \in Nat /\ up' \in Nat /\ fledAge'.age \in Nat /\ Carried' \in Nat
  <2>1. resets' \in Nat /\ up' \in Nat /\ fledAge'.age \in Nat
    BY FledAssumption DEF Skipping!TypeOK, Skipping!Saved
  <2>2. unsaved' \in Nat /\ 2 * SaveEvery \in Nat
    BY FledAssumption DEF Skipping!TypeOK
  <2>3. QED
    BY <2>1, <2>2 DEF Carried, Skipping!Least
<1>2. fled'.loaded = FALSE /\ fled'.since = 0 /\ fled'.first = TRUE
  BY RecordTypes
<1>3. fled' \in FledRam
  BY DEF Skipping!TypeOK, FledRam
<1>4. /\ Skipping!Loaded'.saved = fledAge' /\ Skipping!Loaded'.carry = Carried'
      /\ Skipping!Loaded'.since = 0 /\ Skipping!Loaded'.first
  BY <1>2, <1>3 DEF Skipping!Loaded, Carried, FledRam
<1>5. Skipping!Unsaved' = Carried'
  <2>1. Skipping!Unsaved' = Skipping!Loaded'.carry + Skipping!Loaded'.since
    BY DEF Skipping!Unsaved
  <2>2. PICK c \in Nat : c = Carried'
    BY <1>1
  <2>3. c + 0 = c
    OBVIOUS
  <2>4. QED
    BY <1>4, <2>1, <2>2, <2>3
<1>6. BootSound'
  BY <1>1, <1>2 DEF BootSound, Skipping!Off
<1>7. KeptInStep'
  BY <1>1, <1>4 DEF KeptInStep
<1>8. Slack(resets') \in Nat /\ Slack(resets' + 1) = Slack(resets') + GapMax
  BY <1>1, SlackGrows
<1>9. fledAge'.age + Carried' <= up' + Slack(resets' + 1)
  BY <1>1, <1>8, FledAssumption
<1>10. NotAhead'
  BY <1>4, <1>5, <1>9 DEF NotAhead, Slack
<1>11. NotBehind'
  BY <1>4, <1>5 DEF NotBehind, Skipping!Least
<1>12. Skipping!TriesCounted'
  BY DEF Skipping!TriesCounted
<1>13. QED
  BY <1>6, <1>7, <1>10, <1>11, <1>12 DEF FledInv

\* saveFled, from a turn of the loop or from a refusal.
LEMMA SaveKeeps ==
  ASSUME FledInv, NEW epoch \in Epochs, NEW wrote \in BOOLEAN,
         Skipping!SaveFled(Skipping!AgeNow(epoch), Skipping!Loaded.saved.tries, epoch, wrote),
         turned' \in BOOLEAN, UNCHANGED <<up, resets, installs>>
  PROVE  FledInv'
<1>1. PICK age \in 0..Skip : age = Skipping!AgeNow(epoch)
  BY AgeBounds
<1>2. PICK l \in FledRam : l = Skipping!Loaded /\ l.loaded
  BY LoadedFacts DEF FledInv
<1>3. /\ Skipping!TypeOK /\ fledAge \in Skipping!Saved /\ l.saved.tries = fledAge.tries
      /\ fledAge.age <= l.saved.age /\ installs = fledAge.tries /\ lost \in BOOLEAN
  BY <1>2 DEF FledInv, KeptInStep, Skipping!TypeOK, Skipping!TriesCounted
<1>4. PICK next \in Skipping!Saved : next = [age |-> age, tries |-> l.saved.tries, seen |-> epoch]
  BY <1>3 DEF Skipping!Saved
<1>5. /\ fledAge' = IF wrote THEN next ELSE fledAge
      /\ fled' = [l EXCEPT !.first = FALSE, !.saved = next, !.carry = 0, !.since = 0]
      /\ unsaved' = 0 /\ lost' = (lost \/ ~wrote)
  BY <1>1, <1>2, <1>4 DEF Skipping!SaveFled
<1>6. 0 \in 0..(2 * SaveEvery) /\ 0 \in 0..MaxUp
  BY FledAssumption, ZeroUpTo
<1>7. fled' \in FledRam /\ fled'.loaded /\ fled'.since = 0 /\ fled'.carry = 0
      /\ fled'.saved = next /\ fled'.first = FALSE
  BY <1>2, <1>5, <1>6 DEF FledRam
<1>8. Skipping!TypeOK'
  BY <1>3, <1>4, <1>5, <1>6, <1>7 DEF Skipping!TypeOK, FledRam
<1>9. Carried' = 0
  BY <1>5, FledAssumption DEF Carried, Skipping!Least
<1>10. /\ l.saved.age <= age /\ age <= up + Slack(resets + 1)
       /\ ~lost => age >= Skipping!Least(up, Skip)
  BY <1>1, <1>2, AgeBounds
<1>11. /\ fledAge'.age \in Nat /\ l.saved.age \in Nat /\ fledAge.age \in Nat /\ next.age = age
       /\ next.tries = fledAge.tries /\ up \in Nat /\ resets \in Nat
  BY <1>3, <1>4, <1>8, FledAssumption DEF Skipping!Saved, FledRam, Skipping!TypeOK
<1>12. fledAge'.age <= age /\ fledAge'.tries = fledAge.tries /\ (wrote => fledAge'.age = age)
  BY <1>3, <1>5, <1>10, <1>11
<1>13. Slack(resets + 1) \in Nat
  BY <1>11, SlackGrows
<1>14. fledAge'.age + Carried' <= up' + Slack(resets' + 1)
  BY <1>9, <1>10, <1>11, <1>12, <1>13
<1>15. age + (0 + 0) = age /\ fledAge'.age + Carried' = fledAge'.age
  BY <1>9, <1>11
<1>16. ~lost' => ~lost /\ wrote
  BY <1>3, <1>5
<1>17. 0 <= up'
  BY <1>11
<1> HIDE DEF Slack, Carried
<1>18. QED
  BY <1>3, <1>7, <1>8, <1>10, <1>11, <1>12, <1>14, <1>15, <1>16, <1>17, ReadAfter

LEMMA FledInit == Skipping!Init => FledInv
<1> SUFFICES ASSUME Skipping!Init PROVE FledInv
  OBVIOUS
<1>1. /\ fledAge = Skipping!Fresh /\ unsaved = 0 /\ fled = Skipping!Off /\ turned = FALSE
      /\ up = 0 /\ resets = 0 /\ installs = 0 /\ lost = FALSE
  BY DEF Skipping!Init
<1>2. 0 \in 0..(2 * SaveEvery) /\ 0 \in 0..MaxUp /\ 0 \in 0..MaxResets /\ 0 \in 0..FledTries
  BY FledAssumption, ZeroUpTo
<1>3. Skipping!TypeOK
  BY <1>1, <1>2, RecordTypes DEF Skipping!TypeOK, FledRam
<1>4. BootSound
  BY <1>1, RecordTypes DEF BootSound
<1>5. Carried = 0
  BY <1>1, FledAssumption DEF Carried, Skipping!Least
<1>6. /\ Skipping!Loaded.saved = Skipping!Fresh /\ Skipping!Loaded.first
      /\ Skipping!Loaded.carry = 0 /\ Skipping!Loaded.since = 0
  BY <1>1, <1>3, <1>4, <1>5, LoadedFacts, RecordTypes
<1>7. Skipping!Fresh.age = 0 /\ Skipping!Fresh.tries = 0
  BY DEF Skipping!Fresh
<1>8. Skipping!Unsaved = 0
  BY <1>6 DEF Skipping!Unsaved
<1>9. Skipping!Least(up, Skip) = 0
  BY <1>1, FledAssumption DEF Skipping!Least
<1>10. KeptInStep
  BY <1>1, <1>6, <1>7 DEF KeptInStep
<1>11. Slack(0) = 0 /\ Slack(0 + 1) \in Nat
  BY SlackGrows
<1>12. NotAhead
  BY <1>1, <1>5, <1>6, <1>7, <1>8, <1>11 DEF NotAhead
<1>13. NotBehind
  BY <1>1, <1>5, <1>6, <1>7, <1>8, <1>9 DEF NotBehind
<1>14. Skipping!TriesCounted
  BY <1>1, <1>7 DEF Skipping!TriesCounted
<1>15. QED
  BY <1>3, <1>4, <1>10, <1>12, <1>13, <1>14 DEF FledInv

\* ageFledRelease, with nothing to save yet or nothing left to age.
LEMMA TurnKeeps ==
  ASSUME FledInv, NEW epoch \in Epochs, NEW wrote \in BOOLEAN, Skipping!Turn(epoch, wrote)
  PROVE  FledInv'
<1>1. CASE Skipping!Loaded.saved.age < Skip /\ Skipping!Unsaved >= SaveEvery
  BY <1>1, SaveKeeps DEF Skipping!Turn
<1>2. CASE ~(Skipping!Loaded.saved.age < Skip /\ Skipping!Unsaved >= SaveEvery)
  <2>1. PICK l \in FledRam : l = Skipping!Loaded /\ l.loaded
    BY LoadedFacts DEF FledInv
  <2>2. /\ fled' = l /\ turned' = TRUE
        /\ unsaved' = IF l.saved.age < Skip THEN l.carry + l.since
                       ELSE IF fled.loaded THEN unsaved ELSE 0
        /\ UNCHANGED <<fledAge, lost, up, resets, installs>>
    BY <1>2, <2>1 DEF Skipping!Turn, Skipping!Unsaved
  <2>3. /\ Skipping!TypeOK /\ fledAge \in Skipping!Saved /\ l.saved.tries = fledAge.tries
        /\ fledAge.age <= l.saved.age /\ installs = fledAge.tries
        /\ ~lost => fledAge.age = l.saved.age
    BY <2>1 DEF FledInv, KeptInStep, Skipping!TypeOK, Skipping!TriesCounted
  <2>4. /\ l.saved.age \in 0..Skip /\ l.carry \in Nat /\ l.since \in Nat /\ fledAge.age \in 0..Skip
        /\ up \in Nat /\ resets \in Nat /\ 2 * SaveEvery \in Nat
        /\ unsaved \in 0..(2 * SaveEvery)
    <3>1. 2 * SaveEvery \in Nat
      BY FledAssumption
    <3>2. l.saved \in Skipping!Saved /\ l.carry \in Nat /\ l.since \in Nat
      BY <3>1, FledAssumption DEF FledRam
    <3>3. QED
      BY <2>3, <3>1, <3>2, FledAssumption DEF Skipping!Saved, Skipping!TypeOK
  <2>5. l.saved.age < Skip => l.carry + l.since < SaveEvery
    BY <1>2, <2>1, <2>4, FledAssumption DEF Skipping!Unsaved
  <2>6. unsaved' \in 0..(2 * SaveEvery)
    BY <2>2, <2>4, <2>5, FledAssumption
  <2>7. Skipping!TypeOK'
    BY <2>2, <2>3, <2>6 DEF Skipping!TypeOK, FledRam
  <2>8. PICK c \in Nat : /\ c = Carried'
                         /\ l.saved.age < Skip => c = l.carry + l.since
                         /\ c <= Carried \/ l.saved.age < Skip
    <3>1. Carried' = Skipping!Least(unsaved', 2 * SaveEvery)
      BY DEF Carried, Skipping!Least
    <3>2. l.saved.age < Skip => unsaved' = l.carry + l.since /\ unsaved' <= 2 * SaveEvery
      BY <2>2, <2>6
    <3>3. l.saved.age < Skip => Carried' = l.carry + l.since
      <4>1. PICK u \in 0..(2 * SaveEvery) : u = unsaved'
        BY <2>6
      <4>2. Skipping!Least(u, 2 * SaveEvery) = u
        BY <2>4 DEF Skipping!Least
      <4>3. QED
        BY <3>1, <3>2, <4>1, <4>2
    <3>4. ~(l.saved.age < Skip) => unsaved' = unsaved \/ unsaved' = 0
      BY <2>2
    <3>5. ~(l.saved.age < Skip) => Carried' <= Carried
      BY <2>4, <2>6, <3>1, <3>4 DEF Carried, Skipping!Least
    <3>6. Carried' \in Nat
      BY <2>4, <2>6, <3>1 DEF Skipping!Least
    <3>7. QED
      BY <3>3, <3>5, <3>6
  <2>9. PICK s \in Nat : s = Slack(IF l.first THEN resets ELSE resets + 1) /\ s <= Slack(resets + 1)
    BY <2>4, SlackGrows, FledAssumption
  <2>10. /\ l.saved.age + (l.carry + l.since) <= up + s
         /\ ~lost => l.saved.age + (l.carry + l.since) >= Skipping!Least(up, Skip)
         /\ fledAge.age + Carried <= up + Slack(resets + 1)
    BY <2>1, <2>9 DEF FledInv, NotAhead, NotBehind, Skipping!Unsaved
  <2>11. PICK t \in Nat : t = Slack(resets + 1)
    BY <2>4, SlackGrows
  <2>12. PICK d \in Nat : d = Carried
    BY LoadedFacts, <2>4 DEF FledInv
  <2>13. fledAge.age + c <= up + t
    BY <2>3, <2>4, <2>8, <2>9, <2>10, <2>11, <2>12
  <2>14. ~lost => fledAge.age + c >= Skipping!Least(up, Skip)
    BY <2>3, <2>4, <2>8, <2>10, FledAssumption DEF Skipping!Least
  <2>15. l.since <= up
    BY <2>1, <2>4, LoadedFacts DEF FledInv, BootSound
  <2>16. QED
    BY <2>1, <2>2, <2>3, <2>7, <2>8, <2>9, <2>10, <2>11, <2>13, <2>14, <2>15, ReadAfter
<1>3. QED
  BY <1>1, <1>2

\* The bounds of the numbers, for the steps below.
LEMMA FledNumbers ==
  ASSUME FledInv
  PROVE  /\ up \in 0..MaxUp /\ resets \in 0..MaxResets /\ installs \in 0..FledTries
         /\ up \in Nat /\ resets \in Nat /\ lost \in BOOLEAN /\ turned \in BOOLEAN
         /\ fledAge \in Skipping!Saved /\ fledAge.age \in Nat /\ fledAge.tries = installs
         /\ Carried \in Nat /\ unsaved \in 0..(2 * SaveEvery) /\ fled \in FledRam
         /\ Slack(resets) \in Nat /\ Slack(resets + 1) \in Nat
<1>1. /\ up \in 0..MaxUp /\ resets \in 0..MaxResets /\ installs \in 0..FledTries
      /\ lost \in BOOLEAN /\ turned \in BOOLEAN /\ fledAge \in Skipping!Saved
      /\ unsaved \in 0..(2 * SaveEvery) /\ fled \in FledRam
  BY DEF FledInv, Skipping!TypeOK, FledRam
<1>2. up \in Nat /\ resets \in Nat
  BY <1>1, FledAssumption
<1>3. fledAge.age \in Nat
  BY <1>1, FledAssumption DEF Skipping!Saved
<1>4. Carried \in Nat
  BY LoadedFacts, FledAssumption DEF FledInv
<1>5. Slack(resets) \in Nat /\ Slack(resets + 1) \in Nat
  BY <1>2, SlackGrows
<1>6. QED
  BY <1>1, <1>2, <1>3, <1>4, <1>5 DEF FledInv, Skipping!TriesCounted

LEMMA TimeKeeps == ASSUME FledInv, Skipping!TimePasses PROVE FledInv'
<1>1. /\ turned /\ up < MaxUp /\ turned' = FALSE /\ up' = up + 1
      /\ fled' = [fled EXCEPT !.since = @ + 1]
      /\ UNCHANGED <<fledAge, unsaved, resets, installs, lost>>
  BY DEF Skipping!TimePasses
<1>2. fled.loaded /\ fled.since <= up
  BY <1>1 DEF FledInv, BootSound
<1>3. Skipping!Loaded = fled
  BY <1>2, LoadedFacts DEF FledInv
<1>4. fled.since \in Nat /\ fled.carry \in Nat /\ fled.saved \in Skipping!Saved
      /\ fled.first \in BOOLEAN /\ fled.saved.age \in Nat
  <2>1. 2 * SaveEvery \in Nat
    BY FledAssumption
  <2>2. fled.since \in Nat /\ fled.carry \in Nat /\ fled.saved \in Skipping!Saved
        /\ fled.first \in BOOLEAN
    BY <2>1, FledNumbers, FledAssumption DEF FledRam
  <2>3. QED
    BY <2>2, FledAssumption DEF Skipping!Saved
<1>5. fled.since + 1 \in 0..MaxUp /\ up + 1 \in 0..MaxUp
  BY <1>1, <1>2, <1>4, FledNumbers, FledAssumption
<1>6. /\ fled' \in FledRam /\ fled'.loaded /\ fled'.saved = fled.saved
      /\ fled'.since = fled.since + 1 /\ fled'.carry = fled.carry /\ fled'.first = fled.first
  BY <1>1, <1>2, <1>5, FledNumbers DEF FledRam
<1>7. Skipping!TypeOK'
  BY <1>1, <1>5, <1>6 DEF FledInv, Skipping!TypeOK, FledRam
<1>8. Carried' = Carried
  BY <1>1 DEF Carried, Skipping!Least
<1>9. PICK s \in Nat : s = Slack(IF fled.first THEN resets ELSE resets + 1)
  BY <1>4, FledNumbers
<1>10. /\ fled.saved.age + (fled.carry + fled.since) <= up + s
       /\ fledAge.age + Carried <= up + Slack(resets + 1)
       /\ ~lost => fled.saved.age + (fled.carry + fled.since) >= Skipping!Least(up, Skip)
       /\ fled.saved.tries = fledAge.tries /\ fledAge.age <= fled.saved.age
       /\ ~lost => fledAge.age = fled.saved.age
  BY <1>3, <1>9 DEF FledInv, NotAhead, NotBehind, KeptInStep, Skipping!Unsaved
<1>11. fled.saved.age + (fled.carry + (fled.since + 1)) <= (up + 1) + s
  BY <1>4, <1>9, <1>10, FledNumbers
<1>12. fledAge.age + Carried <= (up + 1) + Slack(resets + 1)
  BY <1>10, FledNumbers
<1>13. ~lost => fled.saved.age + (fled.carry + (fled.since + 1)) >= Skipping!Least(up + 1, Skip)
  BY <1>4, <1>10, FledNumbers, FledAssumption DEF Skipping!Least
<1>14. fled'.since <= up' /\ fled'.since # 0
  BY <1>1, <1>2, <1>4, <1>6, FledNumbers
<1>15. QED
  BY <1>1, <1>6, <1>7, <1>8, <1>9, <1>10, <1>11, <1>12, <1>13, <1>14, FledNumbers, ReadAfter

\* The boot after an install: the carry is gone.
LEMMA InstallKeeps ==
  ASSUME FledInv, Skipping!Installed, fledAge' \in Skipping!Saved, up' \in 0..MaxUp,
         resets' \in 0..MaxResets, installs' \in 0..FledTries, lost' \in BOOLEAN,
         installs' = fledAge'.tries, fledAge'.age <= up' + Slack(resets'),
         ~lost' => fledAge'.age >= Skipping!Least(up', Skip)
  PROVE  FledInv'
<1>1. fled' = Skipping!Off /\ unsaved' = 0 /\ turned' = FALSE
  BY DEF Skipping!Installed
<1>2. 0 \in 0..(2 * SaveEvery)
  BY FledAssumption, ZeroUpTo
<1>3. Skipping!TypeOK'
  BY <1>1, <1>2, RecordTypes DEF Skipping!TypeOK, FledRam
<1>4. Carried' = 0
  BY <1>1, FledAssumption DEF Carried, Skipping!Least
<1>5. fledAge'.age + Carried' = fledAge'.age
  BY <1>4, FledAssumption DEF Skipping!Saved
<1>6. QED
  BY <1>1, <1>3, <1>5, BootedAfter

LEMMA ForceKeeps == ASSUME FledInv, Skipping!Force PROVE FledInv'
<1>1. /\ resets < MaxResets /\ resets' = resets + 1 /\ Skipping!Installed /\ lost' = TRUE
      /\ UNCHANGED <<fledAge, up, installs>>
  BY DEF Skipping!Force
<1>2. resets' \in 0..MaxResets
  BY <1>1, FledNumbers, FledAssumption
<1>3. fledAge.age + Carried <= up + Slack(resets + 1)
  BY DEF FledInv, NotAhead
<1>4. fledAge.age <= up + Slack(resets + 1)
  BY <1>3, FledNumbers
<1>5. QED
  BY <1>1, <1>2, <1>4, FledNumbers, InstallKeeps

LEMMA FledAgainKeeps ==
  ASSUME FledInv, NEW wrote \in BOOLEAN, Skipping!FledAgain(wrote) PROVE FledInv'
<1>1. Skipping!Installed /\ resets < MaxResets /\ ~fled.loaded
  BY DEF Skipping!FledAgain
<1>2. CASE wrote
  <2>1. /\ fledAge' = Skipping!Fresh /\ up' = 0 /\ resets' = 0 /\ installs' = 0 /\ lost' = FALSE
    BY <1>2 DEF Skipping!FledAgain, Skipping!NewDay
  <2>2. 0 \in 0..MaxUp /\ 0 \in 0..MaxResets /\ 0 \in 0..FledTries
    BY FledAssumption, ZeroUpTo
  <2>3. fledAge'.age = 0 /\ fledAge'.tries = 0 /\ Skipping!Least(up', Skip) = 0
        /\ up' + Slack(resets') = 0
    BY <2>1, SlackGrows, FledAssumption DEF Skipping!Fresh, Skipping!Least
  <2>4. fledAge'.age <= up' + Slack(resets') /\ fledAge'.age >= Skipping!Least(up', Skip)
    BY <2>3
  <2>5. QED
    BY <1>1, <2>1, <2>2, <2>3, <2>4, RecordTypes, InstallKeeps
<1>3. CASE ~wrote
  <2>1. lost' = TRUE /\ UNCHANGED <<fledAge, up, resets, installs>>
    BY <1>3 DEF Skipping!FledAgain
  <2>2. PICK l \in FledRam : l = Skipping!Loaded /\ l.saved = fledAge /\ l.first
                             /\ l.carry = Carried /\ l.since = 0
    BY <1>1, LoadedFacts DEF FledInv
  <2>3. fledAge.age + (Carried + 0) <= up + Slack(resets)
    BY <2>2 DEF FledInv, NotAhead, Skipping!Unsaved
  <2>4. fledAge.age <= up + Slack(resets)
    BY <2>3, FledNumbers
  <2>5. QED
    BY <1>1, <2>1, <2>4, FledNumbers, InstallKeeps
<1>4. QED
  BY <1>2, <1>3

LEMMA ResetKeeps ==
  ASSUME FledInv, NEW power \in BOOLEAN, Skipping!Reset(power) PROVE FledInv'
<1>1. /\ turned \/ fled.since = 0
      /\ resets < MaxResets /\ fled' = Skipping!Off /\ turned' = FALSE /\ resets' = resets + 1
      /\ unsaved' = (IF power THEN 0 ELSE unsaved) /\ lost' = (lost \/ power)
      /\ UNCHANGED <<fledAge, up, installs>>
  BY DEF Skipping!Reset
<1>2. 0 \in 0..(2 * SaveEvery) /\ resets' \in 0..MaxResets
  BY <1>1, FledNumbers, FledAssumption, ZeroUpTo
<1>3. Skipping!TypeOK'
  BY <1>1, <1>2, FledNumbers, RecordTypes DEF Skipping!TypeOK, FledRam
<1>4. PICK c \in Nat : c = Carried' /\ c <= Carried /\ (~power => c = Carried)
  <2>1. Skipping!Least(0, 2 * SaveEvery) = 0
    BY FledAssumption DEF Skipping!Least
  <2>2. Carried' = IF power THEN 0 ELSE Carried
    BY <1>1, <2>1 DEF Carried, Skipping!Least
  <2>3. QED
    BY <2>2, FledNumbers
<1>5. /\ fledAge.age + Carried <= up + Slack(resets + 1)
      /\ ~lost => fledAge.age + Carried >= Skipping!Least(up, Skip)
  BY <1>1 DEF FledInv, NotAhead, NotBehind
<1>6. fledAge.age + c <= up + Slack(resets + 1)
  BY <1>4, <1>5, FledNumbers
<1>7. ~lost' => fledAge.age + c >= Skipping!Least(up, Skip)
  BY <1>1, <1>4, <1>5, FledNumbers
<1>8. QED
  BY <1>1, <1>3, <1>4, <1>6, <1>7, FledNumbers, BootedAfter

LEMMA FledStays ==
  ASSUME FledInv, UNCHANGED <<fledAge, unsaved, fled, lost, turned, up, resets, installs>>
  PROVE  FledInv'
BY DEF FledInv, Skipping!TypeOK, BootSound, KeptInStep, NotAhead, NotBehind, Carried, Slack,
       Skipping!TriesCounted, Skipping!Loaded, Skipping!Unsaved, Skipping!Least

LEMMA RefuseKeeps ==
  ASSUME FledInv, NEW epoch \in Epochs, NEW wrote \in BOOLEAN, Skipping!Refuse(epoch, wrote)
  PROVE  FledInv'
<1>1. CASE Skipping!Loaded.first \/ Skipping!Unsaved >= SaveEvery
  BY <1>1, SaveKeeps, FledNumbers DEF Skipping!Refuse
<1>2. CASE ~(Skipping!Loaded.first \/ Skipping!Unsaved >= SaveEvery)
  <2>1. UNCHANGED <<fledAge, unsaved, fled, lost, turned, up, resets, installs>>
    BY <1>2 DEF Skipping!Refuse
  <2>2. QED
    BY <2>1, FledStays
<1>3. QED
  BY <1>1, <1>2

\* A try: saved before its download, the last one starting another day.
LEMMA TryKeeps ==
  ASSUME FledInv, NEW epoch \in Epochs, NEW wrote \in BOOLEAN, NEW works \in BOOLEAN,
         Skipping!Try(epoch, wrote, works)
  PROVE  FledInv'
<1>1. PICK age \in 0..Skip : age = Skipping!AgeNow(epoch)
  BY AgeBounds
<1>2. PICK l \in FledRam : l = Skipping!Loaded /\ l.loaded
  BY LoadedFacts DEF FledInv
<1>3. PICK tries \in 0..FledTries : tries = l.saved.tries
  BY DEF FledRam, Skipping!Saved
<1> DEFINE last  == tries + 1 >= FledTries
           spent == IF last THEN [Skipping!Fresh EXCEPT !.seen = epoch]
                            ELSE [age |-> age, tries |-> tries + 1, seen |-> epoch]
           kept  == [age |-> age, tries |-> tries, seen |-> epoch]
           after == [l EXCEPT !.first = FALSE, !.carry = 0, !.since = 0,
                              !.saved = IF wrote THEN spent ELSE kept]
<1>4. /\ age >= Skip /\ (works /\ ~last => resets < MaxResets)
      /\ fledAge' = IF wrote THEN spent ELSE fledAge
      /\ IF wrote
           THEN /\ IF last THEN Skipping!NewDay /\ lost' = FALSE
                   ELSE /\ installs' = installs + 1 /\ UNCHANGED <<up, lost>>
                        /\ resets' = IF works THEN resets + 1 ELSE resets
                /\ IF works THEN Skipping!Installed
                   ELSE fled' = after /\ unsaved' = 0 /\ UNCHANGED turned
           ELSE /\ fled' = after /\ unsaved' = 0 /\ lost' = TRUE
                /\ UNCHANGED <<turned, up, resets, installs>>
  BY <1>1, <1>2, <1>3 DEF Skipping!Try, Skipping!MayDownload
<1>5. /\ l.saved.age <= age /\ age <= up + Slack(resets + 1)
      /\ ~lost => age >= Skipping!Least(up, Skip)
  BY <1>1, <1>2, AgeBounds
<1>6. tries = fledAge.tries /\ fledAge.age <= l.saved.age /\ l.saved.age \in Nat
      /\ installs = tries
  BY <1>2, <1>3, FledNumbers, FledAssumption DEF FledInv, KeptInStep, FledRam, Skipping!Saved
<1>7. 0 \in 0..(2 * SaveEvery) /\ 0 \in 0..MaxUp /\ 0 \in 0..MaxResets /\ 0 \in 0..FledTries
  BY FledAssumption, ZeroUpTo
<1>8. /\ spent \in Skipping!Saved
      /\ last => spent.age = 0 /\ spent.tries = 0
      /\ ~last => spent.age = age /\ spent.tries = tries + 1 /\ tries + 1 \in 0..FledTries
  <2>1. CASE last
    BY <2>1, RecordTypes DEF Skipping!Saved, Skipping!Fresh
  <2>2. CASE ~last
    <3>1. tries + 1 \in 0..FledTries
      BY <2>2, FledAssumption
    <3>2. QED
      BY <2>2, <3>1 DEF Skipping!Saved
  <2>3. QED
    BY <2>1, <2>2
<1>9. kept \in Skipping!Saved /\ kept.age = age /\ kept.tries = tries
  BY DEF Skipping!Saved
<1> HIDE DEF spent, kept
<1>10. /\ after \in FledRam /\ after.loaded /\ after.first = FALSE
       /\ after.carry = 0 /\ after.since = 0 /\ after.saved = IF wrote THEN spent ELSE kept
  BY <1>2, <1>7, <1>8, <1>9 DEF FledRam
<1> HIDE DEF after, last
<1>11. CASE ~wrote
  <2>1. /\ fled' = after /\ unsaved' = 0 /\ lost' = TRUE /\ fledAge' = fledAge
        /\ UNCHANGED <<turned, up, resets, installs>>
    BY <1>4, <1>11
  <2>2. Skipping!TypeOK'
    BY <1>7, <1>10, <2>1, FledNumbers DEF Skipping!TypeOK, FledRam
  <2>3. fledAge.age <= age /\ 0 <= up /\ age + (0 + 0) = age /\ fledAge.age + 0 = fledAge.age
        /\ fledAge.age <= up + Slack(resets + 1)
    BY <1>5, <1>6, FledNumbers
  <2>4. Carried' = 0
    BY <2>1, FledAssumption DEF Carried, Skipping!Least
  <2>5. QED
    BY <1>5, <1>6, <1>9, <1>10, <1>11, <2>1, <2>2, <2>3, <2>4, ReadAfter
<1>12. CASE wrote /\ last
  <2>1. /\ fledAge' = spent /\ up' = 0 /\ resets' = 0 /\ installs' = 0 /\ lost' = FALSE
        /\ IF works THEN Skipping!Installed
           ELSE fled' = after /\ unsaved' = 0 /\ UNCHANGED turned
    BY <1>4, <1>12 DEF Skipping!NewDay
  <2>2. Skipping!Least(0, Skip) = 0 /\ Slack(0) = 0 /\ Slack(0 + 1) \in Nat
    BY SlackGrows, FledAssumption DEF Skipping!Least
  <2>3. CASE works
    <3>1. fledAge'.age <= up' + Slack(resets') /\ fledAge'.age >= Skipping!Least(up', Skip)
      BY <1>8, <1>12, <2>1, <2>2
    <3>2. QED
      BY <1>7, <1>8, <1>12, <2>1, <2>3, <3>1, InstallKeeps
  <2>4. CASE ~works
    <3>1. fled' = after /\ unsaved' = 0 /\ turned' = turned
      BY <2>1, <2>4
    <3>2. Skipping!TypeOK'
      BY <1>7, <1>8, <1>10, <2>1, <3>1, FledNumbers DEF Skipping!TypeOK, FledRam
    <3>3. Carried' = 0
      BY <3>1, FledAssumption DEF Carried, Skipping!Least
    <3>4. /\ fled'.saved = spent /\ spent.age = 0 /\ spent.tries = 0
          /\ fled'.carry = 0 /\ fled'.since = 0 /\ fled'.first = FALSE /\ fled'.loaded
      BY <1>8, <1>10, <1>12, <3>1
    <3>5. /\ fled'.saved.age + (fled'.carry + fled'.since)
               <= up' + Slack(IF fled'.first THEN resets' ELSE resets' + 1)
          /\ fledAge'.age + Carried' <= up' + Slack(resets' + 1)
          /\ fled'.saved.age + (fled'.carry + fled'.since) >= Skipping!Least(up', Skip)
          /\ fledAge'.age + Carried' >= Skipping!Least(up', Skip)
          /\ fledAge'.age <= fled'.saved.age /\ fled'.since <= up'
      BY <2>1, <2>2, <3>3, <3>4
    <3>6. QED
      BY <2>1, <3>2, <3>4, <3>5, ReadAfter
  <2>5. QED
    BY <2>3, <2>4
<1>13. CASE wrote /\ ~last
  <2>1. /\ fledAge' = spent /\ installs' = installs + 1 /\ UNCHANGED <<up, lost>>
        /\ resets' = IF works THEN resets + 1 ELSE resets
        /\ IF works THEN Skipping!Installed
           ELSE fled' = after /\ unsaved' = 0 /\ UNCHANGED turned
    BY <1>4, <1>13
  <2>2. installs' \in 0..FledTries /\ installs' = fledAge'.tries /\ fledAge'.age = age
    BY <1>6, <1>8, <1>13, <2>1
  <2>3. CASE works
    <3>1. resets' = resets + 1 /\ resets' \in 0..MaxResets
      BY <1>4, <1>13, <2>1, <2>3, FledNumbers, FledAssumption
    <3>2. fledAge'.age <= up' + Slack(resets')
          /\ (~lost' => fledAge'.age >= Skipping!Least(up', Skip))
      BY <1>5, <2>1, <2>2, <3>1
    <3>3. QED
      BY <1>8, <2>1, <2>2, <2>3, <3>1, <3>2, FledNumbers, InstallKeeps
  <2>4. CASE ~works
    <3>1. fled' = after /\ unsaved' = 0 /\ turned' = turned /\ resets' = resets
      BY <2>1, <2>4
    <3>2. Skipping!TypeOK'
      BY <1>7, <1>8, <1>10, <2>1, <2>2, <3>1, FledNumbers DEF Skipping!TypeOK, FledRam
    <3>3. Carried' = 0
      BY <3>1, FledAssumption DEF Carried, Skipping!Least
    <3>4. /\ fled'.saved = spent /\ spent.age = age /\ fled'.loaded
          /\ fled'.carry = 0 /\ fled'.since = 0 /\ fled'.first = FALSE
      BY <1>8, <1>10, <1>13, <3>1
    <3>5. age + (0 + 0) = age /\ age + 0 = age /\ age <= age /\ 0 <= up
      BY FledNumbers
    <3>6. QED
      BY <1>5, <2>1, <2>2, <3>1, <3>2, <3>3, <3>4, <3>5, ReadAfter
  <2>5. QED
    BY <2>3, <2>4
<1>14. QED
  BY <1>11, <1>12, <1>13

LEMMA FledNext == FledInv /\ [Skipping!Next]_(Skipping!vars) => FledInv'
<1> SUFFICES ASSUME FledInv, [Skipping!Next]_(Skipping!vars) PROVE FledInv'
  OBVIOUS
<1>1. ASSUME NEW epoch \in Epochs, NEW wrote \in BOOLEAN,
             \/ Skipping!Turn(epoch, wrote) \/ Skipping!Refuse(epoch, wrote)
             \/ \E works \in BOOLEAN : Skipping!Try(epoch, wrote, works)
      PROVE  FledInv'
  BY <1>1, TurnKeeps, RefuseKeeps, TryKeeps
<1>2. CASE Skipping!TimePasses \/ Skipping!Force
  BY <1>2, TimeKeeps, ForceKeeps
<1>3. ASSUME NEW b \in BOOLEAN, Skipping!FledAgain(b) \/ Skipping!Reset(b)
      PROVE  FledInv'
  BY <1>3, FledAgainKeeps, ResetKeeps
<1>4. CASE UNCHANGED Skipping!vars
  BY <1>4, FledStays DEF Skipping!vars, Skipping!dayVars
<1>5. QED
  BY <1>1, <1>2, <1>3, <1>4 DEF Skipping!Next

\* The scenes move the fled day by its own steps only.
LEMMA SceneSkips == SceneSpec => Skipping!Spec
<1>1. SceneInit => Skipping!Init
  BY DEF SceneInit
<1>2. [SceneNext]_allVars => [Skipping!Next]_(Skipping!vars)
  <2> SUFFICES ASSUME [SceneNext]_allVars PROVE [Skipping!Next]_(Skipping!vars)
    OBVIOUS
  <2>1. CASE UNCHANGED fledVars
    BY <2>1 DEF fledVars, Skipping!vars, Skipping!dayVars
  <2>2. CASE Skipping!Next
    BY <2>2
  <2>3. QED
    BY <2>1, <2>2 DEF SceneNext, allVars
<1>3. QED
  BY <1>1, <1>2, PTL DEF SceneSpec, Skipping!Spec

\* Through resets, power cuts, lost saves and a wrong clock the age of a fled
\* release is the time the unit was up, at most GapMax a boot ahead of it, and
\* every install after its day is a try NVS holds.  For every length of the
\* day, save interval, number of tries and set of clock readings.
THEOREM FledIsSound == SceneSpec => []FledSound
<1>1. FledInv => FledSound
  <2> SUFFICES ASSUME FledInv PROVE Skipping!TypeOK /\ Skipping!FledSound
    BY DEF FledSound
  <2>1. Skipping!AgeHonest
    BY AgeBounds DEF Skipping!AgeHonest, Slack
  <2>2. QED
    BY <2>1 DEF FledInv, Skipping!FledSound
<1>2. QED
  BY <1>1, FledInit, FledNext, SceneSkips, PTL DEF Skipping!Spec
=============================================================================
