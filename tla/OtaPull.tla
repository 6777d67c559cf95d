------------------------------- MODULE OtaPull ------------------------------
(* An update check and its download: what asks for one and when it is taken,  *)
(* the refusals, the GETs with their redirects over WiFi, the range requests  *)
(* over the modem that resume where the last one broke off, and the digest    *)
(* that decides.  Both transports may come and go at any point, a console     *)
(* line may run while a body is read, and a server may answer anything.  What *)
(* becomes of an image once it is staged is OtaGuard's, the refusal of a fled *)
(* release FledSkip's.                                                        *)
EXTENDS Integers, Sequences

CONSTANTS
  Size,        \* length of the image
  Chunk,       \* CHUNK
  Tries,       \* CHUNK_TRIES
  MaxHops,     \* OTA_REDIRECT_MAX
  Insecure,    \* ota.allow_insecure
  Manifests    \* manifests a server may answer with: newer, scheme, size, honest

(* A byte is its place in the image, 0 one that is not of it.  A url is its   *)
(* scheme; "config" stands for ota.manifest_url, which is https here.         *)
Image     == [i \in 1..Size |-> i]
OverrideUrls == {"https", "http"}
Statuses  == {0, 200, 206, 404}

Least(a, b) == IF a < b THEN a ELSE b

VARIABLES
  wifi, cell,  \* WiFiManager::connected, Cellular::connected
  requested,   \* _checkRequested
  forced,      \* _forceRequested
  pending,     \* _pendingManifestUrl, "config" when empty
  due,         \* the check interval has passed
  phase,       \* where check() is, "idle" outside it
  run,         \* the check under way: its force, and whether it was asked for
  get,         \* the GET under way: what for, its scheme, over what, redirects
  man,         \* the manifest it read
  flash,       \* what Update.write took since Update.begin
  writeOk,     \* no write came up short
  range,       \* the range loop: offset, end, attempts, status, bytes got
  owed,        \* a check was asked for since the last one that was taken
  wanted       \* and one of those that asked wanted it forced

askVars  == <<requested, forced, pending, owed, wanted>>
loadVars == <<man, flash, writeOk, range>>
vars == <<wifi, cell, askVars, due, phase, run, get, loadVars>>

NoGet   == [what |-> "none", scheme |-> "https", via |-> "wifi", hops |-> 0]
NoRange == [offset |-> 0, end |-> 0, tries |-> 0, status |-> 0, got |-> 0]
NoMan   == [newer |-> FALSE, scheme |-> "https", size |-> 0, honest |-> FALSE]
NoRun   == [force |-> FALSE, asked |-> FALSE]

TypeOK ==
  /\ wifi \in BOOLEAN /\ cell \in BOOLEAN /\ requested \in BOOLEAN /\ forced \in BOOLEAN
  /\ pending \in {"config"} \cup OverrideUrls /\ due \in BOOLEAN
  /\ phase \in {"idle", "get", "body", "chunk", "range", "verify", "staged"}
  /\ run \in [force : BOOLEAN, asked : BOOLEAN]
  /\ get \in [what : {"none", "manifest", "binary"}, scheme : {"https", "http"},
              via : {"wifi", "cell"}, hops : 0..MaxHops]
  /\ man \in Manifests \cup {NoMan}
  /\ flash \in Seq(0..Size) /\ Len(flash) <= Size + 1 /\ writeOk \in BOOLEAN
  /\ range \in [offset : 0..Size, end : Nat, tries : 0..Tries, status : Statuses,
                got : 0..Size]
  /\ owed \in BOOLEAN /\ wanted \in BOOLEAN

Init ==
  /\ wifi \in BOOLEAN /\ cell = FALSE
  /\ requested = FALSE /\ forced = FALSE /\ pending = "config" /\ due = wifi
  /\ phase = "idle" /\ run = NoRun /\ get = NoGet /\ man = NoMan
  /\ flash = <<>> /\ writeOk = TRUE /\ range = NoRange
  /\ owed = FALSE /\ wanted = FALSE

-----------------------------------------------------------------------------
(* What asks for a check.  Console lines also run while a body is read,       *)
(* between two range requests, and wherever a failed open or send makes the   *)
(* modem recover; the other surfaces wait for the main loop.                  *)

Pumps == phase \in {"idle", "body", "chunk"} \/ (phase \in {"get", "range"} /\ get.via = "cell")

(* ota.check: triggerCheck.                                                   *)
Trigger(url, force) ==
  /\ Pumps
  /\ pending' = url /\ forced' = force /\ requested' = TRUE
  /\ owed' = TRUE /\ wanted' = (wanted \/ force)
  /\ UNCHANGED <<wifi, cell, due, phase, run, get, loadVars>>

(* A publish to ota.cmd_topic.                                                *)
CmdTopic ==
  /\ phase = "idle"
  /\ pending' = "config" /\ requested' = TRUE /\ owed' = TRUE
  /\ UNCHANGED <<wifi, cell, forced, wanted, due, phase, run, get, loadVars>>

(* The interval is over, by millis or by the clock in RTC memory.             *)
IntervalPasses ==
  /\ phase = "idle" /\ ~due /\ due' = TRUE
  /\ UNCHANGED <<wifi, cell, askVars, phase, run, get, loadVars>>

LinkChanges ==
  /\ \/ wifi' = ~wifi /\ UNCHANGED cell
     \/ cell' = ~cell /\ UNCHANGED wifi
  /\ UNCHANGED <<askVars, due, phase, run, get, loadVars>>

-----------------------------------------------------------------------------
(* check().                                                                   *)

TransportUp == wifi \/ cell
Via == IF wifi THEN "wifi" ELSE "cell"

(* otaUrlAllowed.                                                             *)
UrlAllowed(scheme) == scheme = "https" \/ Insecure

(* A check ends; loop() empties the override of one that was asked for.       *)
Finish ==
  /\ phase' = "idle" /\ run' = NoRun /\ get' = NoGet /\ man' = NoMan
  /\ flash' = <<>> /\ writeOk' = TRUE /\ range' = NoRange

\* Mutant: the request is cleared once its check is over.
EndsClearingRequest ==
  /\ Finish /\ requested' = FALSE /\ pending' = (IF run.asked THEN "config" ELSE pending)
  /\ UNCHANGED <<wifi, cell, forced, owed, wanted, due>>

Ends ==
  /\ Finish /\ pending' = (IF run.asked THEN "config" ELSE pending)
  /\ UNCHANGED <<wifi, cell, requested, forced, owed, wanted, due>>

Get(what, scheme, via) ==
  /\ phase' = "get"
  /\ get' = [what |-> what, scheme |-> scheme, via |-> via, hops |-> 0]

(* No transport, no CA, an insecure url or low heap refuse; else the manifest *)
(* is fetched.                                                                *)
Starts(scheme, force, asked) ==
  /\ TransportUp
  /\ run' = [force |-> force, asked |-> asked] /\ Get("manifest", scheme, Via)
  /\ UrlAllowed(scheme)
  /\ UNCHANGED loadVars

Scheme(url) == IF url = "config" THEN "https" ELSE url

(* loop(), with a check asked for: the flags are taken first, also when there *)
(* is no transport and the check is refused.                                  *)
TakeTrigger ==
  /\ phase = "idle" /\ requested
  /\ requested' = FALSE /\ forced' = FALSE /\ owed' = FALSE /\ wanted' = FALSE
  /\ \/ Starts(Scheme(pending), forced, TRUE) /\ UNCHANGED pending
     \/ Finish /\ pending' = "config"
  /\ UNCHANGED <<wifi, cell, due>>

(* loop() when the interval is over, and checkNow at boot.                    *)
Periodic ==
  /\ phase = "idle" /\ ~requested /\ due /\ TransportUp /\ due' = FALSE
  /\ Starts("https", FALSE, FALSE) \/ Finish
  /\ UNCHANGED <<wifi, cell, askVars>>

-----------------------------------------------------------------------------
(* One GET.  Over WiFi redirects are followed by hand, a hop at a time; over  *)
(* the modem a redirect is a status like any other that is not 200.           *)

UpNow == IF get.via = "wifi" THEN wifi ELSE cell

\* Mutant: any absolute redirect is followed.
RedirectAnywhere(from, to) == to # "relative"

(* otaRedirectAllowed.                                                        *)
RedirectAllowed(from, to) == to = from

Redirect(to) ==
  /\ phase = "get" /\ get.via = "wifi" /\ wifi
  /\ IF RedirectAllowed(get.scheme, to) /\ get.hops < MaxHops
       THEN /\ get' = [get EXCEPT !.scheme = to, !.hops = @ + 1]
            /\ UNCHANGED <<wifi, cell, askVars, due, phase, run, loadVars>>
       ELSE Ends

Answered ==
  /\ phase = "get" /\ UpNow /\ phase' = "body"
  /\ UNCHANGED <<wifi, cell, askVars, due, run, get, loadVars>>

(* No connection, a status that is not 200, a body the parser refuses, or a   *)
(* manifest nothing is downloaded for.                                        *)
GetFails == phase = "get" \/ (phase = "body" /\ get.what = "manifest")

(* fetchManifest read one that parses: otaShouldUpdate and the scheme of the  *)
(* binary decide, then the fled gate, then applyUpdate picks its transport.   *)
Downloads(m) == (m.newer \/ run.force) /\ UrlAllowed(m.scheme) /\ TransportUp

ManifestRead(m) ==
  /\ phase = "body" /\ get.what = "manifest" /\ Downloads(m)
  /\ man' = m /\ flash' = <<>> /\ writeOk' = TRUE
  /\ IF ~wifi /\ m.size > 0
       THEN /\ phase' = "chunk" /\ get' = [NoGet EXCEPT !.what = "binary", !.via = "cell"]
            /\ range' = [NoRange EXCEPT !.end = Least(Chunk, m.size) - 1]
       ELSE Get("binary", m.scheme, Via) /\ UNCHANGED range
  /\ UNCHANGED <<wifi, cell, askVars, due, run>>

(* The body of a binary GET: the image or, from some byte on, another one; a  *)
(* write that comes up short ends it.                                         *)
NextBytes == {0} \cup {i \in 1..Size : flash = SubSeq(Image, 1, i - 1)}

BodyByte ==
  /\ phase = "body" /\ get.what = "binary" /\ Len(flash) <= Size
  /\ \/ flash' \in {Append(flash, b) : b \in NextBytes} /\ UNCHANGED <<writeOk, phase>>
     \/ UNCHANGED flash /\ writeOk' = FALSE /\ phase' = "verify"
  /\ UNCHANGED <<wifi, cell, askVars, due, run, get, man, range>>

BodyEnds ==
  /\ phase = "body" /\ get.what = "binary" /\ phase' = "verify"
  /\ UNCHANGED <<wifi, cell, askVars, due, run, get, loadVars>>

-----------------------------------------------------------------------------
(* downloadBinaryChunkedCellular.  Offsets count from 0, as in the Range      *)
(* header; a 206 carries the bytes from the offset on and may not stop at the *)
(* end asked for, a 200 carries the image from its first byte.                *)

Whole == range.offset = 0 /\ range.end = man.size - 1

(* The statuses whose body reaches flash.                                     *)
Takes == range.status = 206 \/ (range.status = 200 /\ Whole)

RangeRequest(status) ==
  /\ phase = "chunk" /\ phase' = "range"
  /\ status # 0 => cell
  /\ range' = [range EXCEPT !.tries = @ + 1, !.status = status, !.got = 0]
  /\ UNCHANGED <<wifi, cell, askVars, due, run, get, man, flash, writeOk>>

\* Mutant: a chunk that broke off is asked for again from its start.
ResumedFromStart(got) == range.offset

(* Where the next request starts.                                             *)
Resumed(got) == range.offset + got

(* The response is over with `got` bytes taken: the chunk is done, the status *)
(* is fatal, the tries are spent, or the rest is asked for again.             *)
ResponseOver(got) ==
  LET at == Resumed(got)
  IN IF at > range.end
       THEN IF range.end + 1 >= man.size
              THEN phase' = "verify" /\ range' = [range EXCEPT !.offset = range.end + 1, !.got = 0]
              ELSE /\ phase' = "chunk"
                   /\ range' = [NoRange EXCEPT !.offset = range.end + 1,
                                  !.end = Least(range.end + 1 + Chunk, man.size) - 1]
     ELSE IF (range.status # 0 /\ ~Takes) \/ range.tries = Tries
       THEN phase' = "verify" /\ range' = [range EXCEPT !.offset = at, !.got = 0]
     ELSE phase' = "chunk" /\ range' = [range EXCEPT !.offset = at, !.got = 0]

(* n bytes arrive.  What is past the end is dropped and ends the response, as *)
(* a status that is not taken and a short write do.                           *)
RangeBytes(n) ==
  LET from == (IF range.status = 206 THEN range.offset ELSE 0) + range.got
      room == range.end + 1 - (range.offset + range.got)
      k    == Least(n, room)
  IN /\ phase = "range" /\ range.status # 0 /\ from + n <= Size
     /\ IF ~Takes \/ ~writeOk THEN ResponseOver(range.got) /\ UNCHANGED <<flash, writeOk>>
        ELSE \/ /\ flash' = flash \o SubSeq(Image, from + 1, from + k) /\ UNCHANGED writeOk
                /\ IF n > room THEN ResponseOver(range.got + k)
                   ELSE range' = [range EXCEPT !.got = @ + k] /\ UNCHANGED phase
             \/ writeOk' = FALSE /\ UNCHANGED flash /\ ResponseOver(range.got)
     /\ UNCHANGED <<wifi, cell, askVars, due, run, get, man>>

(* The response ends, or breaks off.                                          *)
RangeEnds ==
  /\ phase = "range" /\ ResponseOver(range.got)
  /\ UNCHANGED <<wifi, cell, askVars, due, run, get, man, flash, writeOk>>

-----------------------------------------------------------------------------
(* applyUpdate after the download: enough bytes, all of them written, and the *)
(* digest of the manifest; Update.end may still fail.                         *)

\* Mutant: a download as long as the manifest says is taken for verified.
VerifiedByLength == writeOk /\ flash # <<>> /\ Len(flash) >= man.size

Verified == /\ writeOk /\ flash # <<>> /\ Len(flash) >= man.size
            /\ man.honest /\ flash = Image

Activate ==
  /\ phase = "verify" /\ Verified /\ phase' = "staged"
  /\ UNCHANGED <<wifi, cell, askVars, due, run, get, loadVars>>

Fails == (GetFails \/ phase = "verify") /\ Ends

(* plannedRestart into the staged image: everything in RAM is gone.           *)
InstallRestart ==
  /\ phase = "staged" /\ Finish
  /\ requested' = FALSE /\ forced' = FALSE /\ pending' = "config" /\ due' = wifi
  /\ owed' = FALSE /\ wanted' = FALSE /\ UNCHANGED <<wifi, cell>>

Next ==
  \/ \E url \in {"config"} \cup OverrideUrls, force \in BOOLEAN : Trigger(url, force)
  \/ CmdTopic \/ IntervalPasses \/ LinkChanges \/ TakeTrigger \/ Periodic
  \/ \E to \in {"https", "http", "relative"} : Redirect(to)
  \/ Answered \/ \E m \in Manifests : ManifestRead(m)
  \/ BodyByte
  \/ BodyEnds \/ \E status \in Statuses : RangeRequest(status)
  \/ \E n \in 1..Size : RangeBytes(n)
  \/ RangeEnds \/ Activate \/ Fails \/ InstallRestart

Spec == Init /\ [][Next]_vars

-----------------------------------------------------------------------------
(* Properties.                                                                *)

(* Between two range requests flash holds the first bytes of the image, in    *)
(* order, none twice and none missing, whatever broke off, overran, was       *)
(* answered with another status or was retried.                               *)
FlashInOrder ==
  phase \in {"chunk", "range"} /\ writeOk =>
    flash = SubSeq(Image, 1, range.offset + range.got)

(* docs/invariants.md: "OTA fetches a manifest or binary only from an         *)
(* https:// URL", at every hop.                                               *)
SchemeKept == phase \in {"get", "body"} /\ get.via = "wifi" /\ ~Insecure => get.scheme = "https"

(* A check asked for while another one runs is not forgotten with it, and a   *)
(* check is forced only when somebody asked for a forced one.                 *)
AskedIsKept == (owed => requested) /\ (forced => wanted)

(* Only the whole image the manifest names is staged.                         *)
StagedWhole == phase = "staged" => flash = Image /\ man.honest

PullSound == FlashInOrder /\ SchemeKept /\ AskedIsKept /\ StagedWhole
=============================================================================
