----------------------------- MODULE FileUpload -----------------------------
(* POST and DELETE /api/file.  The body is buffered chunk by chunk, then      *)
(* written beside its target and moved over it, on LittleFS in one rename, on *)
(* the FAT card by parking the old file.  Any file operation may fail and the *)
(* power may go between any two.  Only one such handler runs at a time, and   *)
(* both staging names are shared by every file of a directory.                *)
EXTENDS Integers, Sequences, FiniteSets

CONSTANTS Files,     \* the files of one directory
          BodyMax,   \* HTTP_BODY_FILE_MAX, in bytes
          MaxBody    \* bound: the longest body a client declares

VARIABLES
  volume,    \* where the directory is: "lfs" or "fat"
  pc,        \* "idle", "body", or the next file operation of the commit
  target,    \* the file the request names
  authed,    \* its credential authenticates at this moment
  declared,  \* Content-Length
  chunked,   \* Transfer-Encoding is present
  body,      \* req->_tempObject: NoBody, Refused, or the bytes held so far
  accepted,  \* the bytes handed to _fileWriteAtomic
  files,     \* what is at each name: NoFile, or whose data and whether whole
  tmp, bak,  \* the same for .upload.tmp and .upload.bak
  parked,    \* fatCommit's local
  owned      \* the files a client stored, nobody deleted, and no other file's
             \* upload found stranded

reqVars == <<target, authed, declared, chunked, body, accepted>>
fsVars  == <<files, tmp, bak>>
vars == <<volume, pc, reqVars, fsVars, parked, owned>>

NoBody  == [state |-> "none", data |-> <<>>]
Refused == [state |-> "refused", data |-> <<>>]
NoFile  == [of |-> "nobody", whole |-> FALSE]
Whole(f) == [of |-> f, whole |-> TRUE]
Torn(f)  == [of |-> f, whole |-> FALSE]
Steps    == {"idle", "body", "write", "check", "unpark", "park", "move", "restore", "tidy"}

TypeOK ==
  /\ volume \in {"lfs", "fat"} /\ pc \in Steps /\ target \in Files /\ authed \in BOOLEAN /\ chunked \in BOOLEAN
  /\ declared \in 0..MaxBody /\ body.state \in {"none", "refused", "held"}
  /\ Len(body.data) <= declared
  /\ LET Content == [of : Files, whole : BOOLEAN] \cup {NoFile}
     IN files \in [Files -> Content] /\ tmp \in Content /\ bak \in Content
  /\ parked \in BOOLEAN /\ owned \subseteq Files

Init ==
  /\ volume \in {"lfs", "fat"} /\ pc = "idle" /\ target \in Files /\ authed = FALSE /\ declared = 0
  /\ chunked = FALSE /\ body = NoBody /\ accepted = <<>>
  /\ files = [f \in Files |-> NoFile] /\ tmp = NoFile /\ bak = NoFile
  /\ parked = FALSE /\ owned = {}

-----------------------------------------------------------------------------
(* The request's body.                                                        *)

Request(f, n, te, good) ==
  /\ pc = "idle"
  /\ pc' = "body" /\ target' = f /\ authed' = good /\ chunked' = te
  /\ declared' = IF te THEN 0 ELSE n
  /\ body' = NoBody /\ accepted' = <<>>
  /\ UNCHANGED <<fsVars, parked, owned>>

(* The token expires, or the credential changes, while the body arrives.      *)
AuthChanges ==
  /\ pc = "body" /\ authed' = ~authed
  /\ UNCHANGED <<pc, target, declared, chunked, body, accepted, fsVars, parked, owned>>

(* httpBodyBegin, at the first chunk of an authorised request; malloc may     *)
(* fail.                                                                      *)
Begin(index, alloc) ==
  IF index # 0 \/ ~authed THEN body
  ELSE IF declared = 0 \/ declared > BodyMax \/ ~alloc THEN NoBody
  ELSE [state |-> "held", data |-> <<>>]

Bytes(index, n) == [i \in 1..n |-> index + i]

\* Mutant: a chunk is appended wherever it says it starts.
AppendAnywhere(b, index, n) ==
  IF b.state # "held" THEN b
  ELSE IF n > declared - Len(b.data) THEN Refused
  ELSE [b EXCEPT !.data = @ \o Bytes(index, n)]

(* httpBodyAppend: a chunk out of place, or past the declared end, spoils the *)
(* body for good.                                                             *)
AppendChunk(b, index, n) ==
  IF b.state # "held" THEN b
  ELSE IF index # Len(b.data) \/ n > declared - Len(b.data) THEN Refused
  ELSE [b EXCEPT !.data = @ \o Bytes(index, n)]

Chunk(index, n, alloc) ==
  /\ pc = "body"
  /\ body' = AppendChunk(Begin(index, alloc), index, n)
  /\ UNCHANGED <<pc, target, authed, declared, chunked, accepted, fsVars, parked, owned>>

(* httpBodyVerdict, on a request whose credential is checked again.           *)
Verdict ==
  IF ~authed THEN "unauthorized"
  ELSE IF chunked THEN "length required"
  ELSE IF declared = 0 THEN "empty"
  ELSE IF declared > BodyMax THEN "too large"
  ELSE IF body.state # "held" \/ Len(body.data) # declared THEN "incomplete"
  ELSE "ok"

(* The request is answered with an error: by the verdict, shell.mode, or a    *)
(* path that is unsafe or a staging name.                                     *)
Refuse ==
  /\ pc = "body" /\ pc' = "idle" /\ body' = NoBody
  /\ UNCHANGED <<target, authed, declared, chunked, accepted, fsVars, parked, owned>>

Accept ==
  /\ pc = "body" /\ Verdict \in {"ok", "empty"}
  /\ accepted' = (IF Verdict = "ok" THEN body.data ELSE <<>>)
  /\ pc' = "write" /\ body' = NoBody
  /\ UNCHANGED <<target, authed, declared, chunked, fsVars, parked, owned>>

-----------------------------------------------------------------------------
(* _fileWriteAtomic, one file operation per step.                             *)

GoTo(step) == pc' = step /\ UNCHANGED <<reqVars, owned>>

(* remove(tmp) after a failure: its own result is not looked at.              *)
DropTmp == tmp' \in {NoFile, tmp}

(* The tmp file does not open, or takes the data whole or short.  From here   *)
(* on it is no longer the copy of another file a failed commit stranded.      *)
WriteTmp ==
  /\ pc = "write"
  /\ \/ /\ tmp' \in {Whole(target), Torn(target)} /\ pc' = "check"
        /\ owned' = {f \in owned : f = target \/ files[f] # NoFile}
     \/ pc' = "idle" /\ UNCHANGED <<tmp, owned>>
  /\ UNCHANGED <<reqVars, files, bak, parked>>

\* Mutant: the size is not read back.
CheckTmpBlind ==
  /\ pc = "check"
  /\ UNCHANGED tmp /\ GoTo(IF volume = "lfs" THEN "move" ELSE "unpark")
  /\ parked' = FALSE /\ UNCHANGED <<files, bak>>

(* fileWriteLanded: the size read back after the close decides.               *)
CheckTmp ==
  /\ pc = "check"
  /\ IF tmp.whole
       THEN UNCHANGED tmp /\ GoTo(IF volume = "lfs" THEN "move" ELSE "unpark")
       ELSE DropTmp /\ GoTo("idle")
  /\ parked' = FALSE /\ UNCHANGED <<files, bak>>

(* fatCommit.                                                                 *)
Unpark ==
  /\ pc = "unpark"
  /\ IF files[target] = NoFile THEN GoTo("move") /\ UNCHANGED bak
     ELSE GoTo("park") /\ bak' \in {NoFile, bak}
  /\ UNCHANGED <<files, tmp, parked>>

\* Mutant: the old file is removed to make room, not kept aside.
ParkRemoves ==
  /\ pc = "park"
  /\ files' = [files EXCEPT ![target] = NoFile]
  /\ parked' = TRUE /\ GoTo("move") /\ UNCHANGED <<tmp, bak>>

(* A rename on FAT fails when its destination exists.                         *)
Park ==
  /\ pc = "park"
  /\ \/ /\ bak = NoFile
        /\ bak' = files[target] /\ files' = [files EXCEPT ![target] = NoFile]
        /\ parked' = TRUE /\ GoTo("move") /\ UNCHANGED tmp
     \/ DropTmp /\ GoTo("idle") /\ UNCHANGED <<files, bak, parked>>

Move ==
  /\ pc = "move"
  /\ \/ /\ files' = [files EXCEPT ![target] = tmp] /\ tmp' = NoFile
        /\ pc' = (IF parked THEN "tidy" ELSE "idle")
        /\ owned' = owned \cup {target}
        /\ UNCHANGED <<bak, reqVars, parked>>
     \/ /\ IF parked THEN GoTo("restore") /\ UNCHANGED tmp
                     ELSE DropTmp /\ GoTo("idle")
        /\ UNCHANGED <<files, bak, parked>>

(* The old file goes back, or both stay where they are (FAT_COMMIT_STRANDED). *)
Restore ==
  /\ pc = "restore"
  /\ \/ /\ files' = [files EXCEPT ![target] = bak] /\ bak' = NoFile
        /\ DropTmp /\ GoTo("idle")
     \/ GoTo("idle") /\ UNCHANGED fsVars
  /\ UNCHANGED parked

Tidy ==
  /\ pc = "tidy" /\ bak' \in {NoFile, bak}
  /\ GoTo("idle") /\ UNCHANGED <<files, tmp, parked>>

Delete(f) ==
  /\ pc = "idle" /\ files[f] # NoFile
  /\ files' = [files EXCEPT ![f] = NoFile] /\ owned' = owned \ {f}
  /\ UNCHANGED <<pc, reqVars, tmp, bak, parked>>

(* A power cut during the write is one before the check, with tmp torn.       *)
PowerCut ==
  /\ pc # "idle" /\ pc' = "idle"
  /\ UNCHANGED tmp
  /\ body' = NoBody /\ parked' = FALSE
  /\ UNCHANGED <<target, authed, declared, chunked, accepted, files, bak, owned>>

Step ==
  \/ \E f \in Files, n \in 0..MaxBody, te, good \in BOOLEAN : Request(f, n, te, good)
  \/ AuthChanges \/ Refuse \/ Accept
  \/ \E index \in 0..(MaxBody - 1), n \in 1..2, alloc \in BOOLEAN : Chunk(index, n, alloc)
  \/ WriteTmp \/ CheckTmp \/ Unpark \/ Park \/ Move \/ Restore \/ Tidy
  \/ \E f \in Files : Delete(f)
  \/ PowerCut

Next == UNCHANGED volume /\ Step

Spec == Init /\ [][Next]_vars

-----------------------------------------------------------------------------
(* Properties.                                                                *)

(* What is written is the declared body, every byte at its own place, and it  *)
(* never exceeds the cap: a chunk lost, repeated or out of order, or a        *)
(* credential that was not good at the first chunk, refuses the request.      *)
BodyExact ==
  pc = "write" => accepted = Bytes(0, declared) /\ declared <= BodyMax

(* No name ever holds half a file: a short write, a full card or a power cut  *)
(* leaves the whole old file, the whole new one, or nothing under the name.   *)
TargetsWhole == \A f \in Files : files[f] \in {NoFile, Whole(f)}

(* A file a client stored is under its own name or under one of the staging   *)
(* names after any failing step or power cut, until an upload to another      *)
(* file of the directory reuses those names.                                  *)
Kept(f) == Whole(f) \in {files[f], tmp, bak}
SomeCopySurvives ==
  \A f \in owned : Kept(f)

(* The three promises of the upload route together.                           *)
UploadSound == BodyExact /\ TargetsWhole /\ SomeCopySurvives
=============================================================================
