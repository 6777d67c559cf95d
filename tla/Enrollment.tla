----------------------------- MODULE Enrollment -----------------------------
(* First-boot enrollment and the client certificate: a unit mints its keypair,*)
(* announces itself to the app, proves it holds the key, polls for its        *)
(* certificate, stores it, restarts onto it, and seals the enrollment over    *)
(* mTLS; afterwards it asks the app from time to time whether the certificate *)
(* was revoked.  Each request runs on a task of its own, its answer may be    *)
(* lost or late, every stored value is a write of its own, and the power may  *)
(* go between any two.                                                        *)
EXTENDS Integers, FiniteSets

CONSTANTS
  MaxSerial,   \* bound: certificates the app issues to this unit
  MaxMishaps   \* bound: lost answers, failed writes, power cuts, prunings, pushed halves

Issued  == 1..MaxSerial                  \* by the app, at an enrollment
ByHand  == {MaxSerial + 1, MaxSerial + 2}  \* by an operator, apart from any enrollment
Serials == Issued \cup ByHand
MaxMint == MaxMishaps + 2   \* bound: a mint for each mishap, a reset, and the last
None    == 0

VARIABLES
  phase,      \* "identity" and "enroll" while booting, then "run"
  ident,      \* NVS thesada-ident: the keypairs sk and pk are of, and the id
  minted,     \* keypairs generated so far
  ready,      \* Identity::_ready
  step,       \* EnrollStep
  active,     \* Enroll::_active
  job,        \* _job: what is asked, for which serial, and its answer
  stale,      \* _stale: what a task that overran still asks, or "nothing"
  storing,    \* how far onCert is, or "no"
  nvs,        \* the stored halves and the ack flag: cert, key, ack
  saved,      \* config.json names the enrolled broker
  dialing,    \* begin() read that broker at boot
  mtls,       \* serial of the live mTLS session, or None
  broken,     \* _storedCertBroken
  reboot,     \* _certRebootPending
  due,        \* _check.due
  app,        \* the app: how far it is with this unit, the serial, the seal
  revoked,    \* serials it has revoked
  mishaps

identVars  == <<phase, ident, minted, ready>>
enrollVars == <<step, active, job, stale, storing>>
storeVars  == <<nvs, saved>>
linkVars   == <<dialing, mtls, broken, reboot>>
appVars    == <<app, revoked>>
vars == <<identVars, enrollVars, storeVars, linkVars, due, appVars, mishaps>>

NoJob    == [ask |-> "nothing", serial |-> None, answer |-> "none"]
Blank    == [sk |-> None, pk |-> None, id |-> FALSE]
Requests == {"announce", "verify", "poll", "ack", "status"}
Answers  == {"none", "ok", "later", "refused", "lost", "revoked"}

TypeOK ==
  /\ phase \in {"identity", "enroll", "run"}
  /\ ident \in [sk : 0..MaxMint, pk : 0..MaxMint, id : BOOLEAN]
  /\ minted \in 0..MaxMint /\ ready \in BOOLEAN
  /\ step \in {"announce", "verify", "poll", "awaitMtls", "ack", "done"}
  /\ active \in BOOLEAN /\ stale \in Requests \cup {"nothing"}
  /\ job \in {NoJob} \cup [ask : Requests, serial : Serials \cup {None}, answer : Answers]
  /\ storing \in {"no", "ack", "save", "cert", "key", "undo"}
  /\ nvs \in [cert : Serials \cup {None}, key : Serials \cup {None}, ack : BOOLEAN]
  /\ saved \in BOOLEAN /\ dialing \in BOOLEAN /\ mtls \in Serials \cup {None}
  /\ broken \in BOOLEAN /\ reboot \in BOOLEAN /\ due \in BOOLEAN
  /\ app \in [at : {"unknown", "challenged", "verified", "claimed"},
              serial : 0..MaxSerial, sealed : BOOLEAN]
  /\ revoked \subseteq Issued /\ mishaps \in 0..MaxMishaps

Init ==
  /\ phase = "identity"
  /\ ident = Blank /\ minted = 0 /\ ready = FALSE
  /\ step = "done" /\ active = FALSE /\ job = NoJob /\ stale = "nothing" /\ storing = "no"
  /\ nvs = [cert |-> None, key |-> None, ack |-> FALSE] /\ saved = FALSE
  /\ dialing = FALSE /\ mtls = None /\ broken = FALSE /\ reboot = FALSE /\ due = FALSE
  /\ app = [at |-> "unknown", serial |-> None, sealed |-> FALSE] /\ revoked = {}
  /\ mishaps = 0

Mishap == mishaps < MaxMishaps /\ mishaps' = mishaps + 1

HasCert   == nvs.cert # None /\ nvs.key # None   \* hasClientCert
PairValid == HasCert /\ nvs.cert = nvs.key       \* mbedtls_pk_check_pair

-----------------------------------------------------------------------------
(* Booting: Identity::begin, then MQTTClient::begin and Enroll::begin.        *)

(* loadExisting: the id and the public key must both be there.  The id comes  *)
(* from the MAC, so it is the same for every keypair.                         *)
Loads == ident.id /\ ident.pk # None

Whole(n) == [sk |-> n, pk |-> n, id |-> TRUE]

\* Mutant: the secret key is written last.
MintWritesSecretLast(n) ==
  {ident, [ident EXCEPT !.id = TRUE], [ident EXCEPT !.id = TRUE, !.pk = n], Whole(n)}

(* generate writes the secret key, the public key, then the id and commits:   *)
(* what it leaves when a write fails or the power goes.                       *)
MintWrites(n) ==
  {ident, [ident EXCEPT !.sk = n], [ident EXCEPT !.sk = n, !.pk = n], Whole(n)}

IdentityBegin ==
  /\ phase = "identity"
  /\ \/ /\ Loads /\ ready' = TRUE /\ phase' = "enroll" /\ UNCHANGED <<ident, minted, mishaps>>
     \/ /\ ~Loads /\ minted < MaxMint /\ minted' = minted + 1
        /\ \/ /\ ident' = Whole(minted + 1) /\ ready' = TRUE
              /\ phase' = "enroll" /\ UNCHANGED mishaps
           \/ /\ ident' \in MintWrites(minted + 1) /\ ready' = FALSE
              /\ phase' \in {"identity", "enroll"} /\ Mishap
  /\ UNCHANGED <<enrollVars, storeVars, linkVars, due, appVars>>

\* Mutant: an ack that is owed decides before the certificate is looked for.
StartStepAckFirst == IF nvs.ack THEN "awaitMtls" ELSE IF HasCert THEN "done" ELSE "announce"

(* enrollStartStep.                                                           *)
StartStep == IF ~HasCert THEN "announce" ELSE IF nvs.ack THEN "awaitMtls" ELSE "done"

(* Enroll::begin, with a usable url and a seeded claim code.                  *)
EnrollBegin ==
  /\ phase = "enroll" /\ phase' = "run" /\ dialing' = saved
  /\ IF ready
       THEN /\ \/ nvs' = [nvs EXCEPT !.ack = @ /\ HasCert] /\ UNCHANGED mishaps
               \/ nvs.ack /\ ~HasCert /\ Mishap /\ UNCHANGED nvs
            /\ step' = StartStep /\ active' = (step' # "done") /\ due' = (step' = "done")
       ELSE UNCHANGED <<nvs, step, active, due, mishaps>>
  /\ UNCHANGED <<ident, minted, ready, job, stale, storing, saved, mtls, broken, reboot,
                 appVars>>

(* Every restart: RAM and the requests under way are gone.                    *)
Restarts ==
  /\ phase' = "identity" /\ ready' = FALSE
  /\ step' = "done" /\ active' = FALSE /\ job' = NoJob /\ stale' = "nothing" /\ storing' = "no"
  /\ dialing' = FALSE /\ mtls' = None /\ broken' = FALSE /\ reboot' = FALSE /\ due' = FALSE
  /\ UNCHANGED <<minted, storeVars, appVars>>

PowerCut == phase = "run" /\ Mishap /\ Restarts /\ UNCHANGED ident

(* serviceCertReboot, three seconds after it was asked for.                   *)
CertReboot == phase = "run" /\ storing = "no" /\ reboot /\ Restarts /\ UNCHANGED <<ident, mishaps>>

-----------------------------------------------------------------------------
(* connect(): the stored pair is judged, and used on the enrolled broker.     *)

Connect ==
  /\ phase = "run" /\ storing = "no"
  /\ broken' = (HasCert /\ ~PairValid)
  /\ mtls' = IF PairValid /\ dialing THEN nvs.cert ELSE None
  /\ UNCHANGED <<identVars, enrollVars, storeVars, dialing, reboot, due, appVars, mishaps>>

-----------------------------------------------------------------------------
(* One POST at a time, on its own task.                                       *)

Idle == phase = "run" /\ storing = "no" /\ job = NoJob /\ stale = "nothing"

(* Enroll::loop while enrolling: a request, or the wait for a session.        *)
StartJob ==
  /\ Idle /\ active /\ step \in {"announce", "verify", "poll", "ack"} /\ ~reboot
  /\ job' = [NoJob EXCEPT !.ask = step]
  /\ UNCHANGED <<identVars, step, active, stale, storing, storeVars, linkVars, due,
                 appVars, mishaps>>

AwaitMtls ==
  /\ Idle /\ active /\ step = "awaitMtls" /\ mtls # None
  /\ step' = "ack"
  /\ UNCHANGED <<identVars, active, job, stale, storing, storeVars, linkVars, due,
                 appVars, mishaps>>

(* startCheck: the serial asked about is the stored certificate's now.        *)
StartCheck ==
  /\ Idle /\ ~active /\ due /\ ~reboot
  /\ due' = FALSE
  /\ job' = IF nvs.cert = None THEN NoJob
            ELSE [NoJob EXCEPT !.ask = "status", !.serial = nvs.cert]
  /\ UNCHANGED <<identVars, step, active, stale, storing, storeVars, linkVars, appVars,
                 mishaps>>

(* The app, as far as the unit relies on it.  A verification attempt burns    *)
(* the challenge; a claimed unit gets one certificate until it is sealed.     *)
Serve(ask) ==
  CASE ask = "announce" -> app' = [app EXCEPT !.at = "challenged", !.sealed = FALSE]
    [] ask = "verify"   -> app' = [app EXCEPT !.at = IF @ = "challenged" THEN "verified"
                                                                       ELSE "unknown"]
    [] ask = "ack"      -> app' = [app EXCEPT !.sealed = TRUE]
    [] OTHER            -> UNCHANGED app

Says(ask) ==
  CASE ask = "verify" -> IF app.at = "challenged" THEN "ok" ELSE "refused"
    [] ask = "poll"   -> IF app.at = "claimed" THEN "ok"
                         ELSE IF app.at = "verified" THEN "later" ELSE "refused"
    [] ask = "status" -> IF job.serial \in revoked THEN "revoked" ELSE "ok"
    [] OTHER          -> "ok"

(* The task ends: the request never arrived, its answer was lost, or it came. *)
TaskDone ==
  /\ job # NoJob /\ job.answer = "none"
  /\ \/ Serve(job.ask) /\ job' = [job EXCEPT !.answer = Says(job.ask)] /\ UNCHANGED mishaps
     \/ Serve(job.ask) /\ job' = [job EXCEPT !.answer = "lost"] /\ Mishap
     \/ UNCHANGED app /\ job' = [job EXCEPT !.answer = "lost"] /\ Mishap
  /\ UNCHANGED <<identVars, step, active, stale, storing, storeVars, linkVars, due, revoked>>

(* enrollOnResponse, and what a finished enrollment schedules.                *)
Advance(answer) ==
  LET next == CASE step = "announce" -> IF answer = "ok" THEN "verify" ELSE "announce"
                [] step = "verify"   -> IF answer = "ok" THEN "poll" ELSE "announce"
                [] step = "poll"     -> IF answer = "ok" THEN "awaitMtls"
                                        ELSE IF answer = "refused" THEN "announce" ELSE "poll"
                [] step = "ack"      -> IF answer = "ok" THEN "done" ELSE "ack"
                [] OTHER             -> step
  IN step' = next /\ active' = (active /\ next # "done") /\ due' = (due \/ next = "done")

(* Sixty seconds pass first: the answer is abandoned with its job.            *)
Overrun ==
  /\ job # NoJob /\ job.answer = "none" /\ Mishap
  /\ stale' = job.ask /\ job' = NoJob
  /\ IF job.ask = "status" THEN due' = TRUE /\ UNCHANGED <<step, active>>
                           ELSE Advance("lost")
  /\ UNCHANGED <<identVars, storing, storeVars, linkVars, appVars>>

(* Its task ends some time later: the app may still have been asked.          *)
ReapStale ==
  /\ stale # "nothing" /\ stale' = "nothing"
  /\ Serve(stale) \/ UNCHANGED app
  /\ UNCHANGED <<identVars, step, active, job, storing, storeVars, linkVars, due, revoked,
                 mishaps>>

(* finishJob, for everything but a certificate and a status.                  *)
FinishJob ==
  /\ job.ask \in {"announce", "verify", "poll"} /\ job.answer # "none" /\ storing = "no"
  /\ ~(job.ask = "poll" /\ job.answer = "ok")
  /\ job' = NoJob /\ Advance(job.answer)
  /\ UNCHANGED <<identVars, stale, storing, storeVars, linkVars, appVars, mishaps>>

(* The ack: only a flag that could be cleared ends the enrollment.            *)
FinishAck ==
  /\ job.ask = "ack" /\ job.answer # "none"
  /\ job' = NoJob
  /\ \/ /\ nvs' = [nvs EXCEPT !.ack = @ /\ job.answer # "ok"]
        /\ Advance(job.answer) /\ UNCHANGED mishaps
     \/ job.answer = "ok" /\ Mishap /\ Advance("lost") /\ UNCHANGED nvs
  /\ UNCHANGED <<identVars, stale, storing, saved, linkVars, appVars>>

-----------------------------------------------------------------------------
(* onCert: the ack flag, the broker, the certificate, its key; then a restart *)
(* onto them.  A write that fails takes the flag back and polls again.        *)

BeginStore ==
  /\ job.ask = "poll" /\ job.answer = "ok" /\ storing = "no"
  /\ storing' = "ack"
  /\ UNCHANGED <<identVars, step, active, job, stale, storeVars, linkVars, due, appVars,
                 mishaps>>

After(w) == CASE w = "ack" -> "save" [] w = "save" -> "cert" [] w = "cert" -> "key"

Stored(w) ==
  CASE w = "ack"  -> nvs' = [nvs EXCEPT !.ack = TRUE] /\ UNCHANGED saved
    [] w = "save" -> saved' = TRUE /\ UNCHANGED nvs
    [] w = "cert" -> nvs' = [nvs EXCEPT !.cert = app.serial] /\ UNCHANGED saved

StoreNext ==
  /\ storing \in {"ack", "save", "cert"}
  /\ \/ Stored(storing) /\ storing' = After(storing) /\ UNCHANGED mishaps
     \/ UNCHANGED storeVars /\ storing' = "undo" /\ Mishap
  /\ UNCHANGED <<identVars, step, active, job, stale, linkVars, due, appVars>>

StoreKey ==
  /\ storing = "key"
  /\ \/ /\ nvs' = [nvs EXCEPT !.key = app.serial] /\ broken' = FALSE /\ reboot' = TRUE
        /\ storing' = "no" /\ job' = NoJob /\ Advance("ok") /\ UNCHANGED mishaps
     \/ /\ storing' = "undo" /\ Mishap
        /\ UNCHANGED <<nvs, broken, reboot, job, step, active, due>>
  /\ UNCHANGED <<identVars, stale, saved, dialing, mtls, appVars>>

UndoStore ==
  /\ storing = "undo" /\ storing' = "no"
  /\ \/ nvs' = [nvs EXCEPT !.ack = FALSE] /\ UNCHANGED mishaps
     \/ UNCHANGED nvs /\ Mishap
  /\ job' = NoJob /\ Advance("lost")
  /\ UNCHANGED <<identVars, stale, saved, linkVars, appVars>>

-----------------------------------------------------------------------------
(* clearClientCert: both halves go, or a half whose removal failed is left.   *)
Cleared == nvs' = [nvs EXCEPT !.cert = None, !.key = None] /\ broken' = FALSE

ClearFailed ==
  /\ nvs' \in {nvs, [nvs EXCEPT !.cert = None], [nvs EXCEPT !.key = None]}
  /\ nvs'.cert # None \/ nvs'.key # None
  /\ Mishap /\ UNCHANGED broken

(* finishCheck: an explicit "revoked" for the serial asked about wipes the    *)
(* stored certificate.  The ack flag is down: the enrollment was done.        *)
FinishCheck ==
  /\ job.ask = "status" /\ job.answer # "none"
  /\ job' = NoJob
  /\ \/ job.answer # "revoked" /\ due' = TRUE /\ UNCHANGED <<nvs, broken, reboot, mishaps>>
     \/ job.answer = "revoked" /\ Cleared /\ reboot' = TRUE /\ UNCHANGED <<due, mishaps>>
     \/ job.answer = "revoked" /\ ClearFailed /\ due' = TRUE /\ UNCHANGED reboot
  /\ UNCHANGED <<identVars, step, active, stale, storing, saved, dialing, mtls, appVars>>

(* The owner claims the unit, the app prunes an idle one, or revokes.         *)
Claim ==
  /\ app.at = "verified" /\ app.serial < MaxSerial
  /\ app' = [app EXCEPT !.at = "claimed", !.serial = @ + 1]
  /\ UNCHANGED <<identVars, enrollVars, storeVars, linkVars, due, revoked, mishaps>>

Prune ==
  /\ app.at \in {"challenged", "verified"} /\ Mishap
  /\ app' = [app EXCEPT !.at = "unknown"]
  /\ UNCHANGED <<identVars, enrollVars, storeVars, linkVars, due, revoked>>

(* Bound: a certificate is left for every mishap still to come.               *)
Revoke(n) ==
  /\ n <= app.serial /\ n \notin revoked
  /\ MaxSerial - app.serial > MaxMishaps - mishaps
  /\ revoked' = revoked \cup {n}
  /\ app' = [app EXCEPT !.at = IF n = app.serial THEN "unknown" ELSE @]
  /\ UNCHANGED <<identVars, enrollVars, storeVars, linkVars, due, mishaps>>

-----------------------------------------------------------------------------
(* The operator's commands: cert.set stores one half unchecked, cert.apply    *)
(* judges the pair, cert.clear needs an mTLS session or a broken pair.        *)

Command == phase = "run" /\ storing = "no"

\* Mutant: storing a half leaves the verdict on the pair as it was.
CertSetKeepsVerdict(half, n) ==
  /\ Command /\ Mishap
  /\ nvs' = [nvs EXCEPT ![half] = n]
  /\ UNCHANGED <<identVars, enrollVars, saved, linkVars, due, appVars>>

CertSet(half, n) ==
  /\ Command /\ Mishap
  /\ nvs' = [nvs EXCEPT ![half] = n] /\ broken' = FALSE
  /\ UNCHANGED <<identVars, enrollVars, saved, dialing, mtls, reboot, due, appVars>>

CertApply ==
  /\ Command /\ HasCert
  /\ broken' = ~PairValid /\ reboot' = (reboot \/ PairValid)
  /\ UNCHANGED <<identVars, enrollVars, storeVars, dialing, mtls, due, appVars, mishaps>>

CertClear ==
  /\ Command /\ (mtls # None \/ broken)
  /\ \/ Cleared /\ reboot' = (reboot \/ HasCert) /\ UNCHANGED mishaps
     \/ ClearFailed /\ UNCHANGED reboot
  /\ UNCHANGED <<identVars, enrollVars, saved, dialing, mtls, due, appVars>>

(* identity.reset --yes: the keypair is erased and the unit restarts.         *)
IdentityReset ==
  /\ Command /\ minted + mishaps < MaxMint
  /\ ident' = Blank /\ Restarts /\ UNCHANGED mishaps

Device ==
  \/ IdentityBegin \/ EnrollBegin \/ CertReboot \/ Connect \/ StartJob \/ AwaitMtls
  \/ StartCheck \/ ReapStale \/ FinishJob \/ FinishAck \/ BeginStore \/ StoreNext
  \/ StoreKey \/ UndoStore \/ FinishCheck

Environment ==
  \/ PowerCut \/ TaskDone \/ Overrun \/ Claim \/ Prune
  \/ \E n \in Issued : Revoke(n)

Operator ==
  \/ \E n \in ByHand : CertSet("cert", n) \/ CertSet("key", n)
  \/ CertApply \/ CertClear \/ IdentityReset

Next == Device \/ Environment \/ Operator

Spec == Init /\ [][Next]_vars

(* The main loop turns, a request ends, the broker is dialled again and the   *)
(* owner claims a unit that proved itself.                                    *)
FairSpec ==
  /\ Spec
  /\ WF_vars(IdentityBegin) /\ WF_vars(EnrollBegin) /\ WF_vars(CertReboot)
  /\ WF_vars(mtls = None /\ Connect) /\ WF_vars(StartJob) /\ WF_vars(AwaitMtls)
  /\ WF_vars(StartCheck) /\ WF_vars(ReapStale) /\ WF_vars(TaskDone)
  /\ WF_vars(FinishJob \/ FinishAck \/ FinishCheck \/ BeginStore)
  /\ WF_vars(StoreNext \/ StoreKey \/ UndoStore) /\ WF_vars(Claim)

-----------------------------------------------------------------------------
(* Properties.                                                                *)

(* A unit that has an identity ends up sealed on a certificate it holds whole *)
(* and that is not revoked, whichever write failed, answer was lost or power  *)
(* cut came on the way, also when an earlier certificate is revoked.  The two *)
(* other rests come of a wipe that took the certificate and failed on its     *)
(* key.  No check can name a serial any more: it is the next boot that        *)
(* enrolls.  And when that enrollment is cut short between the two halves, or *)
(* fails on the second and loses power, the boot after it finds the new       *)
(* certificate beside the revoked one's key: hasClientCert holds, the pair    *)
(* never validates, and the unit neither enrolls again nor gets its session.  *)
(* Without a revoked key left behind no boot finds a half-done enrollment it  *)
(* does not take up again.                                                    *)
Settled ==
  /\ step = "done" /\ ~active /\ PairValid /\ ~nvs.ack
  /\ app.sealed /\ nvs.cert \notin revoked
AwaitsBoot == nvs.cert = None /\ nvs.key \in revoked /\ ~active /\ ~due
Stranded   == /\ HasCert /\ nvs.key \in revoked /\ nvs.cert # nvs.key
              /\ step = (IF nvs.ack THEN "awaitMtls" ELSE "done")
EndsSealed == <>[](phase = "run" /\ (ready => Settled \/ AwaitsBoot \/ Stranded))

(* What signs a challenge is the secret half of the public key the unit       *)
(* announced, also after a mint that was cut short or an identity.reset.      *)
IdentityWhole == ready => ident.sk = ident.pk

(* Only a pair that does not validate opens cert.clear to a password session. *)
BrokenIsBroken == broken => ~PairValid

(* enroll_policy.h: "Wipe only on an explicit "revoked" for this exact        *)
(* serial."                                                                   *)
WipesOnlyRevoked ==
  [][FinishCheck /\ nvs.cert # None /\ nvs'.cert = None => nvs.cert \in revoked]_vars
=============================================================================
