------------------------------ MODULE FledSkip ------------------------------
(* The day for which a release the guard fled, or an install that did not     *)
(* confirm, is refused: its age counts uptime through resets and power cuts,  *)
(* half of it in RTC memory and half in NVS, with a clock that may be unset   *)
(* or wrong, and after it two tries are spent before another day starts.      *)
(* The manifest goes on offering the release, and the unit runs another one.  *)
EXTENDS Integers

CONSTANTS
  Skip,      \* OTA_FLED_SKIP_S
  SaveEvery, \* OTA_FLED_SAVE_S
  GapMax,    \* OTA_FLED_GAP_MAX_S
  Tries,     \* OTA_FLED_TRIES
  Epochs,    \* what the clock may read, 0 when it is not synced
  MaxUp,     \* bound: time up in one day
  MaxResets  \* bound: resets in one day

VARIABLES
  nvs,       \* fled_age: the age, the tries and the clock at the save
  rtc,       \* _otaFledUnsaved
  ram,       \* _fled, with the time since its mark
  turned,    \* the loop has turned since time last passed
  up,        \* time the unit has been up since the day began
  resets,    \* resets since the day began
  installs,  \* installs since the day ended, none of them forced
  lost       \* a power cut, a failed save or the release itself lost some time

dayVars == <<up, resets, installs, lost>>
vars == <<nvs, rtc, ram, turned, dayVars>>

Saved == [age : 0..Skip, tries : 0..Tries, seen : Epochs]
Fresh == [age |-> 0, tries |-> 0, seen |-> 0]
Off   == [loaded |-> FALSE, first |-> TRUE, saved |-> Fresh, carry |-> 0, since |-> 0]

TypeOK ==
  /\ nvs \in Saved /\ rtc \in 0..(2 * SaveEvery)
  /\ ram \in [loaded : BOOLEAN, first : BOOLEAN, saved : Saved,
              carry : 0..(2 * SaveEvery), since : 0..MaxUp]
  /\ turned \in BOOLEAN /\ up \in 0..MaxUp /\ resets \in 0..MaxResets
  /\ installs \in 0..Tries /\ lost \in BOOLEAN

Init ==
  /\ nvs = Fresh /\ rtc = 0 /\ ram = Off /\ turned = FALSE
  /\ up = 0 /\ resets = 0 /\ installs = 0 /\ lost = FALSE

Least(a, b) == IF a < b THEN a ELSE b

-----------------------------------------------------------------------------
(* loadFled: the record and the carry, once a boot.                           *)
Loaded ==
  IF ram.loaded THEN ram
  ELSE [ram EXCEPT !.loaded = TRUE, !.saved = nvs, !.carry = Least(rtc, 2 * SaveEvery)]

Unsaved == Loaded.carry + Loaded.since

(* otaFledElapsed: the clock counts only across a reset, up to GapMax.        *)
Elapsed(epoch) ==
  LET seen == Loaded.saved.seen
      gap  == epoch - seen
  IN IF ~Loaded.first \/ seen = 0 \/ epoch <= seen \/ gap <= Unsaved THEN Unsaved
     ELSE Unsaved + Least(gap - Unsaved, GapMax)

(* fledAgeNow.                                                                *)
AgeNow(epoch) == Least(Loaded.saved.age + Elapsed(epoch), Skip)

\* Mutant: the carry of an earlier boot is counted again.
SaveFledKeepsCarry(age, tries, epoch, wrote) ==
  LET next == [age |-> age, tries |-> tries, seen |-> epoch]
  IN /\ nvs' = IF wrote THEN next ELSE nvs
     /\ ram' = [Loaded EXCEPT !.first = FALSE, !.saved = next, !.since = 0]
     /\ rtc' = 0 /\ lost' = (lost \/ ~wrote)

(* saveFled: a failed write still moves RAM on.                               *)
SaveFled(age, tries, epoch, wrote) ==
  LET next == [age |-> age, tries |-> tries, seen |-> epoch]
  IN /\ nvs' = IF wrote THEN next ELSE nvs
     /\ ram' = [Loaded EXCEPT !.first = FALSE, !.saved = next, !.carry = 0, !.since = 0]
     /\ rtc' = 0 /\ lost' = (lost \/ ~wrote)

(* ageFledRelease, every turn of the loop: an unexpired record ages.          *)
Turn(epoch, wrote) ==
  /\ ~turned /\ turned' = TRUE
  /\ IF Loaded.saved.age < Skip /\ Unsaved >= SaveEvery
       THEN SaveFled(AgeNow(epoch), Loaded.saved.tries, epoch, wrote)
       ELSE /\ ram' = Loaded
            /\ rtc' = IF Loaded.saved.age < Skip THEN Unsaved
                      ELSE IF ram.loaded THEN rtc ELSE 0
            /\ UNCHANGED <<nvs, lost>>
  /\ UNCHANGED <<up, resets, installs>>

(* A unit of time has many turns in it: the next one comes before a reset.    *)
TimePasses ==
  /\ turned /\ up < MaxUp /\ turned' = FALSE
  /\ up' = up + 1 /\ ram' = [ram EXCEPT !.since = @ + 1]
  /\ UNCHANGED <<nvs, rtc, resets, installs, lost>>

-----------------------------------------------------------------------------
(* check, offered the release.  Download tells whether it was installed.      *)

NewDay == up' = 0 /\ resets' = 0 /\ installs' = 0

(* The restart into the release, and the unit back on the other image: the    *)
(* release's own boot has taken the carry.                                    *)
Installed == ram' = Off /\ rtc' = 0 /\ turned' = FALSE

Refuse(epoch, wrote) ==
  /\ AgeNow(epoch) < Skip
  /\ IF Loaded.first \/ Unsaved >= SaveEvery
       THEN SaveFled(AgeNow(epoch), Loaded.saved.tries, epoch, wrote)
       ELSE UNCHANGED <<nvs, rtc, ram, lost>>
  /\ UNCHANGED <<turned, up, resets, installs>>

\* Mutant: the download goes ahead whether or not the try was saved.
MayDownloadAlways(wrote) == TRUE

(* otaFledMayDownload, for a try.                                             *)
MayDownload(wrote) == wrote

(* A try is saved before its download; the last one starts another day.  A    *)
(* try NVS did not take is put back in RAM.                                   *)
Try(epoch, wrote, works) ==
  LET age   == AgeNow(epoch)
      tries == Loaded.saved.tries
      last  == tries + 1 >= Tries
      spent == IF last THEN [Fresh EXCEPT !.seen = epoch]
                       ELSE [age |-> age, tries |-> tries + 1, seen |-> epoch]
      after == [Loaded EXCEPT !.first = FALSE, !.carry = 0, !.since = 0,
                  !.saved = IF MayDownload(wrote) THEN spent
                            ELSE [age |-> age, tries |-> tries, seen |-> epoch]]
  IN /\ age >= Skip /\ (works /\ ~last => resets < MaxResets)
     /\ nvs' = IF wrote THEN spent ELSE nvs
     /\ IF MayDownload(wrote)
          THEN /\ IF last THEN NewDay /\ lost' = FALSE
                  ELSE /\ installs' = installs + 1 /\ UNCHANGED <<up, lost>>
                       /\ resets' = IF works THEN resets + 1 ELSE resets
               /\ IF works THEN Installed
                          ELSE ram' = after /\ rtc' = 0 /\ UNCHANGED turned
          ELSE /\ ram' = after /\ rtc' = 0 /\ lost' = TRUE
               /\ UNCHANGED <<turned, up, resets, installs>>

(* ota.check --force: installed at any age, no try spent.                     *)
Force ==
  /\ resets < MaxResets /\ resets' = resets + 1 /\ Installed /\ lost' = TRUE
  /\ UNCHANGED <<nvs, up, installs>>

(* The release ran, was confirmed and was fled again: putFledRecord, of which *)
(* the age is the write that counts, the version being the same.              *)
FledAgain(wrote) ==
  /\ resets < MaxResets /\ ~ram.loaded /\ Installed
  /\ IF wrote THEN nvs' = Fresh /\ NewDay /\ lost' = FALSE
             ELSE lost' = TRUE /\ UNCHANGED <<nvs, up, resets, installs>>

-----------------------------------------------------------------------------
(* A software reset or a deep sleep keeps RTC memory, a power-on does not.    *)
Reset(power) ==
  /\ (turned \/ ram.since = 0) /\ resets < MaxResets
  /\ ram' = Off /\ turned' = FALSE /\ resets' = resets + 1
  /\ rtc' = (IF power THEN 0 ELSE rtc) /\ lost' = (lost \/ power)
  /\ UNCHANGED <<nvs, up, installs>>

Next ==
  \/ \E epoch \in Epochs, wrote \in BOOLEAN :
       Turn(epoch, wrote) \/ Refuse(epoch, wrote) \/ \E works \in BOOLEAN : Try(epoch, wrote, works)
  \/ TimePasses \/ Force
  \/ \E b \in BOOLEAN : FledAgain(b) \/ Reset(b)

Spec == Init /\ [][Next]_vars

-----------------------------------------------------------------------------
(* Properties.                                                                *)

(* docs/invariants.md: "so a reset loses none", and a clock that jumps does   *)
(* not end the day more than an hour early a reset.  The age is the time the  *)
(* unit was up, and never runs ahead of it by more than GapMax a boot.        *)
AgeHonest ==
  \A epoch \in Epochs :
    /\ AgeNow(epoch) <= up + GapMax * (resets + 1)
    /\ ~lost => AgeNow(epoch) >= Least(up, Skip)

(* Every install of the release after its day is a try NVS holds, also        *)
(* through lost saves, resets and downloads that fail: no boot finds a spent  *)
(* try unspent, so one day costs at most Tries of them.                       *)
TriesCounted == installs = nvs.tries

FledSound == AgeHonest /\ TriesCounted
=============================================================================
