------------------------------ MODULE MCAdmin -------------------------------
(* The machines an administrator works with, each in scenes of its own        *)
(* explored side by side: the configuration under the constants of the .cfg,  *)
(* web logins, file uploads, enrollment and scripts.  A scene moves its own   *)
(* machine, the others rest.                                                  *)
EXTENDS ConfigStore

CONSTANTS
  \* WebAdmin, one set of tables a scene
  LoginTables, TokenTables, TerminalTables,
  \* FileUpload
  Files, BodyMax, MaxBody,
  \* Enrollment
  MaxSerial, MaxMishaps, MannedSerials, MannedMishaps,
  \* ScriptEngine
  MaxSubs, MaxTimers, Budget, CreditCap, MaxGen, MaxDepth

Tables == {LoginTables, TokenTables, TerminalTables}

\* Every table has a slot, every limit and time is positive, and a slot is not
\* forgotten before its lockout ends; "none" is the address of a free slot.
ASSUME WebAssumption ==
  \A t \in Tables :
    /\ t.rateSlots \in Nat \ {0} /\ t.tokens \in Nat \ {0} /\ t.grants \in Nat \ {0}
    /\ t.maxFails \in Nat \ {0} /\ t.lockout \in Nat \ {0} /\ t.quiet \in Nat \ {0}
    /\ t.tokenTtl \in Nat \ {0} /\ t.grantTtl \in Nat \ {0} /\ t.maxTime \in Nat \ {0}
    /\ t.maxIssued \in Nat /\ t.maxGrants \in Nat /\ "none" \notin t.ips
    /\ t.lockout <= t.quiet

ASSUME UploadAssumption == BodyMax \in Nat /\ MaxBody \in Nat /\ Files # {}

ASSUME CertAssumption ==
  /\ MaxSerial \in Nat /\ MaxMishaps \in Nat
  /\ MannedSerials \in 0..MaxSerial /\ MannedMishaps \in 0..MaxMishaps

\* The subscription table has room for the core topics.
ASSUME ScriptAssumption ==
  /\ MaxSubs \in Nat /\ MaxSubs >= 3 /\ MaxTimers \in Nat /\ Budget \in Nat \ {0}
  /\ CreditCap \in Nat /\ MaxGen \in Nat /\ MaxDepth \in Nat \ {0}

VARIABLES
  scene,
  \* WebAdmin
  now, cred, rate, over, tokens, grants, lockEnd, issued, unspent, usurped,
  \* FileUpload
  volume, pc, target, authed, declared, chunked, body, accepted, files, tmp, bak,
  parked, owned,
  \* Enrollment
  phase, ident, minted, ready, step, active, job, stale, storing, nvs, saved,
  dialing, mtls, broken, reboot, due, app, revoked, mishaps,
  \* ScriptEngine
  gen, lua, stack, subs, events, timers, booting, pump, spent, credit, hit, online,
  refused

webVars  == <<now, cred, rate, over, tokens, grants, lockEnd, issued, unspent, usurped>>
fileVars == <<volume, pc, target, authed, declared, chunked, body, accepted, files,
              tmp, bak, parked, owned>>
certVars == <<phase, ident, minted, ready, step, active, job, stale, storing, nvs,
              saved, dialing, mtls, broken, reboot, due, app, revoked, mishaps>>
luaVars  == <<gen, lua, stack, subs, events, timers, booting, pump, spent, credit,
              hit, online, refused>>
allVars  == <<scene, vars, webVars, fileVars, certVars, luaVars>>

\* Prefixes that stay, change, go or are no string, beside keys that change
\* too, and a document without a broker.
MCPushed == {[Start EXCEPT !.prefix = p, !.broker = "c", !.web = "v"]
               : p \in {"p", "q", "absent", "number"}}
            \cup {[Start EXCEPT !.broker = "absent"]}
MCPosted == {Garbage, [Start EXCEPT !.prefix = "q", !.web = "v"],
             [Start EXCEPT !.prefix = "long"]}
MCSets   == {[key |-> "prefix", value |-> "q"], [key |-> "prefix", value |-> "number"],
             [key |-> "web", value |-> "v"], [key |-> "mqtt", value |-> "absent"]}
MCReplies == {[prefix |-> "q", broker |-> "c"]}

\* One slot and two addresses, so that the table is full and the address that
\* does not fit is counted in _over.
MCLoginTables ==
  [ips |-> {"a", "b"}, rateSlots |-> 1, maxFails |-> 2, lockout |-> 2, quiet |-> 4,
   tokens |-> 1, tokenTtl |-> 4, grants |-> 1, grantTtl |-> 2,
   maxTime |-> 7, maxIssued |-> 1, maxGrants |-> 0]

\* More tokens than the table holds.
MCTokenTables ==
  [ips |-> {"a"}, rateSlots |-> 1, maxFails |-> 2, lockout |-> 2, quiet |-> 3,
   tokens |-> 2, tokenTtl |-> 4, grants |-> 1, grantTtl |-> 2,
   maxTime |-> 7, maxIssued |-> 4, maxGrants |-> 0]

\* More terminal grants than slots, given to two addresses.
MCTerminalTables ==
  [ips |-> {"a", "b"}, rateSlots |-> 1, maxFails |-> 1, lockout |-> 1, quiet |-> 1,
   tokens |-> 1, tokenTtl |-> 4, grants |-> 2, grantTtl |-> 2,
   maxTime |-> 3, maxIssued |-> 0, maxGrants |-> 3]

\* WebAdmin with the tables of a scene.
Web(t) == INSTANCE WebAdmin WITH
  Ips <- t.ips, RateSlots <- t.rateSlots, MaxFails <- t.maxFails, Lockout <- t.lockout,
  Quiet <- t.quiet, MaxTokens <- t.tokens, TokenTtl <- t.tokenTtl,
  GrantSlots <- t.grants, GrantTtl <- t.grantTtl, MaxTime <- t.maxTime,
  MaxIssued <- t.maxIssued, MaxGrants <- t.maxGrants

Uploads == INSTANCE FileUpload
Enroll  == INSTANCE Enrollment
Scripts == INSTANCE ScriptEngine

WebRests  == Web(TerminalTables)!Init
FileRests == Uploads!Init /\ volume = "lfs" /\ target = CHOOSE f \in Files : TRUE
LuaRests  == Scripts!Init /\ ~online

SceneInit ==
  /\ Init /\ Enroll!Init
  /\ \/ scene \in {"config", "alone", "manned"} /\ WebRests /\ FileRests /\ LuaRests
     \/ scene = "logins"    /\ Web(LoginTables)!Init    /\ FileRests /\ LuaRests
     \/ scene = "tokens"    /\ Web(TokenTables)!Init    /\ FileRests /\ LuaRests
     \/ scene = "terminals" /\ Web(TerminalTables)!Init /\ FileRests /\ LuaRests
     \/ scene = "uploads"   /\ Uploads!Init   /\ WebRests  /\ LuaRests
     \/ scene = "scripts"   /\ Scripts!Init   /\ WebRests  /\ FileRests

WebStep == \/ scene = "logins"    /\ Web(LoginTables)!Next
           \/ scene = "tokens"    /\ Web(TokenTables)!Next
           \/ scene = "terminals" /\ Web(TerminalTables)!Next

\* Enrollment left to itself, and with an operator who pushes certificates too,
\* under smaller bounds.
CertStep == \/ scene = "alone"  /\ (Enroll!Device \/ Enroll!Environment)
            \/ /\ scene = "manned" /\ Enroll!Next
               /\ mishaps' <= MannedMishaps /\ app'.serial <= MannedSerials

SceneNext ==
  /\ UNCHANGED scene
  /\ \/ scene = "config"  /\ Next /\ UNCHANGED <<webVars, fileVars, certVars, luaVars>>
     \/ WebStep  /\ UNCHANGED <<vars, fileVars, certVars, luaVars>>
     \/ CertStep /\ UNCHANGED <<vars, webVars, fileVars, luaVars>>
     \/ /\ scene = "uploads" /\ Uploads!Next
        /\ UNCHANGED <<vars, webVars, certVars, luaVars>>
     \/ /\ scene = "scripts" /\ Scripts!Next
        /\ UNCHANGED <<vars, webVars, fileVars, certVars>>

\* The fairness of Enrollment and ScriptEngine, each in its scene.
Fairness ==
  LET In(act) == scene = "alone" /\ act
  IN /\ WF_certVars(In(Enroll!IdentityBegin)) /\ WF_certVars(In(Enroll!EnrollBegin))
     /\ WF_certVars(In(Enroll!CertReboot))    /\ WF_certVars(In(mtls = 0 /\ Enroll!Connect))
     /\ WF_certVars(In(Enroll!StartJob))      /\ WF_certVars(In(Enroll!AwaitMtls))
     /\ WF_certVars(In(Enroll!StartCheck))    /\ WF_certVars(In(Enroll!ReapStale))
     /\ WF_certVars(In(Enroll!TaskDone))      /\ WF_certVars(In(Enroll!Claim))
     /\ WF_certVars(In(\/ Enroll!FinishJob \/ Enroll!FinishAck
                       \/ Enroll!FinishCheck \/ Enroll!BeginStore))
     /\ WF_certVars(In(Enroll!StoreNext \/ Enroll!StoreKey \/ Enroll!UndoStore))
     /\ WF_luaVars(scene = "scripts" /\ Scripts!Run)
     /\ WF_luaVars(scene = "scripts" /\ Scripts!PumpDone)

SceneSpec == SceneInit /\ [][SceneNext]_allVars /\ Fairness

\* Type correctness of the machine each scene moves.
TypesOK ==
  /\ TypeOK
  /\ scene = "logins" => Web(LoginTables)!TypeOK
  /\ scene = "tokens" => Web(TokenTables)!TypeOK
  /\ scene = "terminals" => Web(TerminalTables)!TypeOK
  /\ scene = "uploads" => Uploads!TypeOK
  /\ scene \in {"alone", "manned"} => Enroll!TypeOK
  /\ scene = "scripts" => Scripts!TypeOK

\* The three tables of HttpServer keep what they promise when they are full: a
\* lockout its full term whoever else guesses, a token its hour unless enough
\* newer ones were issued, a terminal grant one terminal of its own address
\* (LoginRateTable, _createToken, _consumeWsAuth).
WebSound ==
  /\ scene = "logins" => Web(LoginTables)!LockoutHolds
  /\ scene = "tokens" => Web(TokenTables)!TokensKept
  /\ scene = "terminals" => Web(TerminalTables)!TerminalGranted

\* What an upload writes is the declared body; no name ever holds half a file;
\* and a stored file survives every failing step and power cut of an upload
\* (_bodyChunk, _fileWriteAtomic, fatCommit).
UploadSound == scene = "uploads" => Uploads!UploadSound

\* What signs is the secret half of the key announced, and only a pair that
\* does not validate opens cert.clear to a password session, with an operator
\* pushing, applying and clearing certificates at every point of an enrollment
\* (Identity::begin, MQTTClient::checkStoredClientCert).
CertSound ==
  scene \in {"alone", "manned"} => Enroll!IdentityWhole /\ Enroll!BrokenIsBroken

\* A unit ends up sealed on a certificate it holds whole and that is not
\* revoked, whichever write failed, answer was lost or power cut came on the
\* way, unless a wipe left the key of a revoked certificate behind
\* (Enroll::begin, loop).
EndsSealed == scene = "alone" => Enroll!EndsSealed

\* What a call into Lua runs was registered in the state it runs in, and
\* however scripts subscribe, fail and reload each core topic stays in the
\* subscription table, once (ScriptEngine::reload, MqttSubTable).
ScriptsSound ==
  scene = "scripts" => Scripts!OwnCallbacksOnly /\ Scripts!CoreRegistered

\* Every call from C into Lua ends, whatever the script does and whatever nests
\* in it, and the main loop turns again (lua_budget_policy.h).
MainLoopTurns == scene = "scripts" => Scripts!MainLoopTurns
=============================================================================
