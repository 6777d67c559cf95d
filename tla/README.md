# A TLA+ verification of thesada-fw

`thesada-fw` is the firmware of a family of ESP32 sensor nodes. A node is often
out of reach once installed: what it must not do is brick itself, reboot for
ever, or lose the way back to its broker. This project models the parts of the
firmware that guard against that, model-checks them with TLC, and proves the
central properties with TLAPS for every value of the constants.

Contents: 1 the system, 2 plan, 3 updates, 4 MQTT recovery, 5 network failover,
6 commands and messages, 7 administration, 8 runs and bounds, 9 fairness,
10 proofs, 11 disagreements between code and documents, 12 what is not modelled.

## 1. The system

One FreeRTOS task, the Arduino main loop, runs `setup()` once and then `loop()`
for ever (`src/main.cpp`). In each turn it calls, in this order: the serial
console, `WiFiManager::loop`, `MQTTClient::loop`, the certificate reboot,
`Enroll::loop`, `OTAUpdate::confirmIfHealthy`, `OTAUpdate::loop`,
`Shell::loop` (one deferred command), the LED, every module's loop and the
sleep manager. Beside it run the AsyncTCP task (every HTTP and WebSocket
handler), the SNTP task, and short-lived worker tasks for HTTP fetches and
enrollment. State that survives a reset is in NVS (namespaces `boot`,
`thesada-boot`, the certificate and secret namespaces), in LittleFS
(`/config.json`), in the otadata partition, and, except after a power-on, in
RTC memory.

| Component | State | Operations | Interacts with | What makes it correct |
|---|---|---|---|---|
| OTA image guard (`OTAUpdate.cpp`, `ota_health_policy.h`) | otadata, NVS `boot` (crash streak, rescue flag, left, proven and fled records), RTC restart marker, RAM caches | record a boot, confirm, reject, switch slot, settle | bootloader, MQTT (first session, budget restarts), web upload | some slot always boots; only an image that ran is confirmed; two bad images do not alternate; an outage does not change images |
| OTA check and download | manifest, fled record, `Update` | check, refuse, download, verify, install restart | image guard, MQTT command topic | a release just left is not pulled again |
| Web upload | request marker, `Update`, `_restartPending` | first chunk, last chunk, reply | AsyncTCP task against the main loop | no image is confirmed or started unchecked |
| MQTT recovery (`MQTTClient.cpp`) | `_brokerHost`, `_brokerPort`, `_retryCount`, `_rebootHalted`, NVS `thesada-boot` | connect, retry, budgeted reboot, snapshot, rollback | Config, Shell, OTA guard (restart marker) | reboots are bounded; a bad configuration is undone, a good or untried one is not; retries never stop |
| Configuration (`Config.cpp`) | live document, file, held topic prefix, web snapshot | load, save, replace, hold | every component; a reload invalidates pointers into the document | the copies agree; a pushed prefix waits for the restart |
| MQTT session | publish ring, subscription table, retained manifest | publish, enqueue, flush, subscribe, resubscribe | every module, Lua | the ring keeps the newest, in order, once; the manifest lists what the broker holds |
| Client certificates, CLI authorisation | NVS certificate pair, its verdict, the session's authority, reply pages | stage, apply, clear, authorise, page an answer | MQTT session, Shell | a command has the authority of the session that spoke it; no line of an answer is lost silently |
| Shell (`Shell.cpp`) | command table, nesting depth, deferred ring of 4 | enqueue from any task, drain on the main loop, nested console line | AsyncTCP, MQTT, serial | each accepted command runs once, in order, on the main task |
| HTTP server | sessions, login rate, request bodies, `_restartPending` | log in, file and config routes, `/api/cmd` wait | Shell ring, Config, OTA | no reply says more than what happened |
| WiFi manager | status, AP flag, timers | scan, connect, fallback AP, AP timeout | cellular failover, MQTT transport | a network that comes back is found again |
| Cellular | modem state, activation phase, failure streaks | activate, probe, recycle, hard reset, yield | MQTT transport, worker tasks | exactly one transport is offered; recovery always ends |
| Enrollment, identity | keypair, step, job, stale job, ack flag | mint, announce, challenge, poll, store, ack, revocation check | Config, certificate store, MQTT session | whatever fails on the way, a unit ends sealed on a whole certificate |
| Lua engine | timers, callbacks, budget | load, reload, fire | event bus, MQTT subscriptions | nothing of the old script fires after a reload; a script cannot hold the main loop |
| Sensors (temperature, ADS1115, SHT31, battery, GNSS, power) | last readings | sample, publish | event bus, MQTT | no value is published that was not read |
| SD log, Telegram, LoRa, PWM, sleep, setup portal | small | write, send, sleep | event bus, Config | see section 12 |

Hard behaviours: a reset can hit between any two flash writes; NVS, LittleFS
and otadata calls can fail one at a time; the AsyncTCP task works on `Update`
while the main loop confirms an image; a configuration edit can land between
the dial of a session and what is recorded about it; a budget shared by several
causes can be spent by one and missing for another; retries, timeouts and holds
must end. `PROJECT.json` lists each at its line under `hazards`, with the
properties that would catch it.

## 2. Plan

1. OTA image guard: `OtaHealthPolicy` (pure policy) and `OtaGuard`. Done.
2. MQTT recovery: `MqttRecovery`. Done.
3. Network failover: `NetFailover`. Done.
4. Shell ring, HTTP waits, CLI authorisation and paging: `CommandService`
   (abstract), `CommandRing` (implements it), `CliPages`. Done.
5. MQTT session: `MqttSession`, and the subscription table in `ScriptEngine`. Done.
6. Configuration, web sessions, uploads, enrollment, Lua: `ConfigStore`,
   `WebAdmin`, `FileUpload`, `Enrollment`, `ScriptEngine`. Done.
7. The check and the download behind the guard: `OtaPull`, `FledSkip`. Done.
8. Proofs of every invariant and action property the runs check, in eight modules,
   and the ring's refinement of `CommandService`. Done.
9. Left: an abstract A/B update specification ("one good image, at most one
   candidate") implemented by `OtaGuard`, and one for the publish queue implemented by
   `MqttSession`; weaker premises where section 10 names one.

Every component is a module; a run's MC module explores several of them, or one
under several constants, in *scenes*: the variable `scene` is chosen at the start
and never changes, a scene moves its own machine, the others rest in one initial
state. TLC thus explores the sum of the machines, not their product, and a
property of a scene is a property of its machine alone. Where machines share
state, one module holds both sides (`NetFailover`, `CommandRing`,
`ConfigStore`, `ScriptEngine`'s table).

## 3. Updates

### The guard

`OtaHealthPolicy` holds the pure decisions of `ota_health_policy.h` under their
own names: the class of a reset, the next streak, when to mark, settle, roll
back, rescue. Uptime is one of three spans, the ones the code compares with.

`OtaGuard` is the state machine around them on a board with two slots. Its
state is the flash (`build`, `whole`, `otaState`, `newest`), NVS `boot`
(`nvs`), the RTC word (`marker`), the reset reason, the running slot, and `ram`,
which every reset clears. One boot is `boot`, `init`, `streak`, `guard`, `run`;
`armed`, `switched`, `reject`, `download`, `staged` are the points between two
flash writes where a reset matters.

| Action | Code |
|---|---|
| `Bootloader`, `Reset`, `ActivateOther` | external: ESP-IDF bootloader, `esp_restart`, `Update.end` |
| `InitArduino` | `verifyRollbackLater` and the rescue confirm |
| `RecordBootStreak` | `recordBootStreak`, `updateLeftRecord` |
| `GuardPasses`, `GuardKeepsPending`, `GuardClearsStreak`, `RejectPending`, `ArmRescue`, `SetBootSlot`, `SwitchFails`, `SwitchRestart` | `rollbackIfCrashLoop`, `rollbackTarget`, `armRescue`, `disarmRescue`, `recordFledRelease` |
| `ConfirmIfHealthy` (`ConfirmPending`, `SettleImage`, `RecordProven`) | `confirmIfHealthy`, `markUsbImageValid`, `markProvenOnBroker`, `dropOwnFledRecord` |
| `StartDownload`, `DownloadVerified`, `DownloadFails`, `ActivateFails`, `InstallRestart` | `check`, `applyUpdate`, `recordInstalledBuild`, `plannedRestart` |
| `UploadBegin`, `UploadEnd`, `UploadFails`, `UploadReply`, `WebRestart` | `POST /ota` and `HttpServer::loop` |
| `PlannedRestart`, `BrokerRestart`, `HeapRestart`, `Crash`, `Brownout`, `PowerOn`, `DeepSleep` | every way the unit resets |

`earned`, `switches`, `unrecorded` and `refused` are history: they record what
happened and no action reads them, except the bound `MayCount`.

### The check and the download

`OtaPull` is one `OTAUpdate::check`, from what asks for it to the staged image. A
byte is its place in the image and a url its scheme, so "the right bytes in the
right order" and "still https" are statements about the state. State: the two
links, what was asked for (`requested`, `forced`, `pending`), the GET and the
range loop under way, `flash`; `owed` and `wanted` are history.

| Action | Code |
|---|---|
| `Trigger`, `CmdTopic`, `IntervalPasses`, `TakeTrigger`, `Periodic` | `triggerCheck`, `ota.cmd_topic`, `loop`, `checkNow` |
| `Redirect`, `Answered`, `ManifestRead`, `BodyByte`, `BodyEnds` | `check`, `fetchManifest`, `downloadBinary` over WiFi or one modem GET |
| `RangeRequest`, `RangeBytes`, `RangeEnds` | `downloadBinaryChunkedCellular`: 256 KB ranges, resumed where they broke off |
| `Activate`, `Fails`, `InstallRestart` | the end of `applyUpdate`, every refusal, `plannedRestart` |
| `LinkChanges` | external: WiFi and modem |

A 206 is assumed to carry the range asked for (the code does not read
`Content-Range`); refusals for low heap or a missing CA are nondeterministic. A
check asked for with no transport is taken and refused, not kept.

`FledSkip` is the day for which `check` refuses a release the guard left: the age
in NVS (`nvs`), what is not saved yet in RTC memory (`rtc`) and in RAM (`ram`),
the tries after the day, an adversarial clock. `up`, `resets`, `installs` and
`lost` are history. A reset falls between two turns of the loop, which is where
the carry is up to date; what an unreadable record means is `OtaGuard`'s.

## 4. MQTT recovery

`MqttRecovery` models `connect()`, the retry and reinit parts of `loop()`, the
NVS records and every path that changes the connection keys. A configuration is
a record of host, port (possibly missing) and credentials. State: the file
(`disk`), the live document (`doc`), NVS `thesada-boot` (`nvs`), `ram` (the host
and port last copied for the dial, the credentials of the last connect, link,
retry count, halt flag, pending reinit, staged `cmd/config`), the broker
(`down`), and history (`tried`, `proven`, `asked`, `reboots`).

| Action | Code |
|---|---|
| `RollBack`, `mqttRebootCountClear`, `mqttClearRbCfg` | `rollbackIfUncommitted` and its NVS writes |
| `Begin`, `Reinit`, `Tick` | `begin`, the reinit branch and the retry branch of `loop`, each ending in `connect()` |
| `ConnectOk`, `SnapshotKeys`, `SnapshotFlag` | the success branch and `snapshotGoodConfig` |
| `ConnectFails`, `RecordFailing`, `BrokerRestart` | the failure branch: low-heap reboot, exhaustion reboot, halt |
| `CmdInbound`, `ApplyCmdConfig` | `cmdConfigInbound`, `mqttApplyCmdConfig`, `Config::replace` |
| `ConfigSet`, `ConfigReload`, `FileWrite` | `config.set` and `config.del`, `config.reload`, the web server's file write |
| `LinkLost`, `Outage`, `Age`, `Restart` | session loss, the broker (external), `RB_STALE_WINDOW_S`, any reset |

A reset may hit between any two of the NVS writes because each is an action.

## 5. Network failover

`NetFailover` composes `WiFiManager`, `CellularModule`, the bring-up, probe and
socket recovery of `Cellular`, and the transport `MQTTClient` picks. The main
loop is the variable `turn` (wifi, mqtt, shell, modules; `yield` is the part of
ACTIVE after the health probe); the net.http task, the timers and the
environment interleave with it. Times are reduced to what they are compared
with: a hold is off, running or over, a bring-up deadline far, near or over.
The modem's own state is `answers`, `coverage`, `pdp` (its data context) and
`wedge` (sockets that need a recycle or a reset); what the code believes of it
is `alive`, `started`, `linkUp`.

| Action | Code |
|---|---|
| `WiFiBegin`, `WiFiLoop` (`scanAndConnect`, `startFallbackAP`, `RescanDue`) | `WiFiManager` |
| `MqttKeeps`, `MqttSwitches`, `MqttConnects`, `MqttModemFails` | `MQTTClient::loop` and the dial of `connect`, with `socketRecover` on the loop's task |
| `CellReset` | `cell.reset` |
| `HttpStart`, `HttpSocketFails`, `HttpDone` | `cmd_http`, `httpsGet` and `socketRecover` off the loop's task, which only queues |
| `CellStandby`, `CellLost`, `CellHolds`, `CellYields` | the states of `CellularModule::loop`, `dataLinkDown` |
| `ActInit` ... `ActBearer`, `ActAlreadyUp`, `ActPhaseFails`, `ActNoSim`, `ActExpires` | the phases of `tickActivation`, its deadline, and DONE or FAILED in `CellularModule::loop` |
| `ProbeSkipped`, `ProbeResets`, `ProbeFinds`, `ProbeLoses` | `Cellular::loop` |
| `GnssPowerOn` | `GNSSModule::loop` |
| `AirChanges`, `CoverageChanges`, `ContextLost`, `SocketsWedge`, `ModemHangs`, `ModemWakes` | external: access points, carrier, modem |

`hardReset` is `DropFlags` with `ResetWorks` or `ResetFails`, wherever it is
called. A call that fails (`Faults`: a reset, a wake-up, a bus the fetch holds, a
server that refuses) and every loss in the environment costs one of `MaxEvents`.

## 6. Commands and messages

`CommandService` says what the deferred dispatcher promises: a bounded first-in
first-out queue of jobs, run one at a time, each accepted job once unless a
restart loses it. `CommandRing` is the code: `ring`, `head`, `tail` and the
critical sections of `Shell::enqueue`, `enqueueDeferred` and `Shell::loop`; the
AsyncTCP task, which spins for one job at a time (`async`); the closures
(`captured`: kind, authority, the flags a request polls); the nesting of commands
(`stack`, `failed`). Its refinement mapping reads the queue off the slots between
head and tail, `accepted` as every job handed in and not turned away.

| Action | Code |
|---|---|
| `HttpRequest`, `WsLine`, `ApiRestart` | `/api/cmd`, `_configWriteOrReply`, the WebSocket terminal, `/api/restart` |
| `MqttCommand`, `Reconnect` | `cliInboundHandler` with `_inboundAuth`; a session dialed again |
| `Drain`, `ConfigJob`, `DenyJob`, `BadLine`, `BinaryHandler`, `RunLine` | `Shell::loop`, the config job, `runCli`, `Shell::execute` |
| `ConsoleLine`, `HandlerFails`, `HandlerReturns` | `pumpConsole`, `Shell::fail`, the return of `execute` |
| `Poll`, `Timeout` | the five-second wait |
| `PlannedRestart`, `RestartCommand` | `HttpServer::loop`, `restart` |

`CliPages` is how `runCli` cuts an answer into pages (`cli_page_policy.h`):
a byte is its escaped cost and the length of the UTF-8 sequence it starts.
`PrintLine`, `AddWhole`, `FreshPage`, `AddPiece` and `DropLine` are the branches
of the sink's loop.

`MqttSession` is what a session carries: the publish ring (`Publish`,
`PublishNow`, `SendQueued`, `FlushQueue`, `Handoff`), the retained topics and
their manifest (`Connect`, `Republish`, `ManifestDue`), and the SHT31 module's
discovery (`SensorLoop`), which stands for every module that publishes its own.

## 7. Administration

`ConfigStore` holds the copies of one configuration: file, live document, held
prefix, the credential HTTP handlers read. A document is four keys, enough to
tell the prefix, a connection key, the credential and any other apart. Its
actions are every surface that writes the document or the file: `Inbound` and
`Apply` (cmd/config), `ConfigSet`, `ConfigSave`, `ConfigReload` (Shell), `PostFile`
(HTTP, `fs.write`), `SaveDiscovered` (temperature), `PortalSave` (setup portal),
`EnrollSave` (`Enroll`'s `onCert`), `RollBack` (a boot that goes through
`rollbackIfUncommitted`) and `Restart`. A write may not land, and a load may not
open the file, which keeps the document as it is and lets go of a hold. History:
`ahead` (the file is not one RAM loaded), `unsaved` (connection keys changed in RAM
and the file not written), `moved` (something other than a push may have moved the
live prefix).

`WebAdmin` is the authentication of `HttpServer`: `LoginRateTable` (`Age`,
`Allow`, `RateFail`, `RateReset`), tokens (`CreateToken`, `Validates`), terminal
grants (`WsToken`, `WsConnect`) and `_checkAuth`, over a time that counts up.

`FileUpload` is one POST to `/api/file`: the body's chunks (`Chunk`), the verdict
(`Accept`, `Refuse`) and the file operations of `_fileWriteAtomic` and
`fatCommit`, one action each (`WriteTmp`, `CheckTmp`, `Unpark`, `Park`, `Move`,
`Restore`, `Tidy`), with a power cut between any two.

`Enrollment` is `Identity::begin`, `Enroll`, and the certificate side of
`MQTTClient`: a boot (`IdentityBegin`, `EnrollBegin`), the session (`Connect`),
requests on their own task (`StartJob`, `TaskDone`, `Overrun`, `ReapStale`), what
is done with an answer (`FinishJob`, `FinishAck`, `FinishCheck`), the four writes of
`onCert` (`StoreNext`, `StoreKey`, `UndoStore`) and the operator (`CertSet`,
`CertApply`, `CertClear`, `IdentityReset`). The app (`Serve`, `Says`, `Claim`,
`Prune`, `Revoke`) is external and modelled from what the unit relies on.

`ScriptEngine` is the Lua engine around the third-party VM: states and their
generations, calls that nest because a binding pumps the MQTT client or the
console, the one budget they share, timers, and the subscription table. A reload
from inside a call closes the state the call runs in; what the call does next is
undefined, and the outcome modelled is a panic (`Panic`).

## 8. Runs and bounds

| Run | Scenes | Shows |
|---|---|---|
| `OtaGuardPull` | guard, pull, fled | types and `ConfirmedHasRun`, `NoRepull` with unreadable descriptors and every kind of reset; `PullSound`: flash holds the image in order, only the image the manifest names is staged, https at every hop, no check asked for is lost; `FledSound`: the day is the time the unit was up, and every install after it is a try NVS holds |
| `OtaGuardFaults` | nvs, flash, uploads | `PingPongBounded`, `AlwaysBootable`, `InstallNotRejected` on crashing images of two platforms with NVS calls failing, with otadata and activation calls failing, and with uploads on the other task. The proofs (section 10) hold for all of them together |
| `OtaGuardRecovers` | crash loop, outage | liveness: a crash loop is left, no image stays pending; `OutageKeepsProven` under operator and budget restarts |
| `MqttRecoverySafe` | resets, bad config, broker back | types, `RebootsBounded`, `LastGoodWorks`, `ReloadApplies`, `UndoesOnlyTried` with resets, outages, low heap and ageing; liveness: a bad configuration, written in any way, does not stay while a broker answers; a spent or unreadable budget does not end the retries |
| `NetFailover` | one | types, `StartedAlive`; liveness: `WifiReturns`, `TakesOver`, `YieldsBack`, with resets and wake-ups that fail, a busy bus, refusing servers, lost coverage, contexts and modems, an operator who resets, a GNSS module that powers the modem |
| `Commands` | commands, pages, session | `RingIsQueue` (refinement, with fairness), `AnswersHonest`, `NoBorrowedAuthority`, liveness `LandedRestarts`; `AnswerPages`; `SessionSound`, liveness `QueueDrains` |
| `Admin` | config, logins, tokens, terminals, uploads, alone, manned, scripts | `CopiesAgree`, `PrefixDeferred`; `WebSound`; `UploadSound`; `CertSound`, liveness `EndsSealed`; `ScriptsSound`, liveness `MainLoopTurns` |

`OtaGuardUploadRace`, `MqttPortDefault`, `NetNoRescan`, `RevokedStale` and
`HotReload` each show one disagreement, section 11.

**Bounds.** The guard's scenes use two builds (an old and a new release; more only
rename them), a crash limit of 2 or 3 instead of 3, and the reset causes each
question needs. `MaxStreak` stops the streak at the limit; `MaxSwitches` is one
more than the switches the property allows, so a violation fits under the bound.
`OtaGuardFaults` leaves the history `earned` and `refused`, which nothing there reads,
out of its VIEW.
A download is two ranges of two bytes with two tries each: a break inside a range,
at its end, and across two of them. A fled day is 4 units, saved every 2, with 3
resets and 6 units of uptime: more than a day, two saves, and a reset in each part.

The MQTT recovery scenes use five configurations (right, wrong host, host too long,
wrong port, wrong credentials), a budget of 2 reboots, 3 attempts before one, and
2 edits: enough for an edit, its rollback and a second edit against the restored
one, and for both budgets to be spent; "broker back" takes one edit and 2
attempts, and the history counter stops one past the bound. The failover uses
streaks of 2 and 3 instead of 3 and 6 and a reset on the second failed bring-up
instead of the third: each step of the ladder still exists and lies strictly above
the one before. Two events are enough for a fault during the recovery from
another one.

The ring has 3 slots (2 usable) and 3 jobs, so it fills, wraps and refuses; two
nesting levels are one console line inside a command. Answers are one or two lines
of up to 4 glyphs, the empty line among them, of 1, 2 and 3 bytes, against four page
limits, so that lines fit to the byte, need the mark, and are dropped. The publish ring has 2 slots and
3 messages. Each of the rate, token and grant tables has, in its own scene
(`MCLoginTables`, `MCTokenTables`, `MCTerminalTables`), fewer slots than there are
addresses, logins or grants. Bodies are up to one byte past the cap, two files
share the staging names. Enrollment left alone has four mishaps and six certificates:
a wipe that fails half way, the boot after it, a power cut in the next enrollment, and
one mishap more. A revocation is not a mishap: what bounds it is that a certificate
stays for every mishap still to come. With an operator, where `CertSound` alone is
checked, it is two mishaps (`MannedMishaps`) and two certificates (`MannedSerials`),
which is one fault during the recovery from another. Pushed documents change the
prefix or keep it, drop it, or give a number, together with the other keys; posted
ones are garbage, a usable document and one with a prefix too long; one enrollment
answer names another prefix and broker. The subscription table is two entries wider
than the core topics, two reloads.

Deadlock is checked in every run but two: an enrolled unit with nothing pending and
a `WebAdmin` scene at its time bound may stop (`Admin`, `RevokedStale`).

**Switches.** Some properties hold only without certain switches, and the runs leave
those out on purpose. `ConfirmedHasRun` is not checked with uploads (section 11),
nor with a failing activation or flag removal: an image whose activation failed
keeps the otadata state of the one it overwrote, and a rescue flag that could not
be removed confirms what is staged after an unmarked reset. `RollsBackBadConfig` is
checked with a broker that answers and enough heap: low-heap reboots, and the
reboots of an outage, spend the budget the rollback of a bad edit needs.
`RebootsBounded` is checked with a working NVS: a namespace that does not open
reads as a count of 0 (`MQTTClient.cpp:665`). `ReloadApplies` is checked without
`config.set`, which loads its edit before `config.reload` looks for a change
(`Shell.cpp:1037`), and so is `UndoesOnlyTried`: an edit made by `config.set` in an
outage is recorded as the failing configuration by the next exhaustion reboot
(`MQTTClient.cpp:1017` stores the live document, not what was dialed) and undone
without a try. `StartedAlive` is checked with an operator who types `cell.reset`
outside a bring-up: one that fails inside it leaves the phase running, BEARER then
sets `_started` on a modem that counts as dead, and ACTIVE and ACTIVATING alternate
for ever, past the deadline. `CopiesAgree` excuses a file that an HTTP write,
`fs.write` or a temperature discovery left ahead of the document (`ahead`): the
next `Config::save` writes over it (`docs/invariants.md:2125`); a file that could not
be opened counts as ahead too. Of the connection keys alone it excuses those that an
enrollment or a rollback whose save failed, or a `config.reload` that could not open
the file, left in RAM (`unsaved`, section 11); every other key is compared all the same. `PrefixDeferred` excuses, until the subscriptions
are made again, an operator who named the prefix, a certificate's answer, which moves
the live prefix for the seconds before its restart and for longer when a write of it
fails, a setup portal whose failed save reloads the file without holding the prefix
again, and a file that does not open. `EndsSealed` is checked without an operator:
`CertSound` is what holds with one. Of a unit left alone it excuses two rests of a
wipe that failed half way (`AwaitsBoot`, `Stranded`, section 11).

**Mutants.** Each property has a mutant in `PROJECT.json`. A composite property
(`PullSound`, `FledSound`, `AnswerPages`, `SessionSound`, `WebSound`, `UploadSound`,
`CertSound`, `ScriptsSound`, `CopiesAgree`) has one listed and, for its other
conjuncts, further `\* Mutant:` operators in the modules, each of which TLC rejects in
the same way.

## 9. Fairness

* `LoopFairness` (OTA): the main loop turns and boots run to their end, weak
  fairness of the boot and guard steps and of a download's end. Strong fairness
  of the uptime and confirm steps, because every turn calls `confirmIfHealthy`
  before `OTAUpdate::loop` may start a download. The task watchdog resets a loop
  that does not turn.
* `CrashFairness` (OTA): an image that crash-loops. Boots get through `setup()`
  infinitely often (strong fairness of the steps a crash can interrupt) and a
  boot that stays up crashes sooner or later. Without it "keeps crashing" would
  not be a premise.
* `FairSpec` (MQTT recovery): weak fairness of the main loop's steps together.
  Nothing is assumed of operators, resets, outages or ageing.
* `FairSpec` (failover): weak fairness of the main loop's turn as a whole and of
  each timer. Nothing is assumed of the fetch (it may hold its slot for ever), of
  the GNSS module, the operator or the environment. `TakesOver` and `YieldsBack`
  carry their premise themselves: WiFi or coverage that stays.
* `FairSpec` (commands): a drained job runs, handlers return and the wait of the
  AsyncTCP task ends (weak). Draining, the planned restart and the return of the
  outermost command are strongly fair: `loop()` reaches each in every turn, but a
  console line may run in front of it, and a reset may take it away.
* `FairSpec` (session): with the session up a due message is sent and the send
  interval passes (weak). That the broker takes what it is sent is the premise of
  `QueueDrains`; a session that drops excuses it.
* `FairSpec` (enrollment): the boot steps, the loop's steps and the end of a request
  (weak), a session that is dialed again while there is none, and an owner who
  claims a unit that proved itself. Nothing is assumed of revocations.
* `FairSpec` (scripts): the interpreter runs on and a pump returns (weak). What a
  script does is free.

An MC module states these again for its scenes: a scene never changes, so one
conjunct may carry an action of each.

## 10. Proofs

Eight modules are checked by TLAPS, one per component or MC module:
`OtaGuardProofs`, `OtaUpdateProofs`, `MqttRecoveryProofs`, `NetFailoverProofs`,
`CommandRingProofs`, `CommandsProofs`, `ConfigStoreProofs`, `AdminProofs`. Every
invariant a run checks is the subject of a theorem, and so is every action property.
A theorem holds for every value of the constants under the named assumptions of the
modules: about builds, flags and the crash limit (`BuildsAssumption`,
`FlagsAssumption`, `CrashLimitAssumption`), the recovery (`ConfigAssumption`,
`BudgetAssumption`, `SwitchAssumption`), the failover (`SettingAssumption`,
`StreakAssumption`), the ring and its scenes (`RingAssumption`, `PagesAssumption`,
`SessionAssumption`), the administration (`DocAssumption`, `WebAssumption`,
`UploadAssumption`, `CertAssumption`, `ScriptAssumption`) and the pull
(`PullAssumption`, `FledAssumption`). They give the constants their types, make tables
and limits positive, and say what else the code fixes: `CrashLimit >= 2`, a
subscription table with room for the core topics, a rate slot kept at least as long as
its lockout (`t.lockout <= t.quiet`), a UTF-8 sequence of at most four bytes.

In a scene module, a scene never changes, so a theorem about `SceneSpec` is one about
the scene's own machine; its fairness is not used.

**Premises.** Eight theorems are about a unit with some switches off, the ones the runs
leave out too, and section 8 says what happens with them on:

| Premise | Theorem | Says |
|---|---|---|
| `OneAtATime` | `ValidHasRun` | NVS works, `Update.end` fails before the image head is written, no upload beside the main loop |
| `NotOverridden` | `LeftNotRepulled` | the same, and neither `force` nor the end of the day lifts the refusal |
| `BrokerIsAway` | `OutageLeavesProven` | calls work, no uploads, restarts are an operator's or the MQTT budget's |
| a working NVS | `BoundedReboots` | a count that cannot be read is 0 |
| every port is named | `SoundSnapshot` | the disagreement of `MqttPortDefault` |
| `EditsDropSession` | `ReloadReaches`, `UndoneWasTried` | no `config.set`, no save that fails after the file was written, no missing port |

`SafeReset`, of `ActivatedIsAlive`, says that `cell.reset` comes outside a bring-up.

**Updates.**

* `Bootable`: `AlwaysBootable` is inductive relative to `TypeOK`. Its last conjunct
  carries the argument: the guard only reaches a switch with a target that verified,
  and nothing writes the other slot in those phases.
* `InstallSurvives`: `InstallInv` says that until the guard has run, a boot classed as
  an install has a streak of at most one. This is where `CrashLimit >= 2` is needed.
* `NoPingPong`: `PingPongInv`, five named parts. The central one, `BoundReachedInv`,
  says that once the bound is reached the other slot cannot be a target: it is recorded
  as left, invalid, or its arrival is still to be recorded.
* `ValidHasRun`: a mark may go to an image that never ran in two ways, by a rescue flag
  that outlives its boot and by a confirm whose active entry is not the running slot.
  `EarnedInv` excludes the first (`RescueEarned`: while the flag stands, every image
  that loads has run) and the second (`PendingRuns`, `NewIsStaged`, `ReadPending`: what
  is pending is the running image, and the boot slot).
* `LeftNotRepulled`: `RefusedKnown` says a refused image is the recorded one, or the
  other slot holds one at least as new, which `check` does not offer.
* `OutageLeavesProven`: a proven image is not counted against in an outage, but may
  become proven when its streak is already at the limit. `OutageInv` follows the limit
  through a boot: `LimitReached` says that past the guard an image at the limit has
  nowhere to go, and that a boot at the limit leads to that image again or to a new one;
  `UnplannedStartsAtZero` says that the boots without a marker, which count, start from
  a cleared streak; `RunsSelected` and `OnlyRunningPends` fix which slot a boot runs.
* `PullIsSound`: `PullInv` adds `RangeSane` to the types: a range never asks past its
  chunk and has a try left when it asks. With it each byte lands in its place.
* `FledIsSound`: `FledInv` bounds the age kept in RAM, in RTC memory and in NVS from
  both sides by the time the unit was up (`NotAhead`, `NotBehind`), across resets and
  saves that fail (`KeptInStep`).

**MQTT recovery.**

* `TypeCorrect`: `TypeInv` adds that a reboot under way was decided on a count below
  the budget, so the bump stays within it.
* `BoundedReboots`: `BudgetInv` ties the history counter to the stored count (`Covered`:
  at most the count, or one budget more while the snapshot is live); a rollback starts
  the second budget only from the first (`Restored`), and `StreakOver`, `BootRead`,
  `CountRead` keep what a boot and a decision read equal to what is stored.
* `SoundSnapshot`: `SnapshotInv` says that a session proves what was dialed with the
  credentials in use, and that the stored keys, flag or not, were proven.
* `ReloadReaches`, `UndoneWasTried`: `FollowInv` says that without a reinit pending the
  client dials what the document says (`DialFollows`), so that a connect that fails, and
  the configuration recorded for it, have been tried.

**Failover.** `ActivatedIsAlive`: `AliveInv`. `PhaseAlive` says that a bring-up past
POWER_ON has a living modem; it survives a failing reset only because `ActiveIdle`
holds: an MQTT dial or a probe resets the modem in ACTIVE alone, where no bring-up is
under way. `TypeCorrect` needs `CountedType`: a streak is zeroed by the reset it earns.

**Commands and messages.**

* `RingInv` carries `HonestAnswers`, `OwnAuthority` and `NeverWedged`: a slot is in use
  exactly when it lies between the indices (`RingDense`), jobs are numbered as they come
  (`JobsKnown`), only the outermost command is a job and each nesting level's flag is its
  own (`StackSound`).
* `RingImplementsQueue`: every step of `CommandRing` is a step of `CommandService` or a
  stutter under the mapping that reads the queue off the slots from `head` to `tail`,
  for every ring size. It is `RingIsQueue` without its fairness.
* `SessionIsSound`: `RingHoldsNewest` says that around the array lie the newest accepted
  messages, none sent; `TopicsRecorded` that what the broker holds is recorded and an
  unmarked manifest lists it.
* `PagesAreSound`: `PagesInv`. `PagesFit` needs that the greedy cut of a line fits, which
  is a fact about sums of costs; `PagesWhole` that the cut falls between two characters,
  which needs a sequence of at most four bytes; `PagesGather` that what the reader puts
  together, with the page being filled and the line being printed, is the output.

**Administration.**

* `CopiesStayEqual`, `PushDefersPrefix`: `ConfigInv`. `HeldIsUsable` says a held prefix
  can be spoken under, `FilePrefixKnown` that until something moves the prefix the file's
  is the one a save writes. Each surface that rebuilds the document leaves it as given or
  with a hold on top (`Rebuilt`), and a hold changes nothing of what a save writes
  (`HoldLeaves`); the two that edit RAM and save touch connection keys alone
  (`EnrollSaveKeeps`, `RollBackKeeps`).
* `WebIsSound`: `RateSound`, `TokenSound` and `GrantSound` for tables of any size. A token
  that left the table early was the oldest of a full one, so enough newer ones exist
  (a pigeonhole over slots); each live slot of the terminal table is matched with a grant
  of its own, unspent and no older than the slot (`Matches`), so no grant opens two
  terminals.
* `UploadIsSound`: `UploadInv`. `CommitSound` places the old and the new file at each step
  of `fatCommit`, `CopiesKept` says a stored file is under its name or parked.
* `CertIsSound`: `CertInv`. A pair counts as broken only if it does not validate because
  a new certificate never meets a key that fits it by accident: `KeyIsOlder` says that
  the key on the unit is older than the certificate being polled for.
* `ScriptsAreSound`: `ScriptInv`. `OwnFrames` and `OneState` say what a call and a timer
  belong to, `CoreRegistered` survives the reset of the table by itself.
* `TypesAreCorrect` collects the type invariants of the scenes.

Sums and readings over sequences are recursive functions. What such a function computes
is proved by `Induction` in `CommandsProofs`: a set of numbers that holds 0 and the
successor of each of its members holds all of `Nat`, by the well-founded order of `Nat`
(`WFMin`). No operator is passed to it.

Model-checked only: liveness (`EscapesCrashLoop`, `PendingResolved`,
`RollsBackBadConfig`, `ReconnectsOnReturn`, `WifiReturns`, `TakesOver`, `YieldsBack`,
`LandedRestarts`, `QueueDrains`, `EndsSealed`, `MainLoopTurns`) and the fairness part of
`RingIsQueue`, which are out of the prover's reach.

## 11. Disagreements between code and documents

Each is a run TLC ends with a counterexample; `PROJECT.json` quotes the line.

* `OtaGuardUploadRace`: an upload that ends before a confirm is what the confirm
  marks.
* `MqttPortDefault`: a missing port is dialed as 8883 and restored as 0.
* `NetNoRescan`: without a usable `ap_password` the fallback AP is refused, and
  the timer that should scan again, `recheckWiFi`, has no caller: WiFi that comes
  back is not joined until the next boot.
* `RevokedStale`: a revocation answer for the certificate asked about wipes the one
  an operator pushed while the question was out.
* `HotReload`: the subscriptions of a closed Lua state keep their table entries, so
  a script that subscribes is refused its own after enough reloads.

Met on the way, without a run of their own:

* A wipe that removes the certificate and fails on the key leaves nothing to ask
  about; the next boot enrolls (`AwaitsBoot` in `EndsSealed`). When the power goes
  between the two halves of the certificate that boot fetches, the boot after it finds
  the new certificate beside the old key and the ack flag set: `hasClientCert` holds,
  the pair never validates, and `AwaitMtls` (`Enroll.cpp:502`) waits for a session that
  cannot come (`Stranded` in `EndsSealed`; with the flag taken back first, the unit rests
  as if it were done). `docs/invariants.md:568` says of the write order that "a power cut
  before the cert lands leaves no cert, so the next boot re-enrolls from announce". What
  recovers the unit is `cert.clear`, which a pair that does not validate opens to a
  password session.
* An enrollment or a boot rollback whose `Config::save` fails does not reload
  (`Enroll.cpp:247`, `MQTTClient.cpp:786`): the keys it could not write stay in RAM, and
  the next save of anyone writes them, also after a rollback that logged its failure.
  Between a certificate's answer and the restart onto it the live prefix is no longer
  the one subscribed to.
* A load that cannot open the file keeps the document, held prefix included, and
  forgets that it was held (`Config.cpp:46`): the next save writes the held prefix as
  the configured one.
* A rollback of the connection after an enrollment may leave the unit waiting for an
  mTLS session on a port that offers none.
* `lua.reload` from inside a running call closes the state the call runs in.
* `EventBus::publish` iterates a vector a callback may append to (`EventBus.cpp:16`).
* `reinitSubscriptions` drops the scripts' subscriptions and the reload topic.
* A first manifest whose publish fails is not tried again in the session; a flush
  drops a message whose publish fails; a direct publish may overtake queued ones.
* Two sessions between two turns of the SHT31 module are one to it.
* On FAT, an upload to another file of the directory reuses the names a stranded
  commit left its two copies under.
* A console `ota.check` typed during a check loses its manifest override
  (`OTAUpdate.cpp:1065`); a publish to `ota.cmd_topic` does not reset the force of
  an earlier request.
* A snapshot whose keys land and whose flag does not is never completed while the
  keys stay the same (`MQTTClient.cpp:754`); `connect` holds a pointer to the user
  name across a modem dial (`MQTTClient.cpp:814`).
* FAILED restarts the down-hold with an old time (`CellularModule.cpp:183`), and
  WiFi that comes back during a bring-up is looked at only after it
  (`CellularModule.cpp:193`).
* `wake_s * 1000` is computed in 32 bits (`SleepManager.cpp:65`).

## 12. Not modelled

Within the modules:

* Updates: reading otadata never fails; setting the boot slot while another than
  the running one is already active; two uploads at once or an upload into a
  running pull; the MQTT session during a download.
* MQTT recovery: a missing `mqtt.broker`, the topic prefix (in `ConfigStore`), mTLS
  (credentials stand for either; in `Enrollment`), a missing transport, a session
  lost while the broker is up, a console command inside a failing modem dial (it is
  an edit before the dial), an unreadable configuration file.
* Failover: clock sync and telemetry over the modem, the GNSS fix (a lost context
  stands for it), OTA over the modem (in `OtaPull`), the MQTT retry back-off (every
  turn is one in which a retry is due), a broker that is down while the link is up,
  an MCU restart.
* Commands: the text of commands and replies; a WebSocket client that is gone when
  its answer comes (it is not sent).
* Session: QoS and acknowledgements (the client publishes at QoS 0), low heap during
  a connect.
* Configuration: a file that opens and breaks off while it is read, which leaves an empty
  document like one that does not parse; what an enrollment does around its save (in
  `Enrollment`), and when a boot rolls back (in `MqttRecovery`): `ConfigStore` takes any
  broker.
* Administration: constant-time comparison, the entropy of tokens; certificates an
  operator pushes are issued apart from any enrollment; the unit's refusal of a
  certificate while a prefix is held (it polls again); a certificate issued again at each
  poll, which is one serial a claim; back-off times of the enrollment.
* Scripts: what Lua computes, memory limits, Lua's own C-call limit (`MaxDepth`
  stands for it).

The other components and the reason each is left out are in `PROJECT.json` under
`components`: drivers that read a chip and publish a value, floating-point sampling,
bit-level radio frames, the SD log, Telegram, and plumbing without a protocol.
