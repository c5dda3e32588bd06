# Verification of the SLC node firmware

The repository is the firmware of a street-light controller node: an FRDM-K64F
board with a cellular modem, an ADE7953 power meter and a lamp MCU, managed
through Pelion (LwM2M). This directory holds TLA+ models of its control logic,
the TLC configurations that check them and TLAPS proofs of the main results.

The program modelled is the product build, `main_slc.cpp` with `_PROJECT_SLC`
(the header of this commit has the factory-test project selected; the sources
are the same). Both settings of `_MBEDCLOUDCLIENT_PAUSERESUME` are covered. The
SPI link belongs to the build with a lamp MCU (without
`_PROJECT_SLC_COSTDOWN`).

Two parts of the vendored Pelion client are modelled too, because the node's
ability to come back depends on them and they are written against loss of power
and interrupts: the item store in internal flash (SOTP) and the scheduler of the
update client.

## 1. The system

### Threads and what they share

| thread | code | what it does |
|---|---|---|
| application | `SlcApp_ThreadFxn`, SlcApplication.cpp:1778 | a state machine polled every few seconds: sleep, wake up, wait for the network, for Pelion, for the subscriptions, for the registration of the device, upload, leave |
| main | `main`, main_slc.cpp:560 | owns the network and the client: serves a connect request, then a disconnect request, for ever |
| event | Pelion client library | runs the callbacks of `SimpleM2MClient`, the PUT callbacks of the resources and the update hooks |
| timer | RtosTimer callbacks, SlcApplication.cpp:1124-1234 | sets triggers; restarts the node (watchdogs) |

They communicate through plain variables that no lock protects: the request
flags and the published state in `Main` (`ToNetConnect`, `ToNetDisconnect`,
`DisconnectType`, `NetState`, `PelionRegistered`, `Paused`), the triggers in
`SlcApp.Trigger`, and the configuration with its backup (`SlcAppConfig`,
`SlcAppConfigBackup`).

### Components

| component | state | operations | talks to | correct when |
|---|---|---|---|---|
| control block | the six fields of `Main` | `Pelion_ToRestart`, `Pelion_ToDeregister`, getters | application, main, event | both threads agree on who may use the network |
| main thread | position in the loop, two error counters | connect loop, time sync, register/resume, pause/close, disconnect, reboot | client, modem | a request is always served; the network never goes down under a session |
| Pelion client | `_registered`, operations not answered yet | register, resume, pause, close, five callbacks | main, control block | a session is only used while registered and not paused |
| application | `appstate`, sub-states, counters, timers, triggers, configuration | one iteration per state | everything | the cycle progresses, every wait is guarded, uploads stay scheduled |
| resources | subscription flags, values | PUT callbacks, status callbacks | application | a written configuration is acted upon |
| configuration store | configuration, backup, file | update, reset, restore | file system | what was written is what a restart reads |
| firmware update | three flags | triggered, terminated | application, event | an update is not cut off |
| light schedule, thresholds | tables, status bits | date match, comparison with hysteresis-free limits | lamp MCU | the right level at the right minute |
| modem control | module, bands; the AT channel | PreInit, Attach, Detach, queries | main, application, modem | the modem is attached when the network is used; start-up ends |
| time sync | time-out, counted errors | SyncRealTime, get_timestamp | main, time servers | it ends, at the latest on a disconnect request |
| item store (SOTP) | two flash areas, active area, offsets | init, set, get, garbage collection | Pelion client | a set is atomic and durable, whenever power fails |
| update scheduler | lock-free queue and pool, one flag | post, process | update client, interrupts, event loop | every callback runs, in order, once |
| MCU link, power meter, LEDs | frames, registers | SPI transfers | hardware | a frame is consistent |

### What is hard

* Interleaving: requests are tested, minutes of blocking calls follow, then the
  test is relied upon (main_slc.cpp:645-741); a callback comes in two parts
  (simplem2mclient.h:112,136).
* Ordering: answers of the library after the client was closed or paused.
* Time-outs and retries: one RtosTimer serves as register watchdog,
  node-register watchdog and terminate timer; stopping, relaunching and clearing
  its trigger are three different things.
* Restarts: four places decide to reboot, and three watchdogs may do so anywhere.
* Stale state: the backup of the configuration means two things at once.
* A shared AT channel: every exchange flushes the input before it takes the lock,
  and a late answer is taken for the next one.
* Loss of power in the middle of a flash operation, of a garbage collection, of
  the start-up that repairs after it.
* Lock-free code: a flag and a queue that cannot be changed together
  (arm_uc_scheduler.c:356), a free list without version counts.

`PROJECT.json` lists each of these as a hazard at its line.

## 2. Modules

```
PelionControl <- CloudClient <- MainLoop --+
      ^                                    +--> Session <- MCSession
      +---------------------- SlcApp ------+       |
                                                   +-- INSTANCE UploadCycle
Session <- SessionProofs

ConfigStore   <- MCStore,    ConfigStore   <- StoreProofs
LightSchedule <- MCSchedule, LightSchedule <- ScheduleProofs
SpiLink (checked as it is), SpiLink <- SpiProofs

Modem <- Network (checked as it is), Network <- NetworkProofs
Sotp <- MCSotp, Sotp <- SotpProofs, Sotp -- INSTANCE SotpStore
UcScheduler <- MCScheduler, UcScheduler <- SchedulerProofs
```

The last six stand by themselves: the session only sees that a configuration
changes, and nothing of the lamp; Network spells out the calls that are single
steps of MainLoop (attach, signal queries, `MainSync`, detach).

**PelionControl** is the part of `Main` the threads share and the interface
functions over it.

**CloudClient** is `SimpleM2MClient`. `pending` holds the operations the library
has not answered; each callback is an action. `client_registered` and
`registered_callback` are two steps because the code runs between the two
writes. A callback that calls `OS_Reboot` (which waits for seconds) leaves the
event thread busy (`rebooting`).

**MainLoop** is the loop of `main()`. `mpc` has one value for each point at which
another thread can run with a visible effect: around each blocking call, and
between a test of a shared field and the write it guards. `MainTop`,
`InitConn*`, `MainCheck`, `MainSync`, `MainSetConnected`, `MainRegister`,
`MainClear` are the connect half; `MainDisconnect`, `MainPaused`, `MainClosed`,
`MainDisconnected`, `MainMustReboot` the disconnect half. The results of modem
and network calls are chosen by the environment. `PauseResume` selects between
the two builds (`_MBEDCLOUDCLIENT_PAUSERESUME`).

**SlcApp** is the application thread with its timers. A timer is a record of the
RtosTimer (`run`), the flag the macros keep (`flag`), the trigger its callback
sets (`trig`) and whether it was last started for a period of zero seconds, which
makes a timer of 1 ms (`short`); the macros are operators on the function of all
timers. Each `case` of the switch is an action, but for the iterations of
WAIT_DEV_REG, READY_TO_STANDBY and STANDBY. These are split at `stage`s, wherever
another thread can run with a visible effect: uploads block for seconds, a timer
is launched and its trigger cleared by the statement after it, and a difference
between configuration and backup is acted upon before the backup takes over the
configuration as it is by then. `StandbyStep` gathers the fourteen steps of an
iteration of STANDBY. A poll that finds nothing is a stuttering step. The
configuration keeps the fields on which the control depends. The `SlcApp_Update_*`
functions are the operations the event thread calls; a whole configuration has
its period raised to `MinPeriod`, a single field has not (section 3).

**Session** puts the four threads together and adds the server (requests that
reach an online node), the callbacks that reboot, and restarts. `SystemWatchdog`
may restart the node in any state: only delivered uploads and requests of the
server postpone it (`SlcApp_KickAppTimer`), and nothing in the model counts time.

**UploadCycle** is the abstract specification: a node that sleeps, wakes, goes
online only over a link that is up, keeps the link until it leaves and sleeps
only once it is down.

**SessionProofs** holds the theorems about Session.

**ConfigStore** is the configuration (`SlcAppConfig`), its backup and the file
`data/sysconfig`. The requests of the event thread are the four kinds of update
functions; each is split where the application thread can interfere: the change
in RAM, the test whether to store, and the five steps of `DataStore_WriteFile`.
The application thread does what READY_TO_STANDBY and STANDBY do to the shared
state: it updates the backup and writes its time stamp through the same file
system. Fields have their width (`Modulus`) and assignments wrap. Flash
operations may fail, operations on a file system that is not mounted fail, a
file is committed when it is closed (LittleFS), and a restart may come at any
step. `excused` is a history variable: the known reasons for which RAM and flash
may differ since the last write that succeeded.

**LightSchedule** is the loop over the schedule table at the end of each
iteration of the application, with `SlcApp_DateTimeMatch`. Time is counted in
half minutes, the length of the wait after a match; the rest of an iteration
takes any time; a restart takes at least half a minute and reads the table from
the file, or none. The calendar is a parameter: a function from the time to the
fields of the RTC. Nothing the loop does to the table is stored, and the PUT
callback of the table is commented out in this version (SlcLwm2mData.cpp:1886).

**SpiLink** is the thread of `SlcControl` and the SPI master at the other end.
`Hunt` is the outer loop (waiting for a first check byte), `NextByte` the inner
one, which reads blindly to the end of a frame. The master may be anywhere in a
frame when the node starts, replies arrive one byte late, and up to `MaxLost`
bytes are lost at arbitrary places. Measurement bytes are raw: they take any
value, those of the check bytes included. Three history variables say what the
thread cannot know: `missing` counts the bytes lost since the byte it took for the
first of a frame, `genuine` says whether that byte was the first of a frame, and
`origin` where in the frame the byte it has just read was.

**StoreProofs**, **ScheduleProofs**, **SpiProofs**, **NetworkProofs** and
**SchedulerProofs** hold the theorems about the modules they extend.

**Modem** is the AT channel and the modem behind it, from their use in
CellularExternalControl.cpp (neither is in the repository). An exchange has four
steps, the ones every function of that file makes: `flush()`, `lock()`, the
command, the reply or its time-out with `unlock`. A line in the receive buffer
knows which command it answers; a reader skips lines its prefix does not match and
stops at the first `OK` or `ERROR`, whosever it is. A command may be refused,
unheard, or answered after the time-out.

**Network** is what main does over that channel: `mpc` is the exchange it makes.
`AfterBoot` is `CellularExt_PreInitModule` (two different modules: BC95-G, which is
restarted after its bands were set, and R410M, which goes on), `AfterAttach` is
`CellularExt_Attach` with its four loops, `SyncTop`, `AskServer`, `SyncResult` are
`SyncRealTime` and `NTPClient::get_timestamp`. The application thread makes its
requests and sends queries of its own through the same channel (the uploads of
signal, cell and SIM data).

**Sotp** is sotp.c. A flash area is a row of records; a write tears its record
until it ends, a write over something leaves garbage, an erasure passes through
states in which the master record, or the items, are still readable. `Boot*` is
`sotp_init`, `Gc*` the garbage collection on behalf of sotp_init or of a writer,
`Set` to `Return` sotp_set under the shared lock, `Get*` sotp_get, which takes no
lock. `Restart` may come at any step. `sound` is a history variable: it becomes
false when an item write, the erasure of a collection or a collection of
`sotp_init` fails, and nothing is claimed after that.

**SotpStore** is what sotp_set promises: a call takes effect at once, at some time
before it returns, or perhaps not at all if it fails or power does; no restart
changes anything. Under the refinement mapping an item is what the next start-up
would find (`Recover`).

**UcScheduler** is arm_uc_scheduler.c over atomic-queue.c, every compare-and-swap
and every read that another thread can disturb a step of its own. Posters take an
element of their own or one of the pool, fill it, push it and notify; the event
loop pops, releases, frees and decides whether to send itself the event again
(`try_clear_callbacks_pending`, the four cases of its comment). `aq_pop_head` is
a walk from the newest element to the oldest, one element a step (`Advance`),
that ends with an exclusive store (`Unlink`) or starts again when that store
fails (`Interrupted`). The history variables `queue` and `free` say which
elements the two linked lists are meant to hold; `Linked` and `FreeLinked` tie
the `next` fields to them.

Definitions named `X_Something` next to a definition `X` are mutants: variants of
the code with one plausible mistake, used to confirm that the properties notice
it. They are not part of any specification.

## 3. Runs

Runs of the session (module MCSession) take between half a minute and 3 min, `store`
about 100 s, `network`, `scheduler` and `sotp` about a minute, the others a few
seconds.

| run | what it checks |
|---|---|
| pause | pause/resume build; the server registers and unregisters the device, writes whole configurations and single fields: types, `Agreement`, `WaitIsGuarded`, refinement of `UploadCycle` |
| close | close/register build; a resource to subscribe, node-register timer, firmware downloads that begin and fail anywhere, factory resets, reboot requests: `OnlineMeansConnected`, `SessionMeansRegistered`, `WaitIsGuarded` |
| uploads | status and data timers under whole configurations written at every stage of STANDBY, with a restored configuration whose period is zero: `StatusStaysScheduled` |
| live | `CycleProgresses`, `DisconnectIsServed` under fair threads and timers; `SleepsAgain` if the system watchdog is fair as well |
| store | `FlashAgrees`, `MountedOnlyInUse`, `RestartKeepsConfig`: every kind of update, both kinds of work of the application thread, failing flash operations, restarts anywhere |
| schedule | `RepeatIsHonoured`: entries of every kind, two due in the same minute, a clock that is not set at first, restarts, unreadable files |
| spi | `ReceivedIsOneFrame`, `MeasurementArrives`, `ModeArrives`: lost bytes, measurement bytes of the value of either check byte, a mode that changes in the middle of a frame |
| network | `BandsChecked`, `AttachTakesEffect`; `BootEnds`, `DisconnectServed`, `OnlyUncountedForEver`: both kinds of module, any bands and attachment at power-on, two faults of the modem per attempt, queries of the application at any point, time servers that answer anything |
| sotp | `WritesGoToBlank`, `GetFindsItem`, refinement of `SotpStore`; `GetEnds`, `SetEnds`: three items, up to three collections, failing writes and erasures, loss of power anywhere, a reader |
| scheduler | `NoLostWakeup`, `ExclusiveOwner`, `RunsInOrder`, `EveryPostRuns`: two posters, elements posted again while queued, an empty pool |

### Disagreements between the code and what it says

Each of these runs checks one property and TLC finds a counterexample.
`PROJECT.json` quotes the line and describes the behaviour.

| run | property | what happens |
|---|---|---|
| config_change | `ChangeIsStored` | a changed whole configuration is never stored: `!memcmp` |
| sotp_parallel | `WritesGoToBlank` | with two writers, the one that waited for the garbage collection writes over the master record: `record_offset = new_free_space - free_space_offset` (sotp.c:779) subtracts the counter from itself. Needs a build with `SOTP_THREAD_SAFE`, which this repository does not define |

Found with the same models and not kept as runs:

* STANDBY tests `TerminateUpload` before `FWUpdate` (SlcApplication.cpp:2263). With
  both set in one iteration the node disconnects while it updates, although
  common_def.h:56 says "don't deregister and disconnect network when updating fw".
* A factory reset copies the defaults into the backup as well
  (SlcApplication.cpp:1300): STANDBY sees no change of keep_online, and a node that
  was kept online stays online (`SleepsAgain` fails when the server may reset it).
* A network error leaves the register watchdog running (SlcApplication.cpp:1846).
  It fires while the node sleeps, and the next attempt is given up at its first
  poll although its own timer has just been started.
* The unmount of the application's time stamp (SlcApplication.cpp:2087,
  DataStore.cpp:145) may come between the mount and the open of the event thread,
  whose write then fails unnoticed while the log says "store". `FlashAgrees` counts
  it among the failed writes.
* sotp.c:958-964 chooses "the one having the higher version (or 0 in case of wrap
  around)", but tests for version 0 in area 0 only: with the versions 65535 in
  area 0 and 0 in area 1, after a loss of power between the master record and the
  erasure, the old area wins.
* A failed item write leaves a faulty record; items acknowledged after it are not
  found by the next start, which stops at the faulty one (sotp.c:786, 986).
* With two users of the callback pool at a time `callback_pool_alloc` is open to
  the classical failure of lock-free lists (arm_uc_scheduler.c:96-102): an element
  taken, used and freed between the read of its successor and the swap puts a
  queued element back into the free list. `ExclusiveOwner` holds with one, which
  is what this firmware has (section 4).
* A server that sets `reg_watchdog` to 0 leaves the waits of the application
  without a watchdog: the value is accepted and `RtosTimer` refuses it.
  `WaitIsGuarded` is about the other configurations (`WatchdogSet`).
* With disconnect types DETACH and RAI in turn, an application that gives up before
  main has come back to the top of its loop sets the type to RAI; main then
  connects through a modem it has detached (main_slc.cpp:572, "todo: re-attach
  anyway..."). With one type throughout, main attaches on every entry to its
  connect loop, which leaves nothing to check: the session has no variable for the
  attachment, and Network is about what Attach and Detach do.
* Duplicate notifications, which try_clear_callbacks_pending means to prevent, do
  occur (a poster between its check and its swap) and are harmless: the extra
  event finds the queue empty.
* A late `OK` is taken for the answer to `AT+CGATT=1` and Attach returns with the
  modem detached. `AttachTakesEffect` shows that this and a modem that fails all
  tries are the only ways.
* The files of the two power-factor thresholds are exchanged on writing
  (SlcApplication.cpp:415, 424) and not on reading (1482, 1488). The update
  functions have no callers in this version.
* Two whole configurations written between two iterations of STANDBY hide a
  change to keep_online (the backup is overwritten at SlcApplication.cpp:298): the
  termination launched for the first one stays pending.
* STANDBY acts on a difference of keep_online (SlcApplication.cpp:2194-2197) and
  then copies the configuration into the backup (2199): a PUT in between is
  recorded as acted upon. The same happens to a keep_online that is set before
  READY_TO_STANDBY tests it (2091) and taken back before STANDBY compares: no
  terminate timer runs, and the node stays online against its configuration.
* STANDBY may copy a new registration into the backup between the assignment and
  the comparison of `SlcApp_Update_NodeRegister` (SlcApplication.cpp:283-288):
  flash keeps the old one. `FlashAgrees` lists it as the excuse "race".
* The single-field updates limit the period held before the update and assign the
  new one unchecked (SlcApplication.cpp:490-551), although the log says "limit
  cycle_upload_status cycle time to %s secs at least" (536). A period of 0 (or of
  32768, which the 15 bits of the field turn into 0) makes a status timer of 1 ms
  (1166). It may expire between its launch and the next statement, which clears
  the trigger it has just set (2233-2234): the status is not uploaded again before
  the period changes or the node restarts. `StatusStaysScheduled` excepts the
  period zero and nothing else.
* A measurement that repeats 0xFE keeps the SPI thread out of step once a byte is
  lost: it takes the 0xFE for the first check byte, reads as many bytes as a frame
  has, refuses them and meets the same byte again (SlcControl.cpp:375-455). It then
  neither hears the master nor answers at the right index. With a lost byte,
  a 0xFE or 0x7F among the measurements may also make a mixture of two frames pass
  for one.
* A schedule entry that has run out is disabled in RAM only
  (SlcApplication.cpp:2385): it is back after a restart.
* Two matches use up a minute: a third schedule entry due in the same minute is
  looked at after it and missed (SlcApplication.cpp:2394).
* A mount that fails once at start-up formats the flash (DataStore.cpp:77).
* The result of `eventOS_event_send` is ignored (UpdateClient.cpp:336): an event
  that is not taken leaves `callbacks_pending` set and the update client stuck.
  `NoLostWakeup` assumes that every event is taken.
* Outside the control the models keep: `1<<i` with i up to 63 on a 32-bit int
  (CellularExternalControl.cpp:1087, 1207), a second release of the AT handler
  (1045, 1068), no second check of the bands of R410M and N410 (2076), a power
  factor in which 5 and 50 hundredths look the same (SlcControl.cpp:577), words of
  a frame read while the next one is copied (SlcControl.cpp:521), and a 32-bit
  overflow of `sys_watchdog_timeout_sec*1000` (SlcApplication.cpp:220).
* "Any" is 0 in the comments on the schedule (SlcApplication.cpp:1562,
  SlcApplication.h:232) and 255 in the code (SlcApplication.cpp:1629).

### Bounds

| constant | code | runs | why it is enough |
|---|---|---|---|
| `ErrLimit` | 3 | 0 or 1 | 0: the first failure ends the loop; 1: one retry and the limit, including the counter kept across attempts. More retries repeat the same step |
| `DisconnectWaitLimit` | 384 polls | 1 | one poll that counts and one that reboots |
| `ReduceTimes` | 12 | 1 | first upload and later ones differ; the count only selects a period |
| `Timers` | 5 | 2 to 4 | a timer that is left out is never launched; each is in some run |
| `Resources` | about 40 | 0 or 1 | the code only asks whether all are subscribed |
| `Configs` | all | 1 or 2 | two values of each field whose change is acted upon |
| `MinPeriod` | 30 s | 1 | a period of zero below it and one at it; only zero makes the short timer |
| `Requests` | all | 1 to 3 kinds a run | each kind is in some run; the requests of `uploads` are whole configurations, and its period of zero, which only a single-field update stores, comes from the flash at start-up |
| `Data` (SpiLink) | any byte | a byte of no meaning and both check bytes | the thread compares bytes with the check bytes only |
| `Fields`, `Inputs` | 10 fields | 1 period, 1 plain field, values below and at the minimum and beyond the width | fields are independent of each other |
| `NewConfigs` | all | those that differ in a period, a version or the registration rule | the store compares whole buffers |
| `Count` | 6 | 2 | two entries due in the same minute, one of each kind in some table |
| `Horizon` | | 22 half minutes | two days of the short calendar, after the clock is set |
| `Size` | 32 or more | 5 | both check bytes, the mode, its neighbour before and after |
| `MaxLost` | any | 6 | every offset between the node and the master (`Size` - 1), and more than a frame, so that the limit of `ReceivedIsOneFrame` is passed |
| `Tries`, `BandTries`, `PsmTries`, `NtpRetries` | 10, 4, 3, 10 | 2 | a first try, a last one and the limit |
| `MaxFaults` | any | 2 per attempt | every try of a loop fails, or a late answer meets a refused command |
| `Servers`, `Enlargements`, `SignalQueries` | 9, 12, 4 | 2, 1, 1 | the last server, a time-out before and at its maximum |
| `Size` (Sotp) | area / record | 4 | the master record and three items; the area fills up after two sets, and collections happen with one to three items |
| `Types`, `Calls` | 20 types | 3, 4 calls | an item that is replaced, and others that a collection must keep |
| `MaxVersion`, `Versions` | 65536 | 3, 16 | both areas have been active twice; the wrap is left out (see above) |
| `MaxSwitches` | any | 1 | see section 6 |
| `PoolSize`, `MaxPosts` | 32 | 2, 4 and 1 | the pool is used up while an element of the poster and one of another thread are queued |

`TimersOff` and the periods: a period is only zero or not, as `RtosTimer::start`
refuses zero and the launch of the status timer adds a millisecond to it.

Of the passing runs of the session `uploads` is the largest (3.8 million distinct
states), then `close` (2.1 million), `pause` (1.2 million) and `live` (180,000).
`spi` has 680,000.

### Fairness

`Fairness` assumes weak fairness of the application, the main thread, the
completion of `client_registered`, each timer and a decided reboot: mbed OS is
preemptive and round-robin within a priority, every blocking call of the main
loop has a time-out (the NTP and modem layers included), and a started timer
expires. Neither the server nor the outcome of a network operation is fair: a
network that never comes up, a registration that is never answered and a
subscription that never arrives are behaviours of the model. `WatchdogFairness`
is the system watchdog of a node that uploads nothing; only `SleepsAgain` assumes it.

The time sync is the one call of the main loop without a time-out of its own
(main_slc.cpp:1005-1067): some errors are retried for ever. It is sure to end on a
disconnect request only, so `Fairness` of Session asks for the step of the main
thread in SYNC only while there is one; the application makes the request when
its register watchdog fires. Network shows why that is right: `DisconnectServed`,
and by `OnlyUncountedForEver` the two outcomes that are retried for ever.

In Network both threads are scheduled (weak fairness), and a thread that waits for
the lock of the ATHandler gets it in the end (strong fairness: a mutex of the RTOS
with a queue of waiting threads). Nothing is assumed of the modem but its bounded
number of faults per attempt, nothing of the time servers, and no late answer need
ever arrive.

In Sotp a thread inside sotp.c goes on (weak fairness of start-up, collection,
writer, reader); power may fail for ever, and no call need be made. In UcScheduler
the event loop and posters inside the scheduler are weakly fair, and
`eventOS_event_send` delivers every event. `Unlink` is strongly fair: the
exclusive store of aq_pop_head fails only when an interrupt or another thread ran
since the exclusive load, a few instructions before, and that does not happen on
every try.

In SpiLink the master keeps sending (it is an MCU that polls its slave) and the
thread polls without sleeping. Losses stop in the end: `MeasurementArrives` says
what happens then.

## 4. Proofs

`SessionProofs.tla` proves, for every value of the constants allowed by the
named assumptions (`ControlAssumption`, `MainAssumption`, `AppAssumption`,
`SessionAssumption`):

* `TypeCorrect`: `Spec => []TypeOK`. Includes the bounds of the two error
  counters, of the first-upload counter and of `disconnect_waitcnt`.
* `AgreementInvariant`: `Spec => []Agreement`. `OnlineMeansConnected` and
  `SessionMeansRegistered` are not inductive: a disconnect request may be set
  while the application already sleeps. The strengthening says where such a
  request can be (`NoStaleDisconnect`: never together with an established
  network), that the main thread disconnects only on request
  (`DisconnectIsRequested`), that it is on the way to the network only in a
  published state that keeps a leaving application waiting (`ConnectIsVisible`),
  and that a request in the window between the last test and the write of
  NetState is that of an application still waiting (`LateRequestWaits`).
* `OnlineIsConnected`, `SessionIsRegistered`: its two consequences.
* `Refinement`: `Spec => ImplementsUploadCycle`, from the agreement: each action
  of the application is a step of the cycle or changes nothing of it, the main
  thread takes the link down only under an application that is not online, a
  restart is a power cycle.

Each step lemma has one case per action.

`StoreProofs.tla` proves, from `StoreAssumption`, that RAM and flash agree unless
something is excused (`FlashAgreesAlways`), that the file system is never left
mounted (`NothingLeftMounted`) and the action property that a restart keeps the
configuration (`RestartKeeps`). The inductive invariant adds what is true in the
middle of a request: before the test of the registration, flash holds the
configuration with the registration of the backup (`RegisterPending`); outside a
write that is on its way, flash agrees with RAM (`SettledAgrees`). It is proved
for any number of fields of any width.

`ScheduleProofs.tla` proves, from `ScheduleAssumption`, `RepeatHonoured` for every
table and every calendar. `CountsFromGiven` ties an entry that still runs to the
one the restart found.

Two more results of `SessionProofs` follow from invariants of their own, each
checked by TLC before it was proved:

* `WaitsAreGuarded`: `WatchdogSet` implies `Spec => []WaitIsGuarded`. `GuardInv`
  adds which sub-states belong to an application that is online
  (`StageIsOnline`): the trigger of the one RtosTimer is only used up by a step
  that leaves the wait. It uses `Agreement` for the steps of the main thread.
* `StatusIsScheduled`: `Spec => []StatusStaysScheduled`, about STANDBY. It needs
  more than that state: `StatusInv` claims the same of every state of the
  application from the first upload after a restart on, except during the upload
  that a new period begins with; that the timer has been launched when its trigger
  is about to be cleared (`Relaunched`); and which stages belong to which states.
  Lemmas about the timer macros (`ScheduledKept`, `ScheduledByLaunch`,
  `ScheduledByClear`) carry it over configuration changes and factory resets. The
  steps inside an iteration are treated together (`InnerStep`).

`SpiProofs.tla` proves from `SpiAssumption`: `TypeCorrect`, and `FramesAreWhole`,
the action property `ReceivedIsOneFrame` for every frame size, every set of
measurement bytes and every placement of losses, without further hypothesis; its
two exceptions are part of the property (section 6). `FrameInv` relates the index of the node to the
position of the master through the number of bytes lost since the first check
byte (`Aligned`). Once something is lost, the second check byte comes to its
place only at the end of a frame that was read from its beginning (`OneFrame`).

`SchedulerProofs.tla` proves from `SchedulerAssumption`, for any number of posters
and elements:

* `WakeupsArrive`: `Spec => []NoLostWakeup`, without further hypothesis. `WakeInv`
  says that callbacks_pending is set only while an event is coming or the event
  loop will still look at it (`FlagMeansEvent`), and that a callback the loop does
  not know of has a poster that has yet to look at the flag (`QueueIsKnown`).
* `TypeCorrect`, `OwnersAreExclusive`, `CallbacksRunInOrder`, under `OnePoolUser`
  and `OwnStorage`. They fit the CoAP build of this firmware: its posters offer a
  static element each (lwm2m-source.cpp, from the event thread), and only a post
  that finds its element in use goes to the pool. They do not fit the HTTP source
  of the same tree, which posts without storage from several contexts
  (arm_uc_http_socket_private.c:2036, 2173); for it `callback_pool_alloc` has no
  protection, and with two threads in the pool the property is false (section 3).
  `OwnInv`
  has a part for the queue (`Linked`), for the free list (`FreeLinked`), for each
  poster (`PosterInv`: the successor it has read is still right when the root is
  what it was, because nobody else takes elements), for the loop and its walk
  (`LoopInv`, `WalkInv`), for the separation of all of them (`Separate`) and for
  the contents (`Contents`).

`NetworkProofs.tla` proves from `ModemAssumption` and `NetworkAssumption`, for any
numbers of tries, faults, servers and retries: `TypeCorrect`, `BandsAreChecked`
and `AttachWorks`. `NetInv` says what a received line is worth: a fresh one tells
the present state of the modem, a value is followed by the end of its own reply
(`Paired`), and while main waits the fresh lines answer its command; an old line
that tells the required bands is still right, because no command takes them away.
`AttachInv` counts failures against tries. The first final line and the value
before it are minima of sets of positions, hence the lemmas on `Min`.

`SotpProofs.tla` proves from `SotpAssumption`, for areas of any size, any set of
items and any number of restarts, collections and failures:

* `TypeCorrect`, `BlankWrites` (`Spec => []WritesGoToBlank`), `GetsFindItems`
  (`Spec => []GetFindsItem`);
* `StoreImplemented`: `Spec => ImplementsStore`. sotp_set is atomic and durable.

The hypotheses are definitions of the module. `OneWriter`: one thread at a time
calls sotp_set, as in this firmware, which is built without `SOTP_THREAD_SAFE`;
with two, `WritesGoToBlank` is false (run `sotp_parallel`). `NoWrap` (not for
`TypeCorrect`): active_area_version does not reach its modulus; at the wrap the
code may choose the wrong area (section 3). `OneSwitch` (only for
`GetsFindItems`): one collection at most ends during a sotp_get (section 6). The
run `sotp` satisfies all three.

`SotpInv` says what the flash looks like while nothing has failed that makes the
store unsound. Before sotp_init has decided (`BootInv`), one area can be taken, its
items are followed by one torn record at most, and that record leaves a version for
the collection it calls for; or there is no item at all. Afterwards (`UpInv`):
`ActiveInv` gives the number of settled records of the active area, from the
progress of the writer and the collection; `VersionInv` says that a restart would
take this area, also in the middle of a collection or an erasure, and covers the
oddity that active_area_version is one less than the master record after a format;
`WhereInv` says that the index points to the latest record of every type, or,
while copying, that an item is either not copied yet or its copy holds the latest
record or the new item (`CopyInv`); `OtherInv` that the rest of the other area is
blank; `RoomInv` that a collection of sotp_init always has room, so it cannot end
in SOTP_FLASH_AREA_TOO_SMALL; `ReadInv` that a reader's offset holds a record of its
type or the area was erased and is not the active one any more. The preservation
has one lemma per action. TLC checked `SotpInv` with the constants of run `sotp`
before it was proved.

For the refinement, `ContentHolds` derives from `SotpInv` that what a restart would
find is what the index says, except while copying and after a failed collection.
The item takes effect at the end of write_record, or at the end of the master
record of the collection (`MasterContent`); every other step leaves the contents
alone (`ActiveKept`, `BootContent`).

Only model-checked: liveness and everything else about fairness or `ENABLED`
(`CycleProgresses`, `DisconnectIsServed`, `SleepsAgain`, `MeasurementArrives`,
`ModeArrives`, `BootEnds`, `DisconnectServed`, `OnlyUncountedForEver`, `GetEnds`,
`SetEnds`, `EveryPostRuns`), which the prover does not handle.

## 5. What is not modelled

| part | why |
|---|---|
| thresholds (SlcApplication.cpp:355-462, 1442-1533, 2403-2486) | the functions that set them have no callers (their resources are commented out): they keep the value "not set", and the test never fires |
| the rest of CellularExternalControl.cpp | RAI disconnect, resets of the modem, APN, GPS, scrambling, RAT setters of BG96: single commands without a decision on the reply |
| power meter (ADE7953.cpp) | register transfers and floating-point scaling |
| PWM dimming of the cost-down build (SlcControl.cpp:89-162) | one value written to one register, step by step; nothing shares it |
| getters of the MCU link, LEDs, custom AT command, debug output | conversions and output |
| `DataStore_RemoveFile`, appending writes | not used by the configuration |
| `sotp_reset`, `sotp_deinit`; `ARM_UC_ProcessQueue`, `ARM_UC_PostErrorCallbackCtx` | factory tools, other platforms, no callers |
| other `main_*.cpp` | factory tests and demonstrations, not in the product build |
| the rest of `mbed-cloud-client`, `pal-platform`, `delta-tool` | third-party |

By far the largest part of the repository is third-party: about 190,000 of its
200,000 lines of C and C++ are the Pelion client with its CoAP and LwM2M libraries,
PAL ports for other operating systems, TLS configurations and tools. The models
cover the program's own control logic, and of the libraries the two parts whose
correctness depends on an order of steps; a model of the rest would be a model of
another project.

## 6. Limits of the results

* `StatusStaysScheduled` takes a timer of a second or more not to expire between
  its launch and the next statement of the application (`TimerFires`): the thread
  would have to be kept from running for all that time. A timer of 1 ms may.
* `ReceivedIsOneFrame` has two exceptions, which the code does not prevent: as many
  bytes lost as a frame has, and a measurement byte that is mistaken for a check
  byte (`MistakenCheckByte`). `MeasurementArrives` and `ModeArrives` say nothing of
  measurements of the value of the first check byte. TLC refutes all three without
  these exceptions.
* The file system below DataStore is modelled from its use: an operation on an
  unmounted file system fails cleanly, and a close commits all or nothing.
* `AttachTakesEffect` allows for a misread reply. There is no tag that ties an
  answer to its command, so no stronger statement holds of this channel.
* `GetFindsItem` is checked and proved with at most one switch of the area during
  a read.
  With two, `sotp_get` may return a record of another type, which it does not
  check (sotp.c:636).
* The CRC of a record is taken to be exact, and reads of the flash to succeed.
* `ExclusiveOwner` and `RunsInOrder` are checked and proved with one user of the
  pool, the CoAP build (section 4); a poster outside `PoolUsers` posts only while
  its element is free.
* Memory is sequentially consistent in all models: the target is a single core.
* Time is not counted in the session: a timer that runs may fire at any moment,
  also sooner than in reality, with the one exception above. Safety results are
  the stronger for it.
* `SystemWatchdog` restarts the node in any state; the order of its warnings and
  the light-sensor mode it switches to are not modelled.

## 7. Plan

1. Network composed with MainLoop in place of `MainSync` and its modem calls, with
   DISCONNECT_RAI beside DISCONNECT_DETACH.
2. The encrypted file store above SOTP (esfs.c), if the node comes to use it for
   its own data.
