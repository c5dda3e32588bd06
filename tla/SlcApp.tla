------------------------------- MODULE SlcApp -------------------------------
(***************************************************************************)
(* The application thread of SlcApplication.cpp (SlcApp_ThreadFxn): the    *)
(* state machine that wakes the node up, takes it through the network, the *)
(* Pelion registration and the registration of the device, uploads, and    *)
(* puts it back to sleep.  With it, the RtosTimers that drive it and the   *)
(* functions the Pelion client's thread calls to change the configuration. *)
(*                                                                         *)
(* An iteration of READY_TO_STANDBY, STANDBY or WAIT_DEV_REG that uploads  *)
(* is several steps (`stage`): an upload blocks for seconds and the other  *)
(* threads run meanwhile.  Two pairs of adjacent statements are two steps  *)
(* as well: a timer is launched and then its trigger cleared; a difference *)
(* is acted upon and then the backup takes the configuration as it is by   *)
(* then.  Every other iteration is one step.  A polling iteration that     *)
(* finds nothing to do changes nothing and is a stutter.                   *)
(* The locals devregstate and disconnect_waitcnt go back to their initial  *)
(* value when they are dead: the code assigns them before the next read.   *)
(***************************************************************************)
EXTENDS PelionControl, Naturals

CONSTANTS
    Timers,                 \* the RtosTimers of the instance
    Resources,              \* the observable resources of the node
    ReduceTimes,            \* REDUCE_UPLOAD_PERIOD_TIMES
    DisconnectWaitLimit,    \* WAIT_DISCONNECT_TIMEOUT_SEC / polling period
    MinPeriod,              \* CYCLE_UPLOAD_TIME_MIN_SEC
    Configs,                \* configurations the server may write
    DefaultConfig           \* what SlcApp_ResetConfig() installs

\* _SlcApp_Config, reduced to the fields the control depends on.
Config == [node_registered : BOOLEAN, keep_online : BOOLEAN,
           keep_online_time : Nat, disconnect_type : DisconnectTypes,
           reg_watchdog : Nat, data_enable : BOOLEAN, status_time : Nat]

ASSUME AppAssumption ==
    /\ {"Launch", "Terminate"} \subseteq Timers
    /\ Timers \subseteq {"Launch", "Terminate", "NodeRegister", "Status",
                         "Data"}
    /\ ReduceTimes \in Nat \ {0}
    /\ DisconnectWaitLimit \in Nat
    /\ MinPeriod \in Nat \ {0}
    /\ Configs \subseteq Config
    /\ DefaultConfig \in Config

VARIABLES
    app,                \* appstate
    stage,              \* the part of the iteration to execute next
    devreg,             \* devregstate
    tm,                 \* RtosTimers, their launch flags and triggers
    fwUpdate,           \* SlcApp.Trigger.FWUpdate
    fwTerminated,       \* SlcApp.Trigger.FWUpdateTerminated
    fwUpdating,         \* SlcApp.FWUpdating
    firstUploadDone,    \* SlcApp.FirstUploadDone
    waitcnt,            \* disconnect_waitcnt
    cfg,                \* SlcAppConfig
    bak,                \* SlcAppConfigBackup
    unsubscribed        \* resources whose Subscribed flag is false

fwVars == <<fwUpdate, fwTerminated, fwUpdating>>
appVars == <<app, stage, devreg, tm, fwVars, firstUploadDone, waitcnt,
             cfg, bak, unsubscribed>>

\* _SlcApp_AppState
AppStates == {"READY_TO_IDLE", "IDLE", "WAIT_NETWORK_CONNECT", "INIT",
              "WAIT_PELION_REG", "WAIT_RESOURCE_SUBSCRIBED", "WAIT_DEV_REG",
              "READY_TO_STANDBY", "STANDBY", "TO_PELION_DEREG",
              "WAIT_PELION_DEREG", "WAIT_NETWORK_DISCONNECTED"}

Timer == [run : BOOLEAN, flag : BOOLEAN, trig : BOOLEAN, short : BOOLEAN]

\* The parts of an iteration: of READY_TO_STANDBY the top, the end of the
\* uploads and the end, of WAIT_DEV_REG the top and what follows the launch of
\* the timer, of STANDBY all the others.
Stages == {"top", "uploaded", "clearNodeRegister", "status", "statusBackup",
           "data", "dataEnabled", "dataBackup", "deregister",
           "deregisterBackup", "registered", "uploadStatus", "clearStatus",
           "uploadData", "clearData", "end"}

AppTypeOK ==
    /\ app \in AppStates
    /\ stage \in Stages
    /\ devreg \in {"INIT", "WAIT_REG", "DONE"}
    /\ tm \in [Timers -> Timer]
    /\ fwUpdate \in BOOLEAN
    /\ fwTerminated \in BOOLEAN
    /\ fwUpdating \in BOOLEAN
    /\ firstUploadDone \in 0..ReduceTimes
    /\ waitcnt \in 0..DisconnectWaitLimit
    /\ cfg \in Config
    /\ bak \in Config
    /\ unsubscribed \in SUBSET Resources

-----------------------------------------------------------------------------
(* The timer macros.  `run` is the RtosTimer, `flag` the SlcApp.Timer...   *)
(* field, `trig` the SlcApp.Trigger... field its callback sets; `short`    *)
(* remembers whether its last start was for a period of zero seconds, one  *)
(* millisecond then.  The flag only matters while the timer is running, so *)
(* that a callback between start() and the write of the flag is no other   *)
(* case than one after both.                                               *)

PutTimer(f, x, r) == [t \in Timers |-> IF t = x THEN r ELSE f[t]]

\* SLCAPP_STOPTIMER_...: the timer is stopped only if the flag is set, the
\* trigger and the flag are cleared in any case.
StopTimer(f, x) ==
    PutTimer(f, x, [run |-> f[x].run /\ ~f[x].flag,
                    flag |-> FALSE, trig |-> FALSE, short |-> f[x].short])

\* RtosTimer::start refuses a period of zero.
RtosTimer_start(running, seconds) == running \/ seconds > 0

\* SLCAPP_RELAUNCHTIMER_...: a trigger that is already set stays set.
RelaunchTimer(f, x, seconds) ==
    PutTimer(f, x,
        [run |-> RtosTimer_start(f[x].run /\ ~f[x].flag, seconds),
         flag |-> TRUE, trig |-> f[x].trig, short |-> FALSE])

\* SLCAPP_LAUNCHTIMER_... of the node-register and status timers: one
\* millisecond is added to the period, so that zero is not refused.
LaunchTimer(f, x, seconds) ==
    PutTimer(f, x, [run |-> TRUE, flag |-> TRUE, trig |-> f[x].trig,
                    short |-> seconds = 0])

LaunchStatus(f) == LaunchTimer(f, "Status", cfg.status_time)

\* The launch-upload timer has no flag.
LaunchUploadTimer(f) ==
    PutTimer(f, "Launch", [run |-> TRUE, flag |-> f["Launch"].flag,
                           trig |-> f["Launch"].trig, short |-> FALSE])

ClearTrigger(f, x) ==
    PutTimer(f, x, [run |-> f[x].run, flag |-> f[x].flag, trig |-> FALSE,
                    short |-> f[x].short])

Triggered(x) == x \in Timers /\ tm[x].trig

\* The register watchdog and the node-register watchdog are the terminate
\* timer under other names.  The period of the latter is fixed.
RelaunchRegWatchdog(f) == RelaunchTimer(f, "Terminate", cfg.reg_watchdog)

RelaunchNodeRegWatchdog(f) == RelaunchTimer(f, "Terminate", 1)

\* A timer expires: its callback runs in the timer thread, which has a
\* higher priority than every other thread of the model.  The status timer
\* expires between its launch and the next statement only if its period is a
\* millisecond, not if it is a second or more; the periods of the data and
\* node-register timers are not modelled, so that these may do so always.
TimerFires(x) ==
    /\ tm[x].run
    /\ x = "Status" /\ stage = "clearStatus" => tm[x].short
    /\ tm' = PutTimer(tm, x, [run |-> FALSE, flag |-> FALSE, trig |-> TRUE,
                              short |-> tm[x].short])
    /\ UNCHANGED <<app, stage, devreg, fwVars, firstUploadDone, waitcnt, cfg,
                   bak, unsubscribed>>

-----------------------------------------------------------------------------
(* Start-up.                                                               *)

TimersOff == [t \in Timers |-> [run |-> FALSE, flag |-> FALSE,
                                trig |-> FALSE, short |-> FALSE]]

\* SlcApp_RestoreConfig(): the stored configuration, or the default; the
\* node is registered again if the configuration does not store that.
RestoredConfig(c, b) ==
    /\ b \in Configs \cup {DefaultConfig}
    /\ c \in {b, [b EXCEPT !.node_registered = FALSE]}

\* SlcApp_ResetStatus() and SlcApp_Init().
AppInit(c, b) ==
    /\ RestoredConfig(c, b)
    /\ app = "READY_TO_IDLE"
    /\ stage = "top"
    /\ devreg = "INIT"
    /\ tm = TimersOff
    /\ fwUpdate = FALSE
    /\ fwTerminated = FALSE
    /\ fwUpdating = FALSE
    /\ firstUploadDone = 0
    /\ waitcnt = 0
    /\ cfg = c
    /\ bak = b
    /\ unsubscribed = {}

\* The same after a restart.
AppReset(c, b) ==
    /\ RestoredConfig(c, b)
    /\ app' = "READY_TO_IDLE"
    /\ stage' = "top"
    /\ devreg' = "INIT"
    /\ tm' = TimersOff
    /\ fwUpdate' = FALSE
    /\ fwTerminated' = FALSE
    /\ fwUpdating' = FALSE
    /\ firstUploadDone' = 0
    /\ waitcnt' = 0
    /\ cfg' = c
    /\ bak' = b
    /\ unsubscribed' = {}

-----------------------------------------------------------------------------
(* The application thread, from wake-up to the Pelion registration.        *)

\* The period of the launch timer depends on firstUploadDone, not on state.
AppReadyToIdle ==
    /\ app = "READY_TO_IDLE"
    /\ tm' = LaunchUploadTimer(tm)
    /\ app' = "IDLE"
    /\ UNCHANGED <<stage, devreg, fwVars, firstUploadDone, waitcnt, cfg, bak,
                   unsubscribed, controlVars>>

\* Without pause and resume every session subscribes again.
SlcLwm2mDate_ResetResourceSubscribed ==
    unsubscribed' = IF PauseResume THEN unsubscribed ELSE Resources

\* Mutant of AppIdle: the register watchdog is not launched.
AppIdle_NoWatchdog ==
    /\ app = "IDLE"
    /\ Triggered("Launch")
    /\ SlcLwm2mDate_ResetResourceSubscribed
    /\ Pelion_ToRestart
    /\ tm' = ClearTrigger(tm, "Launch")
    /\ app' = "WAIT_NETWORK_CONNECT"
    /\ UNCHANGED <<stage, devreg, fwVars, firstUploadDone, waitcnt, cfg, bak,
                   toNetDisconnect, disconnectType, netState,
                   pelionRegistered, paused>>

AppIdle ==
    /\ app = "IDLE"
    /\ Triggered("Launch")
    /\ SlcLwm2mDate_ResetResourceSubscribed
    /\ Pelion_ToRestart
    /\ tm' = ClearTrigger(RelaunchRegWatchdog(tm), "Launch")
    /\ app' = "WAIT_NETWORK_CONNECT"
    /\ UNCHANGED <<stage, devreg, fwVars, firstUploadDone, waitcnt, cfg, bak,
                   toNetDisconnect, disconnectType, netState,
                   pelionRegistered, paused>>

AppWaitNetworkConnect ==
    /\ app = "WAIT_NETWORK_CONNECT"
    /\ stage = "top"
    /\ \/ /\ Network_GetState = "CONNECTED"
          /\ app' = "INIT"
          /\ UNCHANGED tm
       \/ /\ \/ Network_GetState \in ErrorStates
             \/ Network_GetState # "CONNECTED" /\ Triggered("Terminate")
          /\ app' = "TO_PELION_DEREG"
          /\ tm' = ClearTrigger(tm, "Terminate")
    /\ UNCHANGED <<stage, devreg, fwVars, firstUploadDone, waitcnt, cfg, bak,
                   unsubscribed, controlVars>>

AppInitSession ==
    /\ app = "INIT"
    /\ tm' = ClearTrigger(RelaunchRegWatchdog(tm), "NodeRegister")
    /\ app' = "WAIT_PELION_REG"
    /\ UNCHANGED <<stage, devreg, fwVars, firstUploadDone, waitcnt, cfg, bak,
                   unsubscribed, controlVars>>

\* Mutant of Registered: it forgets one of the two tests.
Registered_NotPausedOnly == ~Pelion_IsPaused

Registered == Pelion_IsRegistered /\ ~Pelion_IsPaused

\* The branch `else if(SlcApp.Trigger.TerminateUpload)` of a waiting state.
GiveUp ==
    /\ Triggered("Terminate")
    /\ app' = "TO_PELION_DEREG"
    /\ tm' = ClearTrigger(tm, "Terminate")

AppWaitPelionReg ==
    /\ app = "WAIT_PELION_REG"
    /\ \/ /\ Registered
          /\ tm' = RelaunchRegWatchdog(tm)
          /\ app' = "WAIT_RESOURCE_SUBSCRIBED"
       \/ ~Registered /\ GiveUp
    /\ UNCHANGED <<stage, devreg, fwVars, firstUploadDone, waitcnt, cfg, bak,
                   unsubscribed, controlVars>>

\* The branches of a waiting state that follow a firmware update.
FollowFWUpdate(relaunched) ==
    \/ /\ fwUpdate
       /\ tm' = StopTimer(tm, "Terminate")
       /\ fwUpdating' = TRUE
       /\ fwUpdate' = FALSE
       /\ UNCHANGED fwTerminated
    \/ /\ ~fwUpdate /\ fwTerminated
       /\ tm' = relaunched
       /\ fwUpdating' = FALSE
       /\ fwTerminated' = FALSE
       /\ UNCHANGED fwUpdate

IsAllResSubscribed == unsubscribed = {}

AppWaitResourceSubscribed ==
    /\ app = "WAIT_RESOURCE_SUBSCRIBED"
    /\ \/ /\ IsAllResSubscribed
          /\ tm' = RelaunchNodeRegWatchdog(tm)
          /\ app' = "WAIT_DEV_REG"
          /\ devreg' = "INIT"
          /\ UNCHANGED fwVars
       \/ /\ ~IsAllResSubscribed
          /\ GiveUp
          /\ UNCHANGED <<devreg, fwVars>>
       \/ /\ ~IsAllResSubscribed /\ ~Triggered("Terminate")
          /\ FollowFWUpdate(RelaunchRegWatchdog(tm))
          /\ UNCHANGED <<app, devreg>>
    /\ UNCHANGED <<stage, firstUploadDone, waitcnt, cfg, bak, unsubscribed,
                   controlVars>>

-----------------------------------------------------------------------------
(* Registration of the device and the first upload of a session.           *)

DevRegInit ==
    /\ app = "WAIT_DEV_REG" /\ devreg = "INIT"
    /\ devreg' = "WAIT_REG"
    /\ tm' = IF cfg.node_registered THEN tm
                                    ELSE LaunchTimer(tm, "NodeRegister", 1)
    /\ UNCHANGED <<app, stage, fwVars, firstUploadDone, waitcnt, cfg, bak,
                   unsubscribed, controlVars>>

DevRegWait ==
    /\ app = "WAIT_DEV_REG" /\ devreg = "WAIT_REG" /\ stage = "top"
    /\ \/ /\ cfg.node_registered
          /\ tm' = StopTimer(tm, "Terminate")
          /\ devreg' = "DONE"
          /\ UNCHANGED <<app, stage, fwVars>>
       \/ /\ ~cfg.node_registered /\ Triggered("NodeRegister")
          /\ tm' = LaunchTimer(tm, "NodeRegister", 1)
          /\ stage' = "clearNodeRegister"
          /\ UNCHANGED <<app, devreg, fwVars>>
       \/ /\ ~cfg.node_registered /\ ~Triggered("NodeRegister")
          /\ GiveUp
          /\ devreg' = "INIT"
          /\ UNCHANGED <<stage, fwVars>>
       \/ /\ ~cfg.node_registered /\ ~Triggered("NodeRegister")
          /\ ~Triggered("Terminate")
          /\ FollowFWUpdate(RelaunchNodeRegWatchdog(tm))
          /\ UNCHANGED <<app, stage, devreg>>
    /\ UNCHANGED <<firstUploadDone, waitcnt, cfg, bak, unsubscribed,
                   controlVars>>

\* A step inside an iteration that only sets timers.
TimerStep(here, new, next) ==
    /\ stage = here
    /\ tm' = new
    /\ stage' = next
    /\ UNCHANGED <<app, devreg, fwVars, firstUploadDone, waitcnt, cfg, bak,
                   unsubscribed, controlVars>>

\* The trigger is cleared after the launch, be it the old or a new one.
DevRegClear ==
    TimerStep("clearNodeRegister", ClearTrigger(tm, "NodeRegister"), "top")

DevRegDone ==
    /\ app = "WAIT_DEV_REG" /\ devreg = "DONE"
    /\ app' = "READY_TO_STANDBY"
    /\ devreg' = "INIT"
    /\ UNCHANGED <<stage, tm, fwVars, firstUploadDone, waitcnt, cfg,
                   bak, unsubscribed, controlVars>>

\* Everything is uploaded once after a restart or a registration.
ReadyToStandbyTop ==
    /\ app = "READY_TO_STANDBY" /\ stage = "top"
    /\ \/ /\ ~bak.node_registered \/ firstUploadDone = 0
          /\ tm' = StopTimer(tm, "NodeRegister")
          /\ stage' = "uploaded"
       \/ /\ bak.node_registered /\ firstUploadDone # 0
          /\ stage' = "end"
          /\ UNCHANGED tm
    /\ UNCHANGED <<app, devreg, fwVars, firstUploadDone, waitcnt, cfg, bak,
                   unsubscribed, controlVars>>

ReadyToStandbyUploaded ==
    /\ app = "READY_TO_STANDBY" /\ stage = "uploaded"
    /\ tm' = LET status == LaunchStatus(tm)
             IN  IF cfg.data_enable THEN RelaunchTimer(status, "Data", 1)
                                    ELSE status
    /\ bak' = [bak EXCEPT !.node_registered = cfg.node_registered]
    /\ stage' = "end"
    /\ UNCHANGED <<app, devreg, fwVars, firstUploadDone, waitcnt, cfg,
                   unsubscribed, controlVars>>

RelaunchTerminate(f) == RelaunchTimer(f, "Terminate", cfg.keep_online_time)

\* Mutant of ReadyToStandbyEnd: the terminate timer is not launched.
ReadyToStandbyEnd_NoTerminate ==
    /\ app = "READY_TO_STANDBY" /\ stage = "end"
    /\ firstUploadDone' = IF firstUploadDone < ReduceTimes
                            THEN firstUploadDone + 1 ELSE firstUploadDone
    /\ app' = "STANDBY"
    /\ stage' = "top"
    /\ UNCHANGED <<devreg, tm, fwVars, waitcnt, cfg, bak, unsubscribed,
                   controlVars>>

ReadyToStandbyEnd ==
    /\ app = "READY_TO_STANDBY" /\ stage = "end"
    /\ tm' = IF ~cfg.keep_online /\ ~fwUpdating THEN RelaunchTerminate(tm)
                                                ELSE tm
    /\ firstUploadDone' = IF firstUploadDone < ReduceTimes
                            THEN firstUploadDone + 1 ELSE firstUploadDone
    /\ app' = "STANDBY"
    /\ stage' = "top"
    /\ UNCHANGED <<devreg, fwVars, waitcnt, cfg, bak, unsubscribed,
                   controlVars>>

-----------------------------------------------------------------------------
(* STANDBY: online, following the configuration and the upload triggers.   *)

\* A step of the iteration that only writes the backup.
BackupStep(here, new, next) ==
    /\ stage = here
    /\ bak' = new
    /\ stage' = next
    /\ UNCHANGED <<app, devreg, tm, fwVars, firstUploadDone, waitcnt, cfg,
                   unsubscribed, controlVars>>

\* A new period of the status upload stops the timer; the status is uploaded
\* before it is launched again.
StandbyTop ==
    LET changed == cfg.status_time # bak.status_time
    IN  /\ app = "STANDBY" /\ stage = "top"
        /\ bak' = [bak EXCEPT !.reg_watchdog = cfg.reg_watchdog]
        /\ tm' = IF changed THEN StopTimer(tm, "Status") ELSE tm
        /\ stage' = IF changed THEN "status" ELSE "data"
        /\ UNCHANGED <<app, devreg, fwVars, firstUploadDone, waitcnt, cfg,
                       unsubscribed, controlVars>>

StandbyStatus == TimerStep("status", LaunchStatus(tm), "statusBackup")

StandbyStatusBackup ==
    BackupStep("statusBackup",
               [bak EXCEPT !.status_time = cfg.status_time], "data")

\* Enabling the upload of the data begins with one.
StandbyData ==
    \/ /\ cfg.data_enable = bak.data_enable
       /\ TimerStep("data", tm, "deregister")
    \/ /\ cfg.data_enable /\ ~bak.data_enable
       /\ TimerStep("data", tm, "dataEnabled")
    \/ /\ ~cfg.data_enable /\ bak.data_enable
       /\ TimerStep("data", StopTimer(tm, "Data"), "dataBackup")

StandbyDataEnabled ==
    TimerStep("dataEnabled", RelaunchTimer(tm, "Data", 1), "dataBackup")

StandbyDataBackup ==
    BackupStep("dataBackup",
               [bak EXCEPT !.data_enable = cfg.data_enable], "deregister")

StandbyDeregister ==
    \/ /\ cfg.keep_online = bak.keep_online
       /\ cfg.keep_online_time = bak.keep_online_time
       /\ TimerStep("deregister", tm, "registered")
    \/ /\ \/ cfg.keep_online # bak.keep_online
          \/ cfg.keep_online_time # bak.keep_online_time
       /\ TimerStep("deregister",
                    IF cfg.keep_online THEN StopTimer(tm, "Terminate")
                                       ELSE RelaunchTerminate(tm),
                    "deregisterBackup")

StandbyDeregisterBackup ==
    BackupStep("deregisterBackup",
               [bak EXCEPT !.keep_online = cfg.keep_online,
                           !.keep_online_time = cfg.keep_online_time],
               "registered")

\* "back to non dev-register" only changes appstate: the iteration goes on.
StandbyRegistered ==
    /\ app = "STANDBY" /\ stage = "registered"
    /\ app' = IF cfg.node_registered THEN app ELSE "WAIT_NETWORK_CONNECT"
    /\ bak' = [bak EXCEPT !.node_registered = @ /\ cfg.node_registered]
    /\ stage' = "uploadStatus"
    /\ UNCHANGED <<devreg, tm, fwVars, firstUploadDone, waitcnt, cfg,
                   unsubscribed, controlVars>>

\* Mutant of StandbyUploadStatus: the timer is not launched again.
StandbyUploadStatus_OneShot ==
    \/ Triggered("Status") /\ TimerStep("uploadStatus", tm, "clearStatus")
    \/ ~Triggered("Status") /\ TimerStep("uploadStatus", tm, "uploadData")

\* A trigger stays set during the upload that serves it: only this thread
\* clears it.  The step is the launch that follows the upload.
StandbyUploadStatus ==
    \/ /\ Triggered("Status")
       /\ TimerStep("uploadStatus", LaunchStatus(tm), "clearStatus")
    \/ /\ ~Triggered("Status")
       /\ TimerStep("uploadStatus", tm, "uploadData")

\* The trigger is cleared, also if the timer has expired since its launch.
StandbyClearStatus ==
    TimerStep("clearStatus", ClearTrigger(tm, "Status"), "uploadData")

StandbyUploadData ==
    \/ /\ Triggered("Data")
       /\ TimerStep("uploadData", RelaunchTimer(tm, "Data", 1), "clearData")
    \/ /\ ~Triggered("Data")
       /\ TimerStep("uploadData", tm, "end")

StandbyClearData == TimerStep("clearData", ClearTrigger(tm, "Data"), "end")

\* The three tests at the end of the iteration, in their order.
StandbyEnd ==
    /\ app \in {"STANDBY", "WAIT_NETWORK_CONNECT"} /\ stage = "end"
    /\ app' = IF Triggered("Terminate") THEN "TO_PELION_DEREG" ELSE app
    /\ tm' = LET terminate == ClearTrigger(tm, "Terminate")
                 update == IF fwUpdate THEN StopTimer(terminate, "Terminate")
                                       ELSE terminate
             IN  IF fwTerminated THEN RelaunchTerminate(update) ELSE update
    /\ fwUpdating' = (fwUpdating \/ fwUpdate) /\ ~fwTerminated
    /\ fwUpdate' = FALSE
    /\ fwTerminated' = FALSE
    /\ stage' = "top"
    /\ UNCHANGED <<devreg, firstUploadDone, waitcnt, cfg, bak, unsubscribed,
                   controlVars>>

-----------------------------------------------------------------------------
(* Leaving the network.                                                    *)

AppToPelionDereg ==
    /\ app = "TO_PELION_DEREG"
    /\ tm' = StopTimer(tm, "NodeRegister")
    /\ Pelion_ToDeregister(cfg.disconnect_type)
    /\ app' = "WAIT_PELION_DEREG"
    /\ UNCHANGED <<stage, devreg, fwVars, firstUploadDone, waitcnt, cfg, bak,
                   unsubscribed, toNetConnect, netState, pelionRegistered,
                   paused>>

AppWaitPelionDereg ==
    /\ app = "WAIT_PELION_DEREG"
    /\ ~Pelion_IsRegistered \/ Pelion_IsPaused
    /\ waitcnt' = 0
    /\ app' = "WAIT_NETWORK_DISCONNECTED"
    /\ UNCHANGED <<stage, devreg, tm, fwVars, firstUploadDone, cfg, bak,
                   unsubscribed, controlVars>>

\* Mutant of AppWaitNetworkDisconnected: "not connected" is enough.
AppWaitNetworkDisconnected_NotConnected ==
    /\ app = "WAIT_NETWORK_DISCONNECTED"
    /\ \/ /\ Network_GetState # "CONNECTED"
          /\ app' = "READY_TO_IDLE"
          /\ waitcnt' = 0
       \/ /\ Network_GetState = "CONNECTED"
          /\ waitcnt + 1 <= DisconnectWaitLimit
          /\ waitcnt' = waitcnt + 1
          /\ UNCHANGED app
    /\ UNCHANGED <<stage, devreg, tm, fwVars, firstUploadDone, cfg, bak,
                   unsubscribed, controlVars>>

\* Mutant of AppWaitNetworkDisconnected: the limit is off by one.
AppWaitNetworkDisconnected_OffByOne ==
    /\ app = "WAIT_NETWORK_DISCONNECTED"
    /\ \/ /\ Network_GetState \in DisconnectedStates
          /\ app' = "READY_TO_IDLE"
          /\ waitcnt' = 0
       \/ /\ Network_GetState \notin DisconnectedStates
          /\ waitcnt <= DisconnectWaitLimit
          /\ waitcnt' = waitcnt + 1
          /\ UNCHANGED app
    /\ UNCHANGED <<stage, devreg, tm, fwVars, firstUploadDone, cfg, bak,
                   unsubscribed, controlVars>>

AppWaitNetworkDisconnected ==
    /\ app = "WAIT_NETWORK_DISCONNECTED"
    /\ \/ /\ Network_GetState \in DisconnectedStates
          /\ app' = "READY_TO_IDLE"
          /\ waitcnt' = 0
       \/ /\ Network_GetState \notin DisconnectedStates
          /\ waitcnt + 1 <= DisconnectWaitLimit
          /\ waitcnt' = waitcnt + 1
          /\ UNCHANGED app
    /\ UNCHANGED <<stage, devreg, tm, fwVars, firstUploadDone, cfg, bak,
                   unsubscribed, controlVars>>

\* "waiting for too long, reboot"
AppMustReboot ==
    /\ app = "WAIT_NETWORK_DISCONNECTED"
    /\ Network_GetState \notin DisconnectedStates
    /\ waitcnt + 1 > DisconnectWaitLimit

StandbyStep ==
    \/ StandbyTop
    \/ StandbyStatus
    \/ StandbyStatusBackup
    \/ StandbyData
    \/ StandbyDataEnabled
    \/ StandbyDataBackup
    \/ StandbyDeregister
    \/ StandbyDeregisterBackup
    \/ StandbyRegistered
    \/ StandbyUploadStatus
    \/ StandbyClearStatus
    \/ StandbyUploadData
    \/ StandbyClearData
    \/ StandbyEnd

AppStep ==
    \/ AppReadyToIdle
    \/ AppIdle
    \/ AppWaitNetworkConnect
    \/ AppInitSession
    \/ AppWaitPelionReg
    \/ AppWaitResourceSubscribed
    \/ DevRegInit
    \/ DevRegWait
    \/ DevRegClear
    \/ DevRegDone
    \/ ReadyToStandbyTop
    \/ ReadyToStandbyUploaded
    \/ ReadyToStandbyEnd
    \/ StandbyStep
    \/ AppToPelionDereg
    \/ AppWaitPelionDereg
    \/ AppWaitNetworkDisconnected

-----------------------------------------------------------------------------
(* What the thread of the Pelion client does to the application's state.   *)

\* PUT of the node-register resource.
SlcApp_Update_NodeRegister(value) ==
    /\ bak' = [bak EXCEPT !.node_registered = cfg.node_registered]
    /\ cfg' = [cfg EXCEPT !.node_registered = value]
    /\ UNCHANGED <<app, stage, devreg, tm, fwVars, firstUploadDone, waitcnt,
                   unsubscribed>>

\* PUT of the whole configuration: a period below the minimum is raised.
SlcApp_Update_Config(new) ==
    /\ bak' = cfg
    /\ cfg' = [new EXCEPT !.status_time = IF @ < MinPeriod THEN MinPeriod
                                                           ELSE @]
    /\ UNCHANGED <<app, stage, devreg, tm, fwVars, firstUploadDone, waitcnt,
                   unsubscribed>>

\* PUT of one field of it: the backup keeps what STANDBY last acted upon.  It
\* is the old period that is raised to the minimum, not the new one.
SlcApp_Update_Config_Field ==
    /\ \E c \in Configs :
          \/ cfg' = [cfg EXCEPT !.reg_watchdog = c.reg_watchdog]
          \/ cfg' = [cfg EXCEPT !.status_time = c.status_time]
          \/ cfg' = [cfg EXCEPT !.keep_online = c.keep_online]
          \/ cfg' = [cfg EXCEPT !.keep_online_time = c.keep_online_time]
    /\ UNCHANGED <<app, stage, devreg, tm, fwVars, firstUploadDone, waitcnt,
                   bak, unsubscribed>>

\* factory_reset with OP_CONFIG_FACTORY_RESET.
SlcApp_ResetConfig ==
    /\ cfg' = DefaultConfig
    /\ bak' = DefaultConfig
    /\ UNCHANGED <<app, stage, devreg, tm, fwVars, firstUploadDone, waitcnt,
                   unsubscribed>>

SlcApp_FWUpdateTriggered ==
    /\ fwUpdate' = TRUE
    /\ UNCHANGED <<app, stage, devreg, tm, fwTerminated, fwUpdating,
                   firstUploadDone, waitcnt, cfg, bak, unsubscribed>>

SlcApp_FWUpdateTerminated ==
    /\ fwTerminated' = TRUE
    /\ UNCHANGED <<app, stage, devreg, tm, fwUpdate, fwUpdating,
                   firstUploadDone, waitcnt, cfg, bak, unsubscribed>>

\* MESSAGE_STATUS_SUBSCRIBED for one resource.
ResourceSubscribed(r) ==
    /\ r \in unsubscribed
    /\ unsubscribed' = unsubscribed \ {r}
    /\ UNCHANGED <<app, stage, devreg, tm, fwVars, firstUploadDone, waitcnt,
                   cfg, bak>>
=============================================================================
