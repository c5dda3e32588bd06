---------------------------- MODULE SessionProofs ----------------------------
(***************************************************************************)
(* Proofs about Session, for every value of its constants: the types, the  *)
(* agreement between the application and the main thread, and the          *)
(* refinement of UploadCycle.                                              *)
(***************************************************************************)
EXTENDS Session, TLAPS

-----------------------------------------------------------------------------
(* The timer macros keep the type of the timer table.  The record they     *)
(* write matters only for a timer of the instance.                         *)

\* Writing one record keeps the table a function from Timers to Timer.
LEMMA PutTimerType ==
    ASSUME NEW f \in [Timers -> Timer], NEW x, NEW r,
           x \in Timers => r \in Timer
    PROVE  PutTimer(f, x, r) \in [Timers -> Timer]
    BY DEF PutTimer

\* SLCAPP_STOPTIMER_... keeps the type of the table.
LEMMA StopTimerType ==
    ASSUME NEW f \in [Timers -> Timer], NEW x
    PROVE  StopTimer(f, x) \in [Timers -> Timer]
<1>1. ASSUME x \in Timers
      PROVE  [run |-> f[x].run /\ ~f[x].flag, flag |-> FALSE,
              trig |-> FALSE, short |-> f[x].short] \in Timer
      BY <1>1 DEF Timer
<1>. QED  BY <1>1, PutTimerType DEF StopTimer

\* SLCAPP_RELAUNCHTIMER_... keeps the type of the table.
LEMMA RelaunchTimerType ==
    ASSUME NEW f \in [Timers -> Timer], NEW x, NEW seconds
    PROVE  RelaunchTimer(f, x, seconds) \in [Timers -> Timer]
<1>1. ASSUME x \in Timers
      PROVE  [run |-> RtosTimer_start(f[x].run /\ ~f[x].flag, seconds),
              flag |-> TRUE, trig |-> f[x].trig, short |-> FALSE] \in Timer
      BY <1>1 DEF Timer, RtosTimer_start
<1>. QED  BY <1>1, PutTimerType DEF RelaunchTimer

\* SLCAPP_LAUNCHTIMER_... keeps the type of the table.
LEMMA LaunchTimerType ==
    ASSUME NEW f \in [Timers -> Timer], NEW x, NEW seconds
    PROVE  LaunchTimer(f, x, seconds) \in [Timers -> Timer]
<1>1. ASSUME x \in Timers
      PROVE  [run |-> TRUE, flag |-> TRUE, trig |-> f[x].trig,
              short |-> seconds = 0] \in Timer
      BY <1>1 DEF Timer
<1>. QED  BY <1>1, PutTimerType DEF LaunchTimer

\* SlcApp_TimerLaunchUploadLaunch() keeps the type of the table.
LEMMA LaunchUploadTimerType ==
    ASSUME NEW f \in [Timers -> Timer]
    PROVE  LaunchUploadTimer(f) \in [Timers -> Timer]
<1>1. [run |-> TRUE, flag |-> f["Launch"].flag,
       trig |-> f["Launch"].trig, short |-> FALSE] \in Timer
      BY AppAssumption DEF Timer
<1>. QED  BY <1>1, PutTimerType DEF LaunchUploadTimer

\* Clearing a trigger keeps the type of the table.
LEMMA ClearTriggerType ==
    ASSUME NEW f \in [Timers -> Timer], NEW x
    PROVE  ClearTrigger(f, x) \in [Timers -> Timer]
<1>1. ASSUME x \in Timers
      PROVE  [run |-> f[x].run, flag |-> f[x].flag,
              trig |-> FALSE, short |-> f[x].short] \in Timer
      BY <1>1 DEF Timer
<1>. QED  BY <1>1, PutTimerType DEF ClearTrigger

\* The table of a node that has just started has the type.
LEMMA TimersOffType == TimersOff \in [Timers -> Timer]
    BY DEF TimersOff, Timer

\* The firmware branch of a waiting state keeps the types of what it changes.
LEMMA FollowFWUpdateType ==
    ASSUME AppTypeOK, NEW f \in [Timers -> Timer], FollowFWUpdate(f)
    PROVE  /\ tm' \in [Timers -> Timer]
           /\ fwUpdate' \in BOOLEAN
           /\ fwTerminated' \in BOOLEAN
           /\ fwUpdating' \in BOOLEAN
<1>1. StopTimer(tm, "Terminate") \in [Timers -> Timer]
      BY StopTimerType DEF AppTypeOK
<1>. QED  BY <1>1 DEF AppTypeOK, FollowFWUpdate

-----------------------------------------------------------------------------
(* The steps inside an iteration: they set timers or write the backup.     *)

InnerStep ==
    \/ DevRegClear
    \/ StandbyStatus
    \/ StandbyStatusBackup
    \/ StandbyData
    \/ StandbyDataEnabled
    \/ StandbyDataBackup
    \/ StandbyDeregister
    \/ StandbyDeregisterBackup
    \/ StandbyUploadStatus
    \/ StandbyClearStatus
    \/ StandbyUploadData
    \/ StandbyClearData

\* The stages that only an iteration of STANDBY goes through, be it one that
\* has gone back to waiting for the network.
StandbyStages == Stages \ {"top", "uploaded", "clearNodeRegister", "end"}

\* The other steps of an iteration of STANDBY are its beginning, the test of
\* the registration and its end.
LEMMA StandbyStepCases ==
    StandbyStep => InnerStep \/ StandbyTop \/ StandbyRegistered \/ StandbyEnd
BY DEF StandbyStep, InnerStep

\* What an inner step leaves alone.
LEMMA InnerStepFrame ==
    ASSUME InnerStep
    PROVE  /\ UNCHANGED <<app, devreg, fwVars, firstUploadDone, waitcnt, cfg,
                          unsubscribed, controlVars>>
           /\ stage # "top"
           /\ stage \in {"clearNodeRegister"} \cup StandbyStages
           /\ stage' \in {"top", "end"} \cup StandbyStages
           /\ stage' # "status"
           /\ stage' = "top" <=> stage = "clearNodeRegister"
<1>. USE DEF TimerStep, BackupStep, StandbyStages, Stages
<1>1. CASE DevRegClear \/ StandbyStatus \/ StandbyData \/ StandbyDataEnabled
      BY <1>1 DEF DevRegClear, StandbyStatus, StandbyData, StandbyDataEnabled
<1>2. CASE \/ StandbyStatusBackup \/ StandbyDataBackup
           \/ StandbyDeregisterBackup
      BY <1>2 DEF StandbyStatusBackup, StandbyDataBackup,
                  StandbyDeregisterBackup
<1>3. CASE StandbyDeregister \/ StandbyUploadStatus \/ StandbyClearStatus
      BY <1>3 DEF StandbyDeregister, StandbyUploadStatus, StandbyClearStatus
<1>4. CASE StandbyUploadData \/ StandbyClearData
      BY <1>4 DEF StandbyUploadData, StandbyClearData
<1>. QED  BY <1>1, <1>2, <1>3, <1>4 DEF InnerStep

\* An inner step keeps the types of the timers and of the backup.
LEMMA InnerStepType ==
    ASSUME AppTypeOK, InnerStep
    PROVE  tm' \in [Timers -> Timer] /\ bak' \in Config
<1>. USE DEF AppTypeOK, TimerStep, BackupStep
<1>1. CASE DevRegClear \/ StandbyClearStatus \/ StandbyClearData
      BY <1>1, ClearTriggerType
      DEF DevRegClear, StandbyClearStatus, StandbyClearData
<1>2. CASE StandbyStatus \/ StandbyUploadStatus
      BY <1>2, LaunchTimerType
      DEF StandbyStatus, StandbyUploadStatus, LaunchStatus
<1>3. CASE StandbyData \/ StandbyDataEnabled \/ StandbyUploadData
      BY <1>3, RelaunchTimerType, StopTimerType
      DEF StandbyData, StandbyDataEnabled, StandbyUploadData
<1>4. CASE StandbyDeregister
      BY <1>4, RelaunchTimerType, StopTimerType
      DEF StandbyDeregister, RelaunchTerminate
<1>5. CASE \/ StandbyStatusBackup \/ StandbyDataBackup
           \/ StandbyDeregisterBackup
      BY <1>5 DEF StandbyStatusBackup, StandbyDataBackup,
                  StandbyDeregisterBackup, Config
<1>. QED  BY <1>1, <1>2, <1>3, <1>4, <1>5 DEF InnerStep

-----------------------------------------------------------------------------
(* Type correctness, thread by thread.                                     *)

\* Every step of the application thread keeps the types.
LEMMA AppStepType ==
    ASSUME TypeOK, AppStep, UNCHANGED <<clientVars, mainVars>>
    PROVE  TypeOK'
<1>. USE DEF TypeOK, AppTypeOK, AppStates, Stages, controlVars, fwVars
<1>0. ClientTypeOK' /\ MainTypeOK'
      BY DEF ClientTypeOK, MainTypeOK, clientVars, mainVars
<1>1. CASE AppReadyToIdle
      BY <1>0, <1>1, LaunchUploadTimerType
      DEF AppReadyToIdle, ControlTypeOK
<1>2. CASE AppIdle
      BY <1>0, <1>2, ClearTriggerType, RelaunchTimerType
      DEF AppIdle, ControlTypeOK, RelaunchRegWatchdog,
      SlcLwm2mDate_ResetResourceSubscribed, Pelion_ToRestart
<1>3. CASE AppWaitNetworkConnect
      BY <1>0, <1>3, ClearTriggerType
      DEF AppWaitNetworkConnect, ControlTypeOK
<1>4. CASE AppInitSession
      BY <1>0, <1>4, ClearTriggerType, RelaunchTimerType
      DEF AppInitSession, ControlTypeOK, RelaunchRegWatchdog
<1>5. CASE AppWaitPelionReg
      BY <1>0, <1>5, ClearTriggerType, RelaunchTimerType
      DEF AppWaitPelionReg, ControlTypeOK, RelaunchRegWatchdog, GiveUp
<1>6. CASE AppWaitResourceSubscribed
  <2>1. /\ RelaunchRegWatchdog(tm) \in [Timers -> Timer]
        /\ RelaunchNodeRegWatchdog(tm) \in [Timers -> Timer]
        /\ ClearTrigger(tm, "Terminate") \in [Timers -> Timer]
        /\ StopTimer(tm, "Terminate") \in [Timers -> Timer]
        BY RelaunchTimerType, ClearTriggerType, StopTimerType
        DEF RelaunchRegWatchdog, RelaunchNodeRegWatchdog
  <2>2. /\ tm' \in [Timers -> Timer]
        /\ fwUpdate' \in BOOLEAN
        /\ fwTerminated' \in BOOLEAN
        /\ fwUpdating' \in BOOLEAN
        BY <1>6, <2>1, FollowFWUpdateType
        DEF AppWaitResourceSubscribed, GiveUp
  <2>3. app' \in AppStates /\ devreg' \in {"INIT", "WAIT_REG", "DONE"}
        BY <1>6 DEF AppWaitResourceSubscribed, GiveUp
  <2>. QED  BY <1>0, <1>6, <2>2, <2>3
            DEF AppWaitResourceSubscribed, ControlTypeOK
<1>7. CASE DevRegInit
      BY <1>0, <1>7, LaunchTimerType
      DEF DevRegInit, ControlTypeOK
<1>8. CASE DevRegWait
  <2>1. /\ RelaunchNodeRegWatchdog(tm) \in [Timers -> Timer]
        /\ ClearTrigger(tm, "Terminate") \in [Timers -> Timer]
        /\ StopTimer(tm, "Terminate") \in [Timers -> Timer]
        BY RelaunchTimerType, ClearTriggerType, StopTimerType
        DEF RelaunchNodeRegWatchdog
  <2>2. LaunchTimer(tm, "NodeRegister", 1) \in [Timers -> Timer]
        BY LaunchTimerType
  <2>3. /\ tm' \in [Timers -> Timer]
        /\ fwUpdate' \in BOOLEAN
        /\ fwTerminated' \in BOOLEAN
        /\ fwUpdating' \in BOOLEAN
        BY <1>8, <2>1, <2>2, FollowFWUpdateType DEF DevRegWait, GiveUp
  <2>4. /\ app' \in AppStates /\ devreg' \in {"INIT", "WAIT_REG", "DONE"}
        /\ stage' \in Stages
        BY <1>8 DEF DevRegWait, GiveUp
  <2>. QED  BY <1>0, <1>8, <2>3, <2>4 DEF DevRegWait, ControlTypeOK
<1>9. CASE DevRegDone
      BY <1>0, <1>9
      DEF DevRegDone, ControlTypeOK
<1>10. CASE ReadyToStandbyTop
      BY <1>0, <1>10, StopTimerType
      DEF ReadyToStandbyTop, ControlTypeOK
<1>11. CASE ReadyToStandbyUploaded
      BY <1>0, <1>11, LaunchTimerType, RelaunchTimerType
      DEF ReadyToStandbyUploaded, LaunchStatus, ControlTypeOK, Config
<1>12. CASE ReadyToStandbyEnd
      BY <1>0, <1>12, AppAssumption, RelaunchTimerType
      DEF ReadyToStandbyEnd, ControlTypeOK, RelaunchTerminate
<1>13. CASE StandbyTop
  <2>1. tm' \in [Timers -> Timer] /\ bak' \in Config
        BY <1>13, StopTimerType DEF StandbyTop, Config
  <2>. QED  BY <1>0, <1>13, <2>1 DEF StandbyTop, ControlTypeOK
<1>14. CASE StandbyRegistered
  <2>1. bak' \in Config
        BY <1>14 DEF StandbyRegistered, Config
  <2>. QED  BY <1>0, <1>14, <2>1 DEF StandbyRegistered, ControlTypeOK
<1>15. CASE StandbyEnd
      BY <1>0, <1>15, ClearTriggerType, RelaunchTimerType, StopTimerType
      DEF StandbyEnd, ControlTypeOK, RelaunchTerminate
<1>16. CASE AppToPelionDereg
      BY <1>0, <1>16, StopTimerType
      DEF AppToPelionDereg, ControlTypeOK, Pelion_ToDeregister, Config
<1>17. CASE AppWaitPelionDereg
      BY <1>0, <1>17, AppAssumption
      DEF AppWaitPelionDereg, ControlTypeOK
<1>18. CASE AppWaitNetworkDisconnected
      BY <1>0, <1>18, AppAssumption
      DEF AppWaitNetworkDisconnected, ControlTypeOK
<1>19. CASE InnerStep
  <2>1. stage' \in Stages
        BY <1>19, InnerStepFrame DEF StandbyStages
  <2>2. tm' \in [Timers -> Timer] /\ bak' \in Config
        BY <1>19, InnerStepType
  <2>. QED  BY <1>0, <1>19, <2>1, <2>2, InnerStepFrame DEF ControlTypeOK
<1>. QED  BY <1>1, <1>2, <1>3, <1>4, <1>5, <1>6, <1>7, <1>8, <1>9,
              <1>10, <1>11, <1>12, <1>13, <1>14, <1>15, <1>16, <1>17, <1>18,
              <1>19, StandbyStepCases
          DEF AppStep, InnerStep

\* Every step of the main thread keeps the types.
LEMMA MainStepType ==
    ASSUME TypeOK, MainStep, UNCHANGED appVars
    PROVE  TypeOK'
<1>. USE MainAssumption
     DEF TypeOK, ControlTypeOK, ClientTypeOK, MainTypeOK, MainPoints,
         NetStates, DisconnectedStates, ErrorStates, controlVars, clientVars
<1>0. AppTypeOK'
      BY DEF AppTypeOK, appVars, fwVars
<1>1. CASE MainTop
      BY <1>0, <1>1 DEF MainTop
<1>2. CASE InitConnOk
      BY <1>0, <1>2 DEF InitConnOk
<1>3. CASE InitConnTimeout
      BY <1>0, <1>3 DEF InitConnTimeout
<1>4. CASE InitConnNoInterface
      BY <1>0, <1>4 DEF InitConnNoInterface
<1>5. CASE InitConnOther
      BY <1>0, <1>5 DEF InitConnOther
<1>6. CASE MainCheck
      BY <1>0, <1>6 DEF MainCheck
<1>7. CASE MainSync
      BY <1>0, <1>7 DEF MainSync
<1>8. CASE MainSetConnected
      BY <1>0, <1>8 DEF MainSetConnected
<1>9. CASE MainRegister
      BY <1>0, <1>9 DEF MainRegister, register_and_connect, resume
<1>10. CASE MainClear
      BY <1>0, <1>10 DEF MainClear
<1>11. CASE MainDisconnect
      BY <1>0, <1>11 DEF MainDisconnect, pause, close
<1>12. CASE MainPaused
      BY <1>0, <1>12 DEF MainPaused
<1>13. CASE MainClosed
      BY <1>0, <1>13 DEF MainClosed
<1>14. CASE MainDisconnected
      BY <1>0, <1>14 DEF MainDisconnected, DisconnectedState, DisconnectTypes
<1>. QED  BY <1>1, <1>2, <1>3, <1>4, <1>5, <1>6, <1>7, <1>8, <1>9, <1>10,
              <1>11, <1>12, <1>13, <1>14
          DEF MainStep

\* Every callback of the client's event thread keeps the types.
LEMMA ClientEventType ==
    ASSUME TypeOK, ClientEvent, UNCHANGED <<mainVars, appVars>>
    PROVE  TypeOK'
<1>. USE DEF TypeOK, ControlTypeOK, ClientTypeOK, controlVars
<1>0. MainTypeOK' /\ AppTypeOK'
      BY DEF MainTypeOK, mainVars, AppTypeOK, appVars, fwVars
<1>1. CASE client_registered
      BY <1>0, <1>1 DEF client_registered
<1>2. CASE registered_callback
      BY <1>0, <1>2 DEF registered_callback
<1>3. CASE client_registration_updated
      BY <1>0, <1>3 DEF client_registration_updated
<1>4. CASE client_unregistered
      BY <1>0, <1>4 DEF client_unregistered
<1>5. CASE error
      BY <1>0, <1>5 DEF error
<1>. QED  BY <1>1, <1>2, <1>3, <1>4, <1>5 DEF ClientEvent

\* A timer callback keeps the types.
LEMMA TimerFiresType ==
    ASSUME TypeOK, NEW x \in Timers, Fire(x)
    PROVE  TypeOK'
<1>1. [run |-> FALSE, flag |-> FALSE, trig |-> TRUE,
       short |-> tm[x].short] \in Timer
      BY DEF Timer, TypeOK, AppTypeOK
<1>2. tm' \in [Timers -> Timer]
      BY <1>1, PutTimerType DEF Fire, TimerFires, TypeOK, AppTypeOK
<1>. QED  BY <1>2
          DEF Fire, TimerFires, TypeOK, ControlTypeOK, ClientTypeOK,
              MainTypeOK, AppTypeOK, controlVars, clientVars, mainVars,
              fwVars

\* A request of the server, or the end of a firmware update, keeps the types.
LEMMA ServerType ==
    ASSUME TypeOK, Server \/ ClientReboots
    PROVE  TypeOK'
<1>. USE AppAssumption DEF TypeOK, AppTypeOK, fwVars
<1>1. CASE Server
  <2>1. ControlTypeOK' /\ ClientTypeOK' /\ MainTypeOK'
        BY <1>1 DEF Server, ControlTypeOK, ClientTypeOK, MainTypeOK,
                    controlVars, clientVars, mainVars
  <2>2. CASE PutNodeRegister
    <3>1. bak' \in Config /\ cfg' \in Config
          BY <2>2 DEF PutNodeRegister, SlcApp_Update_NodeRegister, Config
    <3>. QED  BY <2>1, <2>2, <3>1
              DEF PutNodeRegister, SlcApp_Update_NodeRegister
  <2>3. CASE PutConfig
    <3>1. PICK new \in Configs :
            cfg' = [new EXCEPT !.status_time =
                      IF new.status_time < MinPeriod THEN MinPeriod
                                                     ELSE new.status_time]
          BY <2>3 DEF PutConfig, SlcApp_Update_Config
    <3>2. cfg' \in Config
          BY <3>1 DEF Config
    <3>. QED  BY <2>1, <2>3, <3>2 DEF PutConfig, SlcApp_Update_Config
  <2>4. CASE PutConfigField
    <3>1. PICK c \in Configs :
            \/ cfg' = [cfg EXCEPT !.reg_watchdog = c.reg_watchdog]
            \/ cfg' = [cfg EXCEPT !.status_time = c.status_time]
            \/ cfg' = [cfg EXCEPT !.keep_online = c.keep_online]
            \/ cfg' = [cfg EXCEPT !.keep_online_time = c.keep_online_time]
          BY <2>4 DEF PutConfigField, SlcApp_Update_Config_Field
    <3>2. cfg' \in Config
          BY <3>1 DEF Config
    <3>. QED  BY <2>1, <2>4, <3>2
              DEF PutConfigField, SlcApp_Update_Config_Field
  <2>5. CASE FactoryReset
        BY <2>1, <2>5 DEF FactoryReset, SlcApp_ResetConfig
  <2>6. CASE FWDownload
        BY <2>1, <2>6 DEF FWDownload, SlcApp_FWUpdateTriggered
  <2>7. CASE Subscribed
        BY <2>1, <2>7 DEF Subscribed, ResourceSubscribed
  <2>. QED  BY <1>1, <2>2, <2>3, <2>4, <2>5, <2>6, <2>7 DEF Server
<1>2. CASE ClientReboots
  <2>1. ControlTypeOK' /\ MainTypeOK'
        BY <1>2
        DEF ClientReboots, StartReboot, ControlTypeOK,
            MainTypeOK, controlVars, mainVars
  <2>2. ClientTypeOK'
        BY <1>2
        DEF ClientReboots, StartReboot, ClientTypeOK
  <2>3. AppTypeOK'
        BY <1>2 DEF ClientReboots, SlcApp_FWUpdateTerminated, appVars
  <2>. QED  BY <2>1, <2>2, <2>3
<1>. QED  BY <1>1, <1>2

\* A restart establishes the types.
LEMMA RestartType ==
    ASSUME Restart
    PROVE  TypeOK'
<1>0. ControlReset /\ ClientReset /\ MainReset
      BY DEF Restart, MainReset
<1>1. ControlTypeOK' /\ ClientTypeOK' /\ MainTypeOK'
  <2>1. ControlTypeOK'
        BY <1>0, ControlAssumption
        DEF ControlReset, ControlTypeOK, NetStates, DisconnectedStates
  <2>2. ClientTypeOK'
        BY <1>0 DEF ClientReset, ClientTypeOK
  <2>3. MainTypeOK'
        BY <1>0, MainAssumption DEF MainReset, MainTypeOK, MainPoints
  <2>. QED  BY <2>1, <2>2, <2>3
<1>2. PICK b \in Configs \cup {DefaultConfig} :
        \E c \in {b, [b EXCEPT !.node_registered = FALSE]} : AppReset(c, b)
      BY DEF Restart
<1>3. PICK c \in {b, [b EXCEPT !.node_registered = FALSE]} : AppReset(c, b)
      BY <1>2
<1>4. b \in Config /\ c \in Config
      BY AppAssumption DEF Config
<1>5. AppTypeOK'
  <2>1. tm' \in [Timers -> Timer] /\ cfg' \in Config /\ bak' \in Config
        BY <1>3, <1>4, TimersOffType DEF AppReset
  <2>2. firstUploadDone' \in 0..ReduceTimes
        BY <1>3, AppAssumption DEF AppReset
  <2>3. waitcnt' \in 0..DisconnectWaitLimit
        BY <1>3, AppAssumption DEF AppReset
  <2>4. unsubscribed' \in SUBSET Resources
        BY <1>3 DEF AppReset
  <2>. QED  BY <1>3, <2>1, <2>2, <2>3, <2>4
            DEF AppReset, AppTypeOK, AppStates, Stages
<1>. QED  BY <1>1, <1>5 DEF TypeOK

\* The initial states have the types.
LEMMA InitType ==
    ASSUME Init
    PROVE  TypeOK
<1>0. ControlInit /\ ClientInit /\ MainInit
      BY DEF Init, MainInit
<1>1. ControlTypeOK /\ ClientTypeOK /\ MainTypeOK
  <2>1. ControlTypeOK
        BY <1>0, ControlAssumption
        DEF ControlInit, ControlTypeOK, NetStates, DisconnectedStates
  <2>2. ClientTypeOK
        BY <1>0 DEF ClientInit, ClientTypeOK
  <2>3. MainTypeOK
        BY <1>0, MainAssumption DEF MainInit, MainTypeOK, MainPoints
  <2>. QED  BY <2>1, <2>2, <2>3
<1>2. PICK b \in Configs \cup {DefaultConfig} :
        \E c \in {b, [b EXCEPT !.node_registered = FALSE]} : AppInit(c, b)
      BY DEF Init
<1>3. PICK c \in {b, [b EXCEPT !.node_registered = FALSE]} : AppInit(c, b)
      BY <1>2
<1>4. b \in Config /\ c \in Config
      BY AppAssumption DEF Config
<1>5. AppTypeOK
  <2>1. tm \in [Timers -> Timer] /\ cfg \in Config /\ bak \in Config
        BY <1>3, <1>4, TimersOffType DEF AppInit
  <2>2. firstUploadDone \in 0..ReduceTimes
        BY <1>3, AppAssumption DEF AppInit
  <2>3. waitcnt \in 0..DisconnectWaitLimit
        BY <1>3, AppAssumption DEF AppInit
  <2>4. unsubscribed \in SUBSET Resources
        BY <1>3 DEF AppInit
  <2>. QED  BY <1>3, <2>1, <2>2, <2>3, <2>4
            DEF AppInit, AppTypeOK, AppStates, Stages
<1>. QED  BY <1>1, <1>5 DEF TypeOK

\* Every step of the node keeps the types.
LEMMA NextType ==
    ASSUME TypeOK, [Next]_vars
    PROVE  TypeOK'
<1>1. CASE App
      BY <1>1, AppStepType DEF App
<1>2. CASE Main
      BY <1>2, MainStepType DEF Main
<1>3. CASE Client
      BY <1>3, ClientEventType DEF Client
<1>4. CASE \E x \in Timers : Fire(x)
      BY <1>4, TimerFiresType
<1>5. CASE Server \/ ClientReboots
      BY <1>5, ServerType
<1>6. CASE Reboot \/ SystemWatchdog
      BY <1>6, RestartType DEF Reboot, SystemWatchdog
<1>7. CASE UNCHANGED vars
      BY <1>7
      DEF vars, TypeOK, ControlTypeOK, ClientTypeOK, MainTypeOK, AppTypeOK,
          controlVars, clientVars, mainVars, appVars, fwVars
<1>. QED  BY <1>1, <1>2, <1>3, <1>4, <1>5, <1>6, <1>7 DEF Next

\* Every variable of the node keeps its type.
THEOREM TypeCorrect == Spec => []TypeOK
<1>1. Init => TypeOK
      BY InitType
<1>2. TypeOK /\ [Next]_vars => TypeOK'
      BY NextType
<1>. QED  BY <1>1, <1>2, PTL DEF Spec

-----------------------------------------------------------------------------
(* The agreement between the application and the main thread.  TypeOK is   *)
(* needed only for the values of mpc, app and netState.                    *)

\* A step of the application keeps the agreement.  It never writes NetState,
\* PelionRegistered or Paused; it sets ToNetDisconnect on leaving.
LEMMA AppStepAgreement ==
    ASSUME TypeOK, Agreement, AppStep, UNCHANGED <<clientVars, mainVars>>
    PROVE  Agreement'
<1>. USE DEF Agreement, OnlineMeansConnected, SessionMeansRegistered,
             NoStaleDisconnect, DisconnectIsRequested, ConnectIsVisible,
             LateRequestWaits, OnlineStates, SessionStates,
             DisconnectedStates, controlVars, mainVars
<1>1. CASE AppReadyToIdle
      BY <1>1 DEF AppReadyToIdle
<1>2. CASE AppIdle
      BY <1>2 DEF AppIdle, Pelion_ToRestart
<1>3. CASE AppWaitNetworkConnect
      BY <1>3 DEF AppWaitNetworkConnect, Network_GetState, ErrorStates
<1>4. CASE AppInitSession
      BY <1>4 DEF AppInitSession
<1>5. CASE AppWaitPelionReg
      BY <1>5 DEF AppWaitPelionReg, Registered, Pelion_IsRegistered, Pelion_IsPaused, GiveUp
<1>6. CASE AppWaitResourceSubscribed
      BY <1>6 DEF AppWaitResourceSubscribed, GiveUp
<1>7. CASE DevRegInit
      BY <1>7 DEF DevRegInit
<1>8. CASE DevRegWait
      BY <1>8 DEF DevRegWait, GiveUp
<1>9. CASE DevRegDone
      BY <1>9 DEF DevRegDone
<1>10. CASE ReadyToStandbyTop
      BY <1>10 DEF ReadyToStandbyTop
<1>11. CASE ReadyToStandbyUploaded
      BY <1>11 DEF ReadyToStandbyUploaded
<1>12. CASE ReadyToStandbyEnd
      BY <1>12 DEF ReadyToStandbyEnd
<1>13. CASE StandbyTop
      BY <1>13 DEF StandbyTop
<1>14. CASE StandbyRegistered
      BY <1>14 DEF StandbyRegistered
<1>15. CASE StandbyEnd
      BY <1>15 DEF StandbyEnd
<1>16. CASE AppToPelionDereg
      BY <1>16 DEF AppToPelionDereg, Pelion_ToDeregister
<1>17. CASE AppWaitPelionDereg
      BY <1>17 DEF AppWaitPelionDereg
<1>18. CASE AppWaitNetworkDisconnected
      BY <1>18 DEF AppWaitNetworkDisconnected, Network_GetState
<1>19. CASE InnerStep
      BY <1>19, InnerStepFrame
<1>. QED  BY <1>1, <1>2, <1>3, <1>4, <1>5, <1>6, <1>7, <1>8, <1>9, <1>10,
              <1>11, <1>12, <1>13, <1>14, <1>15, <1>16, <1>17, <1>18, <1>19,
              StandbyStepCases
          DEF AppStep, InnerStep

\* A step of the main thread keeps the agreement.
LEMMA MainStepAgreement ==
    ASSUME TypeOK, Agreement, MainStep, UNCHANGED appVars
    PROVE  Agreement'
<1>. USE DEF Agreement, OnlineMeansConnected, SessionMeansRegistered,
             NoStaleDisconnect, DisconnectIsRequested, ConnectIsVisible,
             LateRequestWaits, OnlineStates, SessionStates,
             DisconnectPoints, DisconnectedStates, controlVars, appVars
<1>1. CASE MainTop
      BY <1>1 DEF MainTop
<1>2. CASE InitConnOk
      BY <1>2 DEF InitConnOk
<1>3. CASE InitConnTimeout
      BY <1>3 DEF InitConnTimeout
<1>4. CASE InitConnNoInterface
      BY <1>4 DEF InitConnNoInterface
<1>5. CASE InitConnOther
      BY <1>5 DEF InitConnOther
<1>6. CASE MainCheck
      BY <1>6 DEF MainCheck
<1>7. CASE MainSync
      BY <1>7 DEF MainSync
<1>8. CASE MainSetConnected
      BY <1>8 DEF MainSetConnected
<1>9. CASE MainRegister
      BY <1>9 DEF MainRegister
<1>10. CASE MainClear
      BY <1>10 DEF MainClear
<1>11. CASE MainDisconnect
      BY <1>11 DEF MainDisconnect
<1>12. CASE MainPaused
      BY <1>12 DEF MainPaused
<1>13. CASE MainClosed
      BY <1>13 DEF MainClosed
<1>14. CASE MainDisconnected
      BY <1>14 DEF MainDisconnected
<1>. QED  BY <1>1, <1>2, <1>3, <1>4, <1>5, <1>6, <1>7, <1>8, <1>9, <1>10,
              <1>11, <1>12, <1>13, <1>14
          DEF MainStep

\* Timers, callbacks and the server touch neither the positions of the two
\* threads nor the fields they agree over, except that a registration may be
\* reported.
LEMMA OtherStepFrame ==
    ASSUME \/ Client
           \/ \E x \in Timers : Fire(x)
           \/ Server
           \/ ClientReboots
    PROVE  /\ UNCHANGED <<app, mpc, netState, toNetDisconnect, paused>>
           /\ pelionRegistered => pelionRegistered'
<1>1. UNCHANGED <<app, mpc, netState, toNetDisconnect, paused>>
  <2>1. CASE Client
        BY <2>1
        DEF Client, ClientEvent, client_registered, registered_callback,
            client_registration_updated, client_unregistered, error,
            controlVars, mainVars, appVars
  <2>2. CASE \E x \in Timers : Fire(x)
        BY <2>2 DEF Fire, TimerFires, controlVars, mainVars
  <2>3. CASE Server
        BY <2>3
        DEF Server, PutNodeRegister, SlcApp_Update_NodeRegister, PutConfig,
            SlcApp_Update_Config, PutConfigField, SlcApp_Update_Config_Field,
            FactoryReset, SlcApp_ResetConfig, FWDownload,
            SlcApp_FWUpdateTriggered, Subscribed, ResourceSubscribed,
            controlVars, mainVars
  <2>4. CASE ClientReboots
        BY <2>4
        DEF ClientReboots, SlcApp_FWUpdateTerminated,
            StartReboot, controlVars, mainVars, appVars
  <2>. QED  BY <2>1, <2>2, <2>3, <2>4
<1>2. pelionRegistered => pelionRegistered'
      BY DEF Client, ClientEvent, client_registered, registered_callback,
             client_registration_updated, client_unregistered, error, Fire,
             Server, ClientReboots, StartReboot, controlVars
<1>. QED  BY <1>1, <1>2

\* Hence they keep the agreement.
LEMMA OtherStepAgreement ==
    ASSUME Agreement,
           \/ Client
           \/ \E x \in Timers : Fire(x)
           \/ Server
           \/ ClientReboots
    PROVE  Agreement'
<1>1. /\ UNCHANGED <<app, mpc, netState, toNetDisconnect, paused>>
      /\ pelionRegistered => pelionRegistered'
      BY OtherStepFrame
<1>. QED  BY <1>1
          DEF Agreement, OnlineMeansConnected, SessionMeansRegistered,
              NoStaleDisconnect, DisconnectIsRequested, ConnectIsVisible,
              LateRequestWaits

\* A restart re-establishes the agreement.
LEMMA RestartAgreement ==
    ASSUME Restart
    PROVE  Agreement'
<1>1. app' = "READY_TO_IDLE"
      BY DEF Restart, AppReset
<1>2. mpc' = "TOP" /\ netState' = "DISCONNECTED" /\ ~toNetDisconnect'
      BY DEF Restart, MainReset, ControlReset
<1>. QED  BY <1>1, <1>2
          DEF Agreement, OnlineMeansConnected, SessionMeansRegistered,
              NoStaleDisconnect, DisconnectIsRequested, ConnectIsVisible,
              LateRequestWaits, OnlineStates, SessionStates, DisconnectPoints

\* The initial states satisfy the agreement.
LEMMA InitAgreement ==
    ASSUME Init
    PROVE  Agreement
<1>1. app = "READY_TO_IDLE"
      BY DEF Init, AppInit
<1>2. mpc = "TOP" /\ netState = "DISCONNECTED" /\ ~toNetDisconnect
      BY DEF Init, MainInit, ControlInit
<1>. QED  BY <1>1, <1>2
          DEF Agreement, OnlineMeansConnected, SessionMeansRegistered,
              NoStaleDisconnect, DisconnectIsRequested, ConnectIsVisible,
              LateRequestWaits, OnlineStates, SessionStates, DisconnectPoints

\* Every step of the node keeps the agreement.
LEMMA NextAgreement ==
    ASSUME TypeOK, Agreement, [Next]_vars
    PROVE  Agreement'
<1>1. CASE App
      BY <1>1, AppStepAgreement DEF App
<1>2. CASE Main
      BY <1>2, MainStepAgreement DEF Main
<1>3. CASE \/ Client
           \/ \E x \in Timers : Fire(x)
           \/ Server
           \/ ClientReboots
      BY <1>3, OtherStepAgreement
<1>4. CASE Reboot \/ SystemWatchdog
      BY <1>4, RestartAgreement DEF Reboot, SystemWatchdog
<1>5. CASE UNCHANGED vars
      BY <1>5
      DEF vars, Agreement, OnlineMeansConnected, SessionMeansRegistered,
          NoStaleDisconnect, DisconnectIsRequested, ConnectIsVisible,
          LateRequestWaits, controlVars, mainVars, appVars
<1>. QED  BY <1>1, <1>2, <1>3, <1>4, <1>5 DEF Next

\* The application and the main thread agree over the unlocked fields of
\* Main in every reachable state.
THEOREM AgreementInvariant == Spec => []Agreement
<1>1. Init => TypeOK /\ Agreement
      BY InitType, InitAgreement
<1>2. TypeOK /\ Agreement /\ [Next]_vars => (TypeOK /\ Agreement)'
      BY NextType, NextAgreement
<1>. QED  BY <1>1, <1>2, PTL DEF Spec

\* The network is never taken down under an application that is online.
THEOREM OnlineIsConnected == Spec => []OnlineMeansConnected
<1>1. Agreement => OnlineMeansConnected
      BY DEF Agreement
<1>. QED  BY <1>1, AgreementInvariant, PTL

\* No session runs over a client that is closed or paused.
THEOREM SessionIsRegistered == Spec => []SessionMeansRegistered
<1>1. Agreement => SessionMeansRegistered
      BY DEF Agreement
<1>. QED  BY <1>1, AgreementInvariant, PTL

-----------------------------------------------------------------------------
(* Session implements UploadCycle.                                         *)

\* The phase each state of the application stands for.
LEMMA PhaseOfState ==
    /\ app \in OnlineStates => CyclePhase = "online"
    /\ app \in {"READY_TO_IDLE", "IDLE"} => CyclePhase = "asleep"
    /\ app = "WAIT_NETWORK_CONNECT" => CyclePhase = "waking"
    /\ app \in {"TO_PELION_DEREG", "WAIT_PELION_DEREG",
                "WAIT_NETWORK_DISCONNECTED"} => CyclePhase = "leaving"
BY DEF CyclePhase, OnlineStates

\* The same in the next state.
LEMMA PhaseOfNextState ==
    /\ app' \in OnlineStates => CyclePhase' = "online"
    /\ app' \in {"READY_TO_IDLE", "IDLE"} => CyclePhase' = "asleep"
    /\ app' = "WAIT_NETWORK_CONNECT" => CyclePhase' = "waking"
    /\ app' \in {"TO_PELION_DEREG", "WAIT_PELION_DEREG",
                 "WAIT_NETWORK_DISCONNECTED"} => CyclePhase' = "leaving"
BY DEF CyclePhase, OnlineStates

\* A step of the application leaves the link alone; it wakes the node up,
\* takes it online over a link that is up, leaves, starts over, or goes back
\* to sleep once the link is down.
LEMMA AppStepCycle ==
    ASSUME AppStep
    PROVE  [Cycle!CycleNext]_(Cycle!cycleVars)
<1>. USE PhaseOfState, PhaseOfNextState
     DEF Cycle!CycleNext, Cycle!cycleVars
<1>1. netState' = netState
      BY InnerStepFrame, StandbyStepCases
      DEF AppStep, AppReadyToIdle, AppIdle, AppWaitNetworkConnect,
          AppInitSession, AppWaitPelionReg, AppWaitResourceSubscribed,
          DevRegInit, DevRegWait, DevRegDone, ReadyToStandbyTop,
          ReadyToStandbyUploaded, ReadyToStandbyEnd, InnerStep, StandbyTop,
          StandbyRegistered, StandbyEnd, AppToPelionDereg,
          Pelion_ToDeregister, AppWaitPelionDereg,
          AppWaitNetworkDisconnected, controlVars
<1>2. CASE AppReadyToIdle
      BY <1>1, <1>2 DEF AppReadyToIdle
<1>3. CASE AppIdle
      BY <1>1, <1>3 DEF AppIdle, Cycle!Wake
<1>4. CASE AppWaitNetworkConnect
      BY <1>1, <1>4
      DEF AppWaitNetworkConnect, Network_GetState, OnlineStates,
          Cycle!GoOnline, Cycle!Leave
<1>5. CASE \/ AppInitSession \/ AppWaitPelionReg \/ AppWaitResourceSubscribed
           \/ DevRegInit \/ DevRegWait \/ DevRegDone
      BY <1>1, <1>5
      DEF AppInitSession, AppWaitPelionReg, AppWaitResourceSubscribed,
          DevRegInit, DevRegWait, DevRegDone, GiveUp, OnlineStates,
          Cycle!Leave
<1>6. CASE ReadyToStandbyTop \/ ReadyToStandbyUploaded \/ ReadyToStandbyEnd
      BY <1>1, <1>6
      DEF ReadyToStandbyTop, ReadyToStandbyUploaded, ReadyToStandbyEnd,
          OnlineStates
<1>7. CASE StandbyTop \/ StandbyRegistered \/ StandbyEnd
      BY <1>1, <1>7
      DEF StandbyTop, StandbyRegistered, StandbyEnd, OnlineStates,
          Cycle!StartOver, Cycle!Leave
<1>8. CASE AppToPelionDereg \/ AppWaitPelionDereg
      BY <1>1, <1>8 DEF AppToPelionDereg, AppWaitPelionDereg
<1>9. CASE AppWaitNetworkDisconnected
      BY <1>1, <1>9
      DEF AppWaitNetworkDisconnected, Network_GetState, DisconnectedStates,
          Cycle!Sleep
<1>10. CASE InnerStep
  <2>1. UNCHANGED app
        BY <1>10, InnerStepFrame
  <2>. QED  BY <1>1, <2>1 DEF CyclePhase
<1>. QED  BY <1>2, <1>3, <1>4, <1>5, <1>6, <1>7, <1>8, <1>9, <1>10,
              StandbyStepCases
          DEF AppStep, InnerStep

\* A step of the main thread leaves the application alone; it takes the link
\* down only under an application that is not online.
LEMMA MainStepCycle ==
    ASSUME Agreement, MainStep, UNCHANGED appVars
    PROVE  [Cycle!CycleNext]_(Cycle!cycleVars)
<1>1. CyclePhase' = CyclePhase
      BY DEF CyclePhase, appVars
<1>2. CASE mpc = "CLOSECONN" /\ toNetDisconnect
  <2>1. CyclePhase # "online"
        BY <1>2 DEF Agreement, OnlineMeansConnected, CyclePhase
  <2>. QED  BY <1>1, <2>1
            DEF Cycle!CycleNext, Cycle!cycleVars, Cycle!LinkUp,
                Cycle!LinkDown
<1>3. CASE ~(mpc = "CLOSECONN" /\ toNetDisconnect)
  <2>1. netState = "CONNECTED" => netState' = "CONNECTED"
        BY <1>3
        DEF MainStep, MainTop, InitConnOk, InitConnTimeout,
            InitConnNoInterface, InitConnOther, MainCheck, MainSync,
            MainSetConnected, MainRegister, MainClear, MainDisconnect,
            MainPaused, MainClosed, MainDisconnected, controlVars,
            Agreement, DisconnectIsRequested, DisconnectPoints,
            ConnectIsVisible
  <2>. QED  BY <1>1, <2>1
            DEF Cycle!CycleNext, Cycle!cycleVars, Cycle!LinkUp
<1>. QED  BY <1>2, <1>3

\* Every step of the node is a step of the cycle, or changes nothing of it.
LEMMA NextCycle ==
    ASSUME Agreement, [Next]_vars
    PROVE  [Cycle!CycleNext]_(Cycle!cycleVars)
<1>1. CASE App
      BY <1>1, AppStepCycle DEF App
<1>2. CASE Main
      BY <1>2, MainStepCycle DEF Main
<1>3. CASE \/ Client
           \/ \E x \in Timers : Fire(x)
           \/ Server
           \/ ClientReboots
  <2>1. UNCHANGED <<app, netState>>
        BY <1>3, OtherStepFrame
  <2>. QED  BY <2>1 DEF CyclePhase, Cycle!cycleVars
<1>4. CASE Reboot \/ SystemWatchdog
  <2>1. app' = "READY_TO_IDLE"
        BY <1>4 DEF Reboot, SystemWatchdog, Restart, AppReset
  <2>2. netState' = "DISCONNECTED"
        BY <1>4
        DEF Reboot, SystemWatchdog, Restart, MainReset, ControlReset
  <2>. QED  BY <2>1, <2>2, PhaseOfNextState
            DEF Cycle!CycleNext, Cycle!PowerCycle
<1>5. CASE UNCHANGED vars
      BY <1>5
      DEF vars, appVars, controlVars, CyclePhase, Cycle!cycleVars
<1>. QED  BY <1>1, <1>2, <1>3, <1>4, <1>5 DEF Next

\* Session implements UploadCycle: whatever the threads, the server and the
\* network do, the node goes online only over a link that is up, keeps it
\* until it leaves, and sleeps only once it is down.
THEOREM Refinement == Spec => ImplementsUploadCycle
<1>1. Init => Cycle!CycleInit
  <2>1. Init => app = "READY_TO_IDLE" /\ netState = "DISCONNECTED"
        BY DEF Init, AppInit, MainInit, ControlInit
  <2>. QED  BY <2>1, PhaseOfState DEF Cycle!CycleInit
<1>2. Agreement /\ [Next]_vars => [Cycle!CycleNext]_(Cycle!cycleVars)
      BY NextCycle
<1>. QED  BY <1>1, <1>2, AgreementInvariant, PTL
          DEF Spec, ImplementsUploadCycle, Cycle!CycleSpec

-----------------------------------------------------------------------------
(* The terminate timer behind every wait, and the status timer.            *)

\* What the timer macros do to the timer they are for, and that they leave
\* the others alone.
LEMMA TimerEffects ==
    ASSUME NEW f \in [Timers -> Timer], NEW x \in Timers
    PROVE  /\ \A n \in Nat : n > 0 => RelaunchTimer(f, x, n)[x].run
           /\ \A n : LaunchTimer(f, x, n)[x].run
           /\ ClearTrigger(f, x)[x].run = f[x].run
           /\ ClearTrigger(f, x)[x].short = f[x].short
           /\ \A y : y # x =>
                 /\ \A n : RelaunchTimer(f, y, n)[x] = f[x]
                 /\ \A n : LaunchTimer(f, y, n)[x] = f[x]
                 /\ ClearTrigger(f, y)[x] = f[x]
                 /\ StopTimer(f, y)[x] = f[x]
BY DEF RelaunchTimer, LaunchTimer, ClearTrigger, StopTimer, PutTimer,
       RtosTimer_start, Timer

\* The launch-upload timer leaves the others alone.
LEMMA LaunchUploadEffect ==
    ASSUME NEW f \in [Timers -> Timer], NEW x \in Timers, x # "Launch"
    PROVE  LaunchUploadTimer(f)[x] = f[x]
BY DEF LaunchUploadTimer, PutTimer

\* An iteration that is interrupted is one of WAIT_DEV_REG, READY_TO_STANDBY
\* or STANDBY, or the rest of an iteration of STANDBY that has gone back to
\* waiting for the network, which is up.
StageIsOnline ==
    stage # "top"
        => \/ app \in {"WAIT_DEV_REG", "READY_TO_STANDBY", "STANDBY"}
           \/ app = "WAIT_NETWORK_CONNECT" /\ netState = "CONNECTED"

\* The main thread takes the network down only on request.
LEMMA MainKeepsLink ==
    ASSUME Agreement, MainStep, netState = "CONNECTED",
           ~(mpc = "CLOSECONN" /\ toNetDisconnect)
    PROVE  netState' = "CONNECTED"
BY DEF MainStep, MainTop, InitConnOk, InitConnTimeout, InitConnNoInterface,
       InitConnOther, MainCheck, MainSync, MainSetConnected, MainRegister,
       MainClear, MainDisconnect, MainPaused, MainClosed, MainDisconnected,
       controlVars, Agreement, DisconnectIsRequested, DisconnectPoints,
       ConnectIsVisible

\* Hence not while the application waits for it.
LEMMA MainKeepsLinkOfWait ==
    ASSUME Agreement, MainStep, netState = "CONNECTED",
           app = "WAIT_NETWORK_CONNECT"
    PROVE  netState' = "CONNECTED"
BY MainKeepsLink DEF Agreement, NoStaleDisconnect

-----------------------------------------------------------------------------
\* WaitIsGuarded, and what makes it inductive.
GuardInv == StageIsOnline /\ WaitIsGuarded /\ cfg.reg_watchdog > 0

\* A step of the application: whoever enters a wait launches the timer, and
\* whoever uses up its trigger leaves the wait.
LEMMA AppStepGuard ==
    ASSUME TypeOK, Agreement, GuardInv, AppStep
    PROVE  GuardInv'
<1>. USE DEF GuardInv, StageIsOnline, WaitIsGuarded
<1>0. /\ "Terminate" \in Timers /\ tm \in [Timers -> Timer]
      /\ cfg.reg_watchdog \in Nat
      BY AppAssumption DEF TypeOK, AppTypeOK, Config
<1>1. CASE AppReadyToIdle
      BY <1>1 DEF AppReadyToIdle
<1>2. CASE AppIdle
  <2>1. RelaunchRegWatchdog(tm)["Terminate"].run
        BY <1>0, TimerEffects DEF RelaunchRegWatchdog
  <2>2. RelaunchRegWatchdog(tm) \in [Timers -> Timer]
        BY <1>0, RelaunchTimerType DEF RelaunchRegWatchdog
  <2>3. tm'["Terminate"].run
        BY <1>0, <1>2, <2>1, <2>2, TimerEffects DEF AppIdle
  <2>. QED  BY <1>2, <2>3 DEF AppIdle
<1>3. CASE AppWaitNetworkConnect
      BY <1>3 DEF AppWaitNetworkConnect, Network_GetState
<1>4. CASE AppInitSession
  <2>1. RelaunchRegWatchdog(tm)["Terminate"].run
        BY <1>0, TimerEffects DEF RelaunchRegWatchdog
  <2>2. RelaunchRegWatchdog(tm) \in [Timers -> Timer]
        BY <1>0, RelaunchTimerType DEF RelaunchRegWatchdog
  <2>3. tm'["Terminate"].run
        BY <1>0, <1>4, <2>1, <2>2, TimerEffects DEF AppInitSession
  <2>. QED  BY <1>4, <2>3 DEF AppInitSession
<1>5. CASE AppWaitPelionReg
  <2>1. RelaunchRegWatchdog(tm)["Terminate"].run
        BY <1>0, TimerEffects DEF RelaunchRegWatchdog
  <2>. QED  BY <1>5, <2>1 DEF AppWaitPelionReg, GiveUp
<1>6. CASE AppWaitResourceSubscribed
  <2>1. RelaunchRegWatchdog(tm)["Terminate"].run
        BY <1>0, TimerEffects DEF RelaunchRegWatchdog
  <2>. QED  BY <1>6, <2>1
            DEF AppWaitResourceSubscribed, GiveUp, FollowFWUpdate, fwVars
<1>7. CASE DevRegInit \/ DevRegWait \/ DevRegDone
      BY <1>7 DEF DevRegInit, DevRegWait, DevRegDone, GiveUp
<1>8. CASE ReadyToStandbyTop \/ ReadyToStandbyUploaded \/ ReadyToStandbyEnd
      BY <1>8
      DEF ReadyToStandbyTop, ReadyToStandbyUploaded, ReadyToStandbyEnd
<1>9. CASE StandbyTop \/ StandbyRegistered
      BY <1>9
      DEF StandbyTop, StandbyRegistered, controlVars, Agreement,
          OnlineMeansConnected, OnlineStates
<1>10. CASE InnerStep
  <2>1. UNCHANGED <<app, cfg, netState, fwUpdating>> /\ stage # "top"
        BY <1>10, InnerStepFrame DEF controlVars, fwVars
  <2>. QED  BY <2>1
<1>11. CASE StandbyEnd
      BY <1>11 DEF StandbyEnd, controlVars
<1>12. CASE AppToPelionDereg \/ AppWaitPelionDereg \/ AppWaitNetworkDisconnected
      BY <1>12
      DEF AppToPelionDereg, AppWaitPelionDereg, AppWaitNetworkDisconnected
<1>. QED  BY <1>1, <1>2, <1>3, <1>4, <1>5, <1>6, <1>7, <1>8, <1>9, <1>10,
              <1>11, <1>12, StandbyStepCases
          DEF AppStep, InnerStep

\* A step of the main thread: the network is not taken down under a wait.
LEMMA MainStepGuard ==
    ASSUME Agreement, GuardInv, MainStep, UNCHANGED appVars
    PROVE  GuardInv'
<1>1. app = "WAIT_NETWORK_CONNECT" /\ netState = "CONNECTED"
          => netState' = "CONNECTED"
      BY MainKeepsLinkOfWait
<1>. QED  BY <1>1
          DEF GuardInv, StageIsOnline, WaitIsGuarded, appVars, fwVars

\* A timer that expires sets its trigger.
LEMMA FireGuard ==
    ASSUME TypeOK, GuardInv, NEW x \in Timers, Fire(x)
    PROVE  GuardInv'
<1>1. /\ "Terminate" \in Timers /\ tm \in [Timers -> Timer]
      BY AppAssumption DEF TypeOK, AppTypeOK
<1>2. tm["Terminate"].run \/ tm["Terminate"].trig
          => tm'["Terminate"].run \/ tm'["Terminate"].trig
      BY <1>1 DEF Fire, TimerFires, PutTimer
<1>. QED  BY <1>2
          DEF GuardInv, StageIsOnline, WaitIsGuarded, Fire, TimerFires,
              fwVars, controlVars

\* The server changes the configuration, never to one without a watchdog; it
\* does not stop timers.
LEMMA ServerGuard ==
    ASSUME WatchdogSet, TypeOK, GuardInv, Client \/ Server \/ ClientReboots
    PROVE  GuardInv'
<1>1. UNCHANGED <<app, stage, tm, fwUpdating, netState>>
  <2>1. CASE Client
        BY <2>1, OtherStepFrame DEF Client, appVars, fwVars
  <2>2. CASE Server
        BY <2>2
        DEF Server, PutNodeRegister, SlcApp_Update_NodeRegister, PutConfig,
            SlcApp_Update_Config, PutConfigField, SlcApp_Update_Config_Field,
            FactoryReset, SlcApp_ResetConfig, FWDownload,
            SlcApp_FWUpdateTriggered, Subscribed, ResourceSubscribed,
            controlVars, fwVars
  <2>3. CASE ClientReboots
        BY <2>3, OtherStepFrame
        DEF ClientReboots, SlcApp_FWUpdateTerminated, appVars, fwVars
  <2>. QED  BY <2>1, <2>2, <2>3
<1>2. cfg'.reg_watchdog > 0
  <2>1. CASE Client
        BY <2>1 DEF Client, appVars, GuardInv
  <2>2. CASE Server
    <3>1. cfg \in Config /\ cfg.reg_watchdog > 0
          BY DEF TypeOK, AppTypeOK, GuardInv
    <3>2. CASE PutNodeRegister
          BY <3>1, <3>2
          DEF PutNodeRegister, SlcApp_Update_NodeRegister, Config
    <3>3. CASE PutConfig
          BY <3>3, AppAssumption
          DEF PutConfig, SlcApp_Update_Config, WatchdogSet, Config
    <3>6. CASE FactoryReset
          BY <3>6 DEF FactoryReset, SlcApp_ResetConfig, WatchdogSet
    <3>4. CASE PutConfigField
          BY <3>1, <3>4
          DEF PutConfigField, SlcApp_Update_Config_Field, WatchdogSet, Config
    <3>5. CASE FWDownload \/ Subscribed
          BY <3>1, <3>5
          DEF FWDownload, SlcApp_FWUpdateTriggered, Subscribed,
              ResourceSubscribed
    <3>. QED  BY <2>2, <3>2, <3>3, <3>4, <3>5, <3>6 DEF Server
  <2>3. CASE ClientReboots
        BY <2>3
        DEF ClientReboots, SlcApp_FWUpdateTerminated, appVars, GuardInv
  <2>. QED  BY <2>1, <2>2, <2>3
<1>. QED  BY <1>1, <1>2 DEF GuardInv, StageIsOnline, WaitIsGuarded

\* After a restart nobody waits, and the configuration is a stored one.
LEMMA RestartGuard ==
    ASSUME WatchdogSet, Restart
    PROVE  GuardInv'
<1>1. PICK b \in Configs \cup {DefaultConfig} :
          \E c \in {b, [b EXCEPT !.node_registered = FALSE]} : AppReset(c, b)
      BY DEF Restart
<1>2. b \in Config /\ b.reg_watchdog > 0
      BY AppAssumption DEF WatchdogSet
<1>3. cfg'.reg_watchdog > 0
      BY <1>1, <1>2 DEF AppReset, Config
<1>. QED  BY <1>1, <1>3 DEF GuardInv, StageIsOnline, WaitIsGuarded, AppReset

\* The initial states.
LEMMA InitGuard ==
    ASSUME WatchdogSet, Init
    PROVE  GuardInv
<1>1. PICK b \in Configs \cup {DefaultConfig} :
          \E c \in {b, [b EXCEPT !.node_registered = FALSE]} : AppInit(c, b)
      BY DEF Init
<1>2. b \in Config /\ b.reg_watchdog > 0
      BY AppAssumption DEF WatchdogSet
<1>3. cfg.reg_watchdog > 0
      BY <1>1, <1>2 DEF AppInit, Config
<1>. QED  BY <1>1, <1>3 DEF GuardInv, StageIsOnline, WaitIsGuarded, AppInit

\* Every wait of the application has the terminate timer behind it, whichever
\* thread runs when, if no configuration has a watchdog of zero seconds.
THEOREM WaitsAreGuarded ==
    ASSUME WatchdogSet
    PROVE  Spec => []WaitIsGuarded
<1>. DEFINE Inv == TypeOK /\ Agreement /\ GuardInv
<1>1. Init => Inv
      BY InitType, InitAgreement, InitGuard
<1>2. ASSUME Inv, [Next]_vars
      PROVE  Inv'
  <2>1. TypeOK' /\ Agreement'
        BY <1>2, NextType, NextAgreement
  <2>2. GuardInv'
    <3>1. CASE App
          BY <1>2, <3>1, AppStepGuard DEF App
    <3>2. CASE Main
          BY <1>2, <3>2, MainStepGuard DEF Main
    <3>3. CASE \E x \in Timers : Fire(x)
          BY <1>2, <3>3, FireGuard
    <3>4. CASE Client \/ Server \/ ClientReboots
          BY <1>2, <3>4, ServerGuard
    <3>5. CASE Reboot \/ SystemWatchdog
          BY <3>5, RestartGuard DEF Reboot, SystemWatchdog
    <3>6. CASE UNCHANGED vars
          BY <1>2, <3>6
          DEF vars, appVars, fwVars, controlVars, GuardInv, StageIsOnline,
              WaitIsGuarded
    <3>. QED  BY <1>2, <3>1, <3>2, <3>3, <3>4, <3>5, <3>6 DEF Next
  <2>. QED  BY <2>1, <2>2
<1>3. Inv => WaitIsGuarded
      BY DEF GuardInv
<1>. QED  BY <1>1, <1>2, <1>3, PTL DEF Spec

-----------------------------------------------------------------------------
\* The status timer, if there is one, is running, or its trigger waits to be
\* served, or its period is zero.
Scheduled(f) ==
    "Status" \in Timers
        => f["Status"].run \/ f["Status"].trig \/ f["Status"].short

\* The same when the trigger is about to be cleared.
Relaunched(f) ==
    "Status" \in Timers => f["Status"].run \/ f["Status"].short

\* What keeps it so: the operations on the other timers ...
LEMMA ScheduledKept ==
    ASSUME NEW f \in [Timers -> Timer], NEW y, y # "Status", Scheduled(f)
    PROVE  /\ \A n : Scheduled(RelaunchTimer(f, y, n))
           /\ \A n : Scheduled(LaunchTimer(f, y, n))
           /\ Scheduled(ClearTrigger(f, y))
           /\ Scheduled(StopTimer(f, y))
<1>1. ASSUME "Status" \in Timers
      PROVE  /\ \A n : RelaunchTimer(f, y, n)["Status"] = f["Status"]
             /\ \A n : LaunchTimer(f, y, n)["Status"] = f["Status"]
             /\ ClearTrigger(f, y)["Status"] = f["Status"]
             /\ StopTimer(f, y)["Status"] = f["Status"]
      BY <1>1, TimerEffects
<1>. QED  BY <1>1 DEF Scheduled

\* ... a launch, whatever was there before ...
LEMMA ScheduledByLaunch ==
    ASSUME NEW f \in [Timers -> Timer]
    PROVE  /\ LaunchStatus(f) \in [Timers -> Timer]
           /\ Scheduled(LaunchStatus(f))
           /\ Relaunched(LaunchStatus(f))
BY LaunchTimerType, TimerEffects DEF LaunchStatus, Scheduled, Relaunched

\* ... and a trigger that is cleared after it.
LEMMA ScheduledByClear ==
    ASSUME NEW f \in [Timers -> Timer], Relaunched(f)
    PROVE  Scheduled(ClearTrigger(f, "Status"))
BY TimerEffects DEF Scheduled, Relaunched

\* StatusStaysScheduled, and what makes it inductive: from the first upload
\* after a restart on, in whatever state the application is; and the stages
\* of an iteration belong to the states they are reached from.
StatusInv ==
    /\ stage # "top"
         => app \in {"WAIT_DEV_REG", "READY_TO_STANDBY", "STANDBY",
                     "WAIT_NETWORK_CONNECT"}
    /\ stage \in StandbyStages => app \in {"STANDBY", "WAIT_NETWORK_CONNECT"}
    /\ app = "WAIT_DEV_REG" => stage \in {"top", "clearNodeRegister"}
    /\ stage = "status" => app = "STANDBY"
    /\ stage = "clearStatus" => Relaunched(tm)
    /\ app = "STANDBY" => firstUploadDone # 0
    /\ firstUploadDone # 0 \/ (app = "READY_TO_STANDBY" /\ stage = "end")
         => Scheduled(tm) \/ stage = "status"

\* An inner step keeps the status timer scheduled, and launches it before its
\* trigger is to be cleared.
LEMMA InnerStepScheduled ==
    ASSUME TypeOK, InnerStep,
           stage = "clearStatus" => Relaunched(tm)
    PROVE  /\ Scheduled(tm) \/ stage = "status" => Scheduled(tm')
           /\ stage' = "clearStatus" => Relaunched(tm')
<1>. USE DEF TimerStep, BackupStep
<1>0. tm \in [Timers -> Timer]
      BY DEF TypeOK, AppTypeOK
<1>1. CASE StandbyStatus
      BY <1>0, <1>1, ScheduledByLaunch DEF StandbyStatus
<1>2. CASE StandbyUploadStatus
      BY <1>0, <1>2, ScheduledByLaunch DEF StandbyUploadStatus
<1>3. CASE StandbyClearStatus
      BY <1>0, <1>3, ScheduledByClear DEF StandbyClearStatus
<1>4. CASE DevRegClear \/ StandbyClearData
      BY <1>0, <1>4, ScheduledKept DEF DevRegClear, StandbyClearData
<1>5. CASE StandbyData \/ StandbyDataEnabled \/ StandbyUploadData
      BY <1>0, <1>5, ScheduledKept
      DEF StandbyData, StandbyDataEnabled, StandbyUploadData
<1>6. CASE StandbyDeregister
      BY <1>0, <1>6, ScheduledKept DEF StandbyDeregister, RelaunchTerminate
<1>7. CASE \/ StandbyStatusBackup \/ StandbyDataBackup
           \/ StandbyDeregisterBackup
      BY <1>7 DEF StandbyStatusBackup, StandbyDataBackup,
                  StandbyDeregisterBackup, Scheduled
<1>. QED  BY <1>1, <1>2, <1>3, <1>4, <1>5, <1>6, <1>7 DEF InnerStep

\* The other steps of the application keep it too, but for the beginning of
\* an iteration of STANDBY that finds a new period.
LEMMA OuterStepScheduled ==
    ASSUME TypeOK, AppStep, ~InnerStep, Scheduled(tm)
    PROVE  Scheduled(tm') \/ stage' = "status"
<1>0. tm \in [Timers -> Timer]
      BY DEF TypeOK, AppTypeOK
<1>1. CASE AppReadyToIdle
      BY <1>0, <1>1, LaunchUploadEffect DEF AppReadyToIdle, Scheduled
<1>2. CASE AppIdle \/ AppInitSession
      BY <1>0, <1>2, ScheduledKept, RelaunchTimerType
      DEF AppIdle, AppInitSession, RelaunchRegWatchdog
<1>3. CASE AppWaitNetworkConnect \/ AppWaitPelionReg \/ AppToPelionDereg
      BY <1>0, <1>3, ScheduledKept
      DEF AppWaitNetworkConnect, AppWaitPelionReg, GiveUp,
          AppToPelionDereg, RelaunchRegWatchdog
<1>4. CASE AppWaitResourceSubscribed
      BY <1>0, <1>4, ScheduledKept
      DEF AppWaitResourceSubscribed, GiveUp, FollowFWUpdate,
          RelaunchRegWatchdog, RelaunchNodeRegWatchdog
<1>5. CASE DevRegInit \/ DevRegWait
      BY <1>0, <1>5, ScheduledKept
      DEF DevRegInit, DevRegWait, GiveUp, FollowFWUpdate,
          RelaunchNodeRegWatchdog
<1>6. CASE ReadyToStandbyTop \/ ReadyToStandbyEnd
      BY <1>0, <1>6, ScheduledKept
      DEF ReadyToStandbyTop, ReadyToStandbyEnd, RelaunchTerminate
<1>7. CASE ReadyToStandbyUploaded
      BY <1>0, <1>7, ScheduledByLaunch, ScheduledKept
      DEF ReadyToStandbyUploaded
<1>8. CASE StandbyTop
      BY <1>8 DEF StandbyTop
<1>9. CASE StandbyEnd
      BY <1>0, <1>9, ScheduledKept, ClearTriggerType, StopTimerType
      DEF StandbyEnd, RelaunchTerminate
<1>10. CASE \/ DevRegDone \/ StandbyRegistered \/ AppWaitPelionDereg
            \/ AppWaitNetworkDisconnected
      BY <1>10
      DEF DevRegDone, StandbyRegistered, AppWaitPelionDereg,
          AppWaitNetworkDisconnected, Scheduled
<1>. QED  BY <1>1, <1>2, <1>3, <1>4, <1>5, <1>6, <1>7, <1>8, <1>9, <1>10,
              StandbyStepCases
          DEF AppStep, InnerStep

\* A step of the application: the timer is stopped only to be launched again,
\* and its trigger is cleared only by who has launched it again.
LEMMA AppStepStatus ==
    ASSUME TypeOK, StatusInv, AppStep
    PROVE  StatusInv'
<1>0. /\ tm \in [Timers -> Timer] /\ stage \in Stages
      /\ firstUploadDone \in 0..ReduceTimes /\ ReduceTimes \in Nat \ {0}
      BY AppAssumption DEF TypeOK, AppTypeOK
<1>. USE DEF StatusInv, StandbyStages, Stages
<1>1. CASE InnerStep
  <2>1. /\ UNCHANGED <<app, firstUploadDone>>
        /\ stage \in {"clearNodeRegister"} \cup StandbyStages
        /\ stage' \in {"top", "end"} \cup StandbyStages
        /\ stage' # "status"
        /\ stage' = "top" <=> stage = "clearNodeRegister"
        BY <1>1, InnerStepFrame
  <2>2. /\ Scheduled(tm) \/ stage = "status" => Scheduled(tm')
        /\ stage' = "clearStatus" => Relaunched(tm')
        BY <1>1, InnerStepScheduled
  <2>. QED  BY <2>1, <2>2
<1>2. CASE ~InnerStep
  <2>1. Scheduled(tm) => Scheduled(tm') \/ stage' = "status"
        BY <1>2, OuterStepScheduled
  <2>2. CASE ReadyToStandbyUploaded
    <3>1. Scheduled(tm')
          BY <1>0, <2>2, ScheduledByLaunch, ScheduledKept
          DEF ReadyToStandbyUploaded
    <3>. QED  BY <2>2, <3>1 DEF ReadyToStandbyUploaded
  <2>3. CASE ReadyToStandbyTop \/ ReadyToStandbyEnd
        BY <1>0, <2>1, <2>3 DEF ReadyToStandbyTop, ReadyToStandbyEnd
  <2>4. CASE StandbyTop \/ StandbyRegistered \/ StandbyEnd
        BY <1>0, <2>1, <2>4 DEF StandbyTop, StandbyRegistered, StandbyEnd
  <2>5. CASE \/ AppReadyToIdle \/ AppIdle \/ AppWaitNetworkConnect
             \/ AppInitSession \/ AppWaitPelionReg
             \/ AppWaitResourceSubscribed
        BY <2>1, <2>5
        DEF AppReadyToIdle, AppIdle, AppWaitNetworkConnect, AppInitSession,
            AppWaitPelionReg, AppWaitResourceSubscribed, GiveUp
  <2>6. CASE DevRegInit \/ DevRegWait \/ DevRegDone
        BY <2>1, <2>6 DEF DevRegInit, DevRegWait, DevRegDone, GiveUp
  <2>7. CASE \/ AppToPelionDereg \/ AppWaitPelionDereg
             \/ AppWaitNetworkDisconnected
        BY <2>1, <2>7
        DEF AppToPelionDereg, AppWaitPelionDereg, AppWaitNetworkDisconnected
  <2>. QED  BY <1>2, <2>2, <2>3, <2>4, <2>5, <2>6, <2>7, StandbyStepCases
            DEF AppStep, InnerStep
<1>. QED  BY <1>1, <1>2

\* The other threads do not touch the timer but by letting it expire.
LEMMA OtherStepStatus ==
    ASSUME TypeOK, StatusInv,
           Main \/ Client \/ (\E x \in Timers : Fire(x)) \/ Server
               \/ ClientReboots
    PROVE  StatusInv'
<1>1. UNCHANGED <<app, stage, firstUploadDone>>
      BY DEF Main, Client, Fire, TimerFires, Server, PutNodeRegister,
             SlcApp_Update_NodeRegister, PutConfig, SlcApp_Update_Config,
             PutConfigField, SlcApp_Update_Config_Field, FactoryReset,
             SlcApp_ResetConfig, FWDownload, SlcApp_FWUpdateTriggered,
             Subscribed, ResourceSubscribed, ClientReboots,
             SlcApp_FWUpdateTerminated, appVars
<1>2. /\ Scheduled(tm) => Scheduled(tm')
      /\ stage = "clearStatus" /\ Relaunched(tm) => Relaunched(tm')
  <2>1. CASE \E x \in Timers : Fire(x)
        BY <2>1 DEF Fire, TimerFires, PutTimer, Scheduled, Relaunched
  <2>2. CASE Main \/ Client \/ Server \/ ClientReboots
    <3>1. UNCHANGED tm
          BY <2>2
          DEF Main, Client, Server, PutNodeRegister,
              SlcApp_Update_NodeRegister, PutConfig, SlcApp_Update_Config,
              PutConfigField, SlcApp_Update_Config_Field, FactoryReset,
              SlcApp_ResetConfig, FWDownload, SlcApp_FWUpdateTriggered,
              Subscribed, ResourceSubscribed, ClientReboots,
              SlcApp_FWUpdateTerminated, appVars
    <3>. QED  BY <3>1 DEF Scheduled, Relaunched
  <2>. QED  BY <2>1, <2>2
<1>. QED  BY <1>1, <1>2 DEF StatusInv

\* A node in STANDBY has its next status upload scheduled, whatever the server
\* changed, whichever triggers were served and whenever the timers expired, as
\* long as the period of the upload is not zero.
THEOREM StatusIsScheduled == Spec => []StatusStaysScheduled
<1>. DEFINE Inv == TypeOK /\ StatusInv
<1>1. Init => Inv
  <2>1. Init => StatusInv
        BY DEF Init, AppInit, StatusInv, StandbyStages
  <2>. QED  BY <2>1, InitType
<1>2. ASSUME Inv, [Next]_vars
      PROVE  Inv'
  <2>1. TypeOK'
        BY <1>2, NextType
  <2>2. StatusInv'
    <3>1. CASE App
          BY <1>2, <3>1, AppStepStatus DEF App
    <3>2. CASE Main \/ Client \/ (\E x \in Timers : Fire(x)) \/ Server
               \/ ClientReboots
          BY <1>2, <3>2, OtherStepStatus
    <3>3. CASE Reboot \/ SystemWatchdog
          BY <3>3
          DEF Reboot, SystemWatchdog, Restart, AppReset, StatusInv,
              StandbyStages
    <3>4. CASE UNCHANGED vars
          BY <1>2, <3>4 DEF vars, appVars, StatusInv, Scheduled, Relaunched
    <3>. QED  BY <1>2, <3>1, <3>2, <3>3, <3>4 DEF Next
  <2>. QED  BY <2>1, <2>2
<1>3. Inv => StatusStaysScheduled
      BY DEF StatusInv, StatusStaysScheduled, Scheduled
<1>. QED  BY <1>1, <1>2, <1>3, PTL DEF Spec
=============================================================================
