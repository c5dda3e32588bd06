------------------------------- MODULE Session -------------------------------
(***************************************************************************)
(* The running node: the application thread (SlcApp), the main thread      *)
(* (MainLoop), the event thread of the Pelion client (CloudClient) and the *)
(* timer thread, interleaved over the shared variables of PelionControl.   *)
(***************************************************************************)
EXTENDS MainLoop, SlcApp

\* The kinds of requests the server makes; all of them in general.
CONSTANT Requests

AllRequests == {"NodeRegister", "Config", "Field", "FactoryReset",
                "FWUpdate"}

ASSUME SessionAssumption == Requests \subseteq AllRequests

vars == <<controlVars, clientVars, mainVars, appVars>>

Init ==
    /\ MainInit
    /\ \E b \in Configs \cup {DefaultConfig} :
          \E c \in {b, [b EXCEPT !.node_registered = FALSE]} : AppInit(c, b)

\* The server reaches the node, and the event thread can serve it.
Online ==
    /\ Network_GetState = "CONNECTED"
    /\ is_client_registered
    /\ ~Pelion_IsPaused
    /\ EventThreadFree

App == AppStep /\ UNCHANGED <<clientVars, mainVars>>

Main == MainStep /\ UNCHANGED appVars

Client == ClientEvent /\ UNCHANGED <<mainVars, appVars>>

Fire(x) == TimerFires(x) /\ UNCHANGED <<controlVars, clientVars, mainVars>>

\* A request of the server, handled by a callback of the event thread.
PutNodeRegister ==
    /\ "NodeRegister" \in Requests
    /\ \E value \in BOOLEAN : SlcApp_Update_NodeRegister(value)

PutConfig ==
    /\ "Config" \in Requests
    /\ \E new \in Configs : SlcApp_Update_Config(new)

PutConfigField == "Field" \in Requests /\ SlcApp_Update_Config_Field

FactoryReset == "FactoryReset" \in Requests /\ SlcApp_ResetConfig

FWDownload == "FWUpdate" \in Requests /\ SlcApp_FWUpdateTriggered

Subscribed == \E r \in Resources : ResourceSubscribed(r)

Server ==
    /\ Online
    /\ \/ PutNodeRegister
       \/ PutConfig
       \/ PutConfigField
       \/ FactoryReset
       \/ FWDownload
       \/ Subscribed
    /\ UNCHANGED <<controlVars, clientVars, mainVars>>

\* The callbacks that call OS_Reboot(): a download that was requested ends
\* with an unknown request of the update client (which also sets a trigger) or
\* with UpdateErrorConnection, or the server asks for a reboot.
ClientReboots ==
    /\ Online
    /\ StartReboot
    /\ \/ /\ fwUpdate \/ fwUpdating
          /\ SlcApp_FWUpdateTerminated
       \/ /\ fwUpdate \/ fwUpdating
          /\ UNCHANGED appVars
       \/ /\ "FactoryReset" \in Requests
          /\ UNCHANGED appVars
    /\ UNCHANGED mainVars

\* Everything in RAM is lost; the configuration is read back.
Restart ==
    /\ MainReset
    /\ \E b \in Configs \cup {DefaultConfig} :
          \E c \in {b, [b EXCEPT !.node_registered = FALSE]} : AppReset(c, b)

\* OS_Reboot(), by whoever decided to call it.
Reboot ==
    /\ MainMustReboot \/ AppMustReboot \/ rebooting
    /\ Restart

\* The system watchdog timer.  Only delivered uploads and requests of the
\* server restart it, so that it may fire in any state.
SystemWatchdog == Restart

\* Nothing is uploaded, hence nothing delivered.
Silent ==
    ~Online \/ app \notin {"WAIT_DEV_REG", "READY_TO_STANDBY", "STANDBY"}

Next ==
    \/ App
    \/ Main
    \/ Client
    \/ \E x \in Timers : Fire(x)
    \/ Server
    \/ ClientReboots
    \/ Reboot
    \/ SystemWatchdog

\* Every thread is scheduled (the RTOS is preemptive, round-robin between
\* threads of the same priority, and every blocking call has a time-out);
\* a started timer expires.  The server and the outcome of a network
\* operation are not fair, and SyncRealTime() may ask for the time for ever
\* unless a disconnect request ends it (see Network).
Fairness ==
    /\ WF_vars(App)
    /\ WF_vars(Main /\ (mpc # "SYNC" \/ toNetDisconnect))
    /\ WF_vars(registered_callback /\ UNCHANGED <<mainVars, appVars>>)
    /\ \A x \in Timers : WF_vars(Fire(x))
    /\ WF_vars(Reboot)

\* The system watchdog fires if the node uploads nothing for long enough (and
\* the server does not keep it alive by its requests alone).
WatchdogFairness == WF_vars(Silent /\ SystemWatchdog)

Spec == Init /\ [][Next]_vars /\ Fairness

-----------------------------------------------------------------------------
(* Safety.                                                                 *)

\* Every variable has its type.
TypeOK ==
    /\ ControlTypeOK
    /\ ClientTypeOK
    /\ MainTypeOK
    /\ AppTypeOK

\* The states in which the application believes that the network is up ...
OnlineStates == {"INIT", "WAIT_PELION_REG", "WAIT_RESOURCE_SUBSCRIBED",
                 "WAIT_DEV_REG", "READY_TO_STANDBY", "STANDBY"}

\* ... and those in which it believes to be registered with Pelion.
SessionStates == OnlineStates \ {"INIT", "WAIT_PELION_REG"}

\* The application reads NetState once, in WAIT_NETWORK_CONNECT, and relies
\* on it until it asks for the disconnection itself: the main thread never
\* takes the network down under it, not even for a disconnect request that
\* an earlier cycle left behind.
OnlineMeansConnected ==
    app \in OnlineStates => netState = "CONNECTED" /\ ~toNetDisconnect

\* The same for the test of PelionRegistered and Paused in WAIT_PELION_REG:
\* a session is never uploading through a client that the main thread has
\* paused or closed.
SessionMeansRegistered ==
    app \in SessionStates => pelionRegistered /\ ~paused

\* Why the two hold although nothing is locked.  A disconnect request that
\* is still set when the application has gone back to sleep or waits for the
\* next connection never meets an established network.
NoStaleDisconnect ==
    toNetDisconnect /\ netState = "CONNECTED"
        => app \notin {"READY_TO_IDLE", "IDLE", "WAIT_NETWORK_CONNECT"}

\* The main thread works on a disconnection only while it is requested ...
DisconnectIsRequested == mpc \in DisconnectPoints => toNetDisconnect

\* ... and it is on the way to the network only in a state that keeps an
\* application that waits for the disconnection waiting.
ConnectIsVisible ==
    /\ mpc = "INITCONN" => netState = "CONNECTING"
    /\ mpc \in {"CHECK", "SYNC", "SETCONN", "REGISTER"}
         => netState \notin DisconnectedStates

\* A request that comes between the last test of ToNetDisconnect and the
\* write of NetState is that of an application still waiting for its effect.
LateRequestWaits ==
    mpc = "SETCONN" /\ toNetDisconnect
        => app \in {"WAIT_PELION_DEREG", "WAIT_NETWORK_DISCONNECTED"}

\* The agreement between the two threads over the unlocked fields of Main:
\* the inductive invariant behind the two properties above.
Agreement ==
    /\ OnlineMeansConnected
    /\ SessionMeansRegistered
    /\ NoStaleDisconnect
    /\ DisconnectIsRequested
    /\ ConnectIsVisible
    /\ LateRequestWaits

\* Every configuration has a register watchdog: RtosTimer refuses a period of
\* zero, which the code accepts from the server.
WatchdogSet == \A c \in Configs \cup {DefaultConfig} : c.reg_watchdog > 0

\* A state that waits for the network, the registration or the subscriptions
\* has the terminate timer behind it: it is running, or has set its trigger,
\* unless a firmware update stopped it or the wait is over (WatchdogSet).
WaitIsGuarded ==
    app \in {"WAIT_NETWORK_CONNECT", "WAIT_PELION_REG",
             "WAIT_RESOURCE_SUBSCRIBED"}
        => \/ tm["Terminate"].run \/ tm["Terminate"].trig
           \/ fwUpdating
           \/ app = "WAIT_NETWORK_CONNECT" /\ netState = "CONNECTED"

\* The status upload does not die: while the node is in standby its timer is
\* running, or its trigger waits to be served, or the upload that a new period
\* begins with is in progress.  The one exception is a period of zero, which
\* the code accepts: the timer of one millisecond may expire between its
\* launch and the next statement, which clears the trigger it has just set.
StatusStaysScheduled ==
    app = "STANDBY" /\ "Status" \in Timers
        => \/ tm["Status"].run \/ tm["Status"].trig
           \/ stage = "status"
           \/ tm["Status"].short

-----------------------------------------------------------------------------
(* Liveness.                                                               *)

\* The node goes through its cycle again and again: it wakes up, and unless
\* the configuration or a firmware update keeps it online it leaves the
\* network again, because every wait on the way has a timer, a counter or an
\* answer of the main thread behind it.  The one wait that may last is
\* WAIT_PELION_DEREG: a registration that is reported after the client was
\* closed hides the answer the application polls for.
CycleProgresses ==
    /\ []<>(\/ app \in {"IDLE", "WAIT_PELION_DEREG"}
            \/ cfg.keep_online \/ fwUpdating)
    /\ []<>(app # "IDLE")

\* A disconnect request is served whatever the main thread was doing when it
\* was made: its connect loop gives up after a bounded number of failures.
DisconnectIsServed == toNetDisconnect ~> ~toNetDisconnect

\* With the system watchdog, a node that is not told to stay online goes back
\* to sleep again and again, from WAIT_PELION_DEREG too.
SleepsAgain ==
    WatchdogFairness => []<>(app = "IDLE" \/ cfg.keep_online \/ fwUpdating)

-----------------------------------------------------------------------------
\* The promise to the user (see UploadCycle).
CyclePhase ==
    IF app \in OnlineStates THEN "online"
    ELSE IF app \in {"READY_TO_IDLE", "IDLE"} THEN "asleep"
    ELSE IF app = "WAIT_NETWORK_CONNECT" THEN "waking"
    ELSE "leaving"

Cycle == INSTANCE UploadCycle
    WITH phase <- CyclePhase, link <- netState = "CONNECTED"

\* Session implements UploadCycle.
ImplementsUploadCycle == Cycle!CycleSpec
=============================================================================
