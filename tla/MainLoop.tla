------------------------------ MODULE MainLoop ------------------------------
(***************************************************************************)
(* The while(1) loop of main() in main_slc.cpp: the thread that owns the   *)
(* cellular network and the Pelion client.  Each iteration serves a        *)
(* connect request, then a disconnect request.                             *)
(*                                                                         *)
(* One value of `mpc` stands for each point of the loop at which another   *)
(* thread may run with a visible effect: before and after every blocking   *)
(* call, and between a test of a shared field and the write it guards.     *)
(* Whether a modem or network call succeeds is the choice of the           *)
(* environment; what attach and detach do to the modem is in Network.  The *)
(* local `err` goes back to 0 when it is dead: the code clears it before   *)
(* the next connect loop.                                                  *)
(***************************************************************************)
EXTENDS CloudClient, Naturals

CONSTANT ErrLimit   \* failures tolerated by the connect loop (3)

ASSUME MainAssumption == ErrLimit \in Nat

VARIABLES
    mpc,        \* where the main thread is in its loop
    err,        \* local counter of "other" connect errors
    errReboot   \* counter of timeouts, kept across connect attempts

mainVars == <<mpc, err, errReboot>>

MainPoints == {"TOP", "INITCONN", "CHECK", "SYNC", "SETCONN", "REGISTER",
               "CLEAR", "DISC", "PAUSING", "CLOSING", "CLOSECONN"}

\* The points inside the branch `if(Main.ToNetDisconnect)`.
DisconnectPoints == {"PAUSING", "CLOSING", "CLOSECONN"}

MainTypeOK ==
    /\ mpc \in MainPoints
    /\ err \in 0..ErrLimit
    /\ errReboot \in 0..ErrLimit

MainInit ==
    /\ ControlInit
    /\ ClientInit
    /\ mpc = "TOP"
    /\ err = 0
    /\ errReboot = 0

\* A restart.
MainReset ==
    /\ ControlReset
    /\ ClientReset
    /\ mpc' = "TOP"
    /\ err' = 0
    /\ errReboot' = 0

-----------------------------------------------------------------------------
(* The connect request.                                                    *)

\* Mutant of MainTop: NetState does not announce the attempt to connect.
MainTop_Unannounced ==
    /\ mpc = "TOP"
    /\ \/ /\ toNetConnect /\ netState # "CONNECTED"
          /\ err' = 0
          /\ mpc' = "INITCONN"
       \/ /\ toNetConnect /\ netState = "CONNECTED"
          /\ mpc' = "CHECK"
          /\ UNCHANGED err
       \/ /\ ~toNetConnect
          /\ mpc' = "DISC"
          /\ UNCHANGED err
    /\ UNCHANGED <<toNetConnect, toNetDisconnect, disconnectType, netState,
                   pelionRegistered, paused, errReboot, clientVars>>

\* `if(Main.ToNetConnect)`, up to the first mcc_platform_init_connection().
MainTop ==
    /\ mpc = "TOP"
    /\ \/ /\ toNetConnect
          /\ netState # "CONNECTED"
          /\ netState' = "CONNECTING"
          /\ err' = 0
          /\ mpc' = "INITCONN"
       \/ /\ toNetConnect
          /\ netState = "CONNECTED"
          /\ mpc' = "CHECK"
          /\ UNCHANGED <<netState, err>>
       \/ /\ ~toNetConnect
          /\ mpc' = "DISC"
          /\ UNCHANGED <<netState, err>>
    /\ UNCHANGED <<toNetConnect, toNetDisconnect, disconnectType,
                   pelionRegistered, paused, errReboot, clientVars>>

\* mcc_platform_init_connection() returns 0.
InitConnOk ==
    /\ mpc = "INITCONN"
    /\ err' = 0
    /\ errReboot' = 0
    /\ mpc' = "CHECK"
    /\ UNCHANGED <<controlVars, clientVars>>

\* A mutant of InitConnTimeout: the loop is not left at the limit.
InitConnTimeout_NoBreak ==
    /\ mpc = "INITCONN"
    /\ \/ /\ errReboot + 1 > ErrLimit
          /\ errReboot' = 0
          /\ netState' = "ERROR_REBOOT"
       \/ /\ errReboot + 1 <= ErrLimit
          /\ errReboot' = errReboot + 1
          /\ UNCHANGED netState
    /\ UNCHANGED <<toNetConnect, toNetDisconnect, disconnectType, mpc, err,
                   pelionRegistered, paused, clientVars>>

\* NETWORK_ERROR_TIMEOUT or NETWORK_ERROR_NO_MEMORY.
InitConnTimeout ==
    /\ mpc = "INITCONN"
    /\ \/ /\ errReboot + 1 > ErrLimit
          /\ err' = 0
          /\ errReboot' = 0
          /\ netState' = "ERROR_REBOOT"
          /\ mpc' = "CHECK"
       \/ /\ errReboot + 1 <= ErrLimit
          /\ errReboot' = errReboot + 1
          /\ UNCHANGED <<netState, mpc, err>>
    /\ UNCHANGED <<toNetConnect, toNetDisconnect, disconnectType,
                   pelionRegistered, paused, clientVars>>

\* NETWORK_ERROR_NO_NETWORK_INTERFACE.
InitConnNoInterface ==
    /\ mpc = "INITCONN"
    /\ netState' = "ERROR_REBOOT"
    /\ err' = 0
    /\ mpc' = "CHECK"
    /\ UNCHANGED <<toNetConnect, toNetDisconnect, disconnectType,
                   pelionRegistered, paused, clientVars, errReboot>>

\* Any other error: the only branch that looks at ToNetDisconnect.
InitConnOther ==
    /\ mpc = "INITCONN"
    /\ \/ /\ toNetDisconnect
          /\ err' = 0
          /\ mpc' = "CHECK"
          /\ UNCHANGED netState
       \/ /\ ~toNetDisconnect
          /\ err + 1 > ErrLimit
          /\ err' = 0
          /\ netState' = "ERROR"
          /\ mpc' = "CHECK"
       \/ /\ ~toNetDisconnect
          /\ err + 1 <= ErrLimit
          /\ err' = err + 1
          /\ UNCHANGED <<netState, mpc>>
    /\ UNCHANGED <<toNetConnect, toNetDisconnect, disconnectType,
                   pelionRegistered, paused, clientVars, errReboot>>

\* `if(!Main.ToNetDisconnect)` and the test of NetState that follows it.
MainCheck ==
    /\ mpc = "CHECK"
    /\ mpc' = IF ~toNetDisconnect /\ netState \notin ErrorStates
                THEN "SYNC" ELSE "CLEAR"
    /\ UNCHANGED <<controlVars, clientVars, err, errReboot>>

\* SyncRealTime() has returned (its error is ignored) and the second test of
\* ToNetDisconnect is made.
MainSync ==
    /\ mpc = "SYNC"
    /\ mpc' = IF ~toNetDisconnect THEN "SETCONN" ELSE "CLEAR"
    /\ UNCHANGED <<controlVars, clientVars, err, errReboot>>

MainSetConnected ==
    /\ mpc = "SETCONN"
    /\ netState' = "CONNECTED"
    /\ mpc' = "REGISTER"
    /\ UNCHANGED <<toNetConnect, toNetDisconnect, disconnectType,
                   pelionRegistered, paused, clientVars, err, errReboot>>

\* One second later: register with Pelion, or resume a paused client.
MainRegister ==
    /\ mpc = "REGISTER"
    /\ \/ /\ ~pelionRegistered \/ ~paused
          /\ register_and_connect
          /\ UNCHANGED paused
       \/ /\ pelionRegistered /\ paused
          /\ resume
          /\ paused' = FALSE
    /\ mpc' = "CLEAR"
    /\ UNCHANGED <<toNetConnect, toNetDisconnect, disconnectType, netState,
                   pelionRegistered, err, errReboot>>

\* `Main.ToNetConnect = false`, whatever happened and whoever set it since.
MainClear ==
    /\ mpc = "CLEAR"
    /\ toNetConnect' = FALSE
    /\ mpc' = "DISC"
    /\ UNCHANGED <<toNetDisconnect, disconnectType, netState,
                   pelionRegistered, paused, clientVars, err, errReboot>>

-----------------------------------------------------------------------------
(* The disconnect request.                                                 *)

MainDisconnect ==
    /\ mpc = "DISC"
    /\ \/ /\ toNetDisconnect
          /\ PauseResume /\ is_client_registered
          /\ pause
          /\ mpc' = "PAUSING"
       \/ /\ toNetDisconnect
          /\ ~(PauseResume /\ is_client_registered)
          /\ close
          /\ mpc' = "CLOSING"
       \/ /\ ~toNetDisconnect
          /\ mpc' = "TOP"
          /\ UNCHANGED clientVars
    /\ UNCHANGED <<controlVars, err, errReboot>>

\* Three seconds after pause().
MainPaused ==
    /\ mpc = "PAUSING"
    /\ paused' = TRUE
    /\ mpc' = "CLOSECONN"
    /\ UNCHANGED <<toNetConnect, toNetDisconnect, disconnectType, netState,
                   pelionRegistered, clientVars, err, errReboot>>

\* The wait for is_client_registered() to become false gives up after eleven
\* tries, so it may end whatever the client says.
MainClosed ==
    /\ mpc = "CLOSING"
    /\ pelionRegistered' = FALSE
    /\ mpc' = "CLOSECONN"
    /\ UNCHANGED <<toNetConnect, toNetDisconnect, disconnectType, netState,
                   paused, clientVars, err, errReboot>>

DisconnectedState(type) ==
    CASE type = "RAI" -> "RAIDISCONNECTED"
      [] type = "DETACH" -> "DETACHDISCONNECTED"
      [] OTHER -> "DISCONNECTED"

\* The network is closed; RAI or detach is sent.  NetState and the request
\* flag are written back to back, with no blocking call in between.
MainDisconnected ==
    /\ mpc = "CLOSECONN"
    /\ netState # "ERROR_REBOOT"
    /\ netState' = DisconnectedState(disconnectType)
    /\ toNetDisconnect' = FALSE
    /\ mpc' = "TOP"
    /\ UNCHANGED <<toNetConnect, disconnectType, pelionRegistered, paused,
                   clientVars, err, errReboot>>

\* CellularExt_HWReset_Reset() and OS_Reboot() (a restart of the device).
MainMustReboot == mpc = "CLOSECONN" /\ netState = "ERROR_REBOOT"

MainStep ==
    \/ MainTop
    \/ InitConnOk
    \/ InitConnTimeout
    \/ InitConnNoInterface
    \/ InitConnOther
    \/ MainCheck
    \/ MainSync
    \/ MainSetConnected
    \/ MainRegister
    \/ MainClear
    \/ MainDisconnect
    \/ MainPaused
    \/ MainClosed
    \/ MainDisconnected
=============================================================================
