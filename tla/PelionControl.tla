---------------------------- MODULE PelionControl ----------------------------
(***************************************************************************)
(* The part of the `Main` structure of main_slc.cpp through which the      *)
(* application thread and the main (network) thread talk to each other.    *)
(* The application thread sets the two request flags, the main thread      *)
(* clears them and publishes its progress in NetState, PelionRegistered    *)
(* and Paused.  There is no lock and no queue: every field is a plain      *)
(* variable polled by both sides.                                          *)
(***************************************************************************)

CONSTANTS
    PauseResume,            \* _MBEDCLOUDCLIENT_PAUSERESUME is defined
    DefaultDisconnectType   \* DEFAULT_DISCONNECT_TYPE

VARIABLES
    toNetConnect,       \* Main.ToNetConnect     set by the application
    toNetDisconnect,    \* Main.ToNetDisconnect  set by the application
    disconnectType,     \* Main.DisconnectType   how to leave the network
    netState,           \* Main.NetState         written by the main thread
    pelionRegistered,   \* Main.PelionRegistered
    paused              \* Main.Paused

controlVars == <<toNetConnect, toNetDisconnect, disconnectType, netState,
                 pelionRegistered, paused>>

\* _DisconnectType
DisconnectTypes == {"JUSTNETWORK", "RAI", "DETACH"}

\* The three values of _NetState that mean "off the network".
DisconnectedStates == {"DISCONNECTED", "RAIDISCONNECTED",
                       "DETACHDISCONNECTED"}

ASSUME ControlAssumption ==
    /\ PauseResume \in BOOLEAN
    /\ DefaultDisconnectType \in DisconnectTypes

ErrorStates == {"ERROR", "ERROR_REBOOT"}

\* _NetState
NetStates == DisconnectedStates \cup ErrorStates
                \cup {"CONNECTING", "CONNECTED"}

ControlTypeOK ==
    /\ toNetConnect \in BOOLEAN
    /\ toNetDisconnect \in BOOLEAN
    /\ disconnectType \in DisconnectTypes
    /\ netState \in NetStates
    /\ pelionRegistered \in BOOLEAN
    /\ paused \in BOOLEAN

\* The values main() gives the fields before it starts the threads.
ControlInit ==
    /\ toNetConnect = FALSE
    /\ toNetDisconnect = FALSE
    /\ disconnectType = DefaultDisconnectType
    /\ netState = "DISCONNECTED"
    /\ pelionRegistered = FALSE
    /\ paused = FALSE

\* The same assignments, as part of a restart of the device.
ControlReset ==
    /\ toNetConnect' = FALSE
    /\ toNetDisconnect' = FALSE
    /\ disconnectType' = DefaultDisconnectType
    /\ netState' = "DISCONNECTED"
    /\ pelionRegistered' = FALSE
    /\ paused' = FALSE

-----------------------------------------------------------------------------
(* The interface functions called by the application thread.               *)

Pelion_ToRestart == toNetConnect' = TRUE

Pelion_ToDeregister(type) ==
    /\ disconnectType' = type
    /\ toNetDisconnect' = TRUE

Pelion_IsRegistered == pelionRegistered

Pelion_IsPaused == paused

Network_GetState == netState
=============================================================================
