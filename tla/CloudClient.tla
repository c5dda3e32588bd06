----------------------------- MODULE CloudClient -----------------------------
(***************************************************************************)
(* SimpleM2MClient (source/simplem2mclient.h), the wrapper around the      *)
(* Pelion client library, as seen by main_slc.cpp.  register_and_connect,  *)
(* resume, pause and close start an operation; the library answers later,  *)
(* from its own event thread, through client_registered,                   *)
(* client_registration_updated, client_unregistered or error.              *)
(*                                                                         *)
(* client_registered is two steps, because the code sets _registered and   *)
(* only some printf calls later runs registered_callback, which sets       *)
(* Main.PelionRegistered: the main thread can run in between.              *)
(***************************************************************************)
EXTENDS PelionControl

VARIABLES
    registered,     \* SimpleM2MClient::_registered
    pending,        \* operations the library has not answered
    notifying,      \* client_registered is between its two writes
    rebooting       \* the event thread is inside OS_Reboot()

clientVars == <<registered, pending, notifying, rebooting>>

ClientTypeOK ==
    /\ registered \in BOOLEAN
    /\ pending \in SUBSET {"register", "close"}
    /\ notifying \in BOOLEAN
    /\ rebooting \in BOOLEAN

ClientInit ==
    /\ registered = FALSE
    /\ pending = {}
    /\ notifying = FALSE
    /\ rebooting = FALSE

ClientReset ==
    /\ registered' = FALSE
    /\ pending' = {}
    /\ notifying' = FALSE
    /\ rebooting' = FALSE

is_client_registered == registered

-----------------------------------------------------------------------------
(* Calls made by the main thread.                                          *)

register_and_connect ==
    /\ pending' = pending \cup {"register"}
    /\ UNCHANGED <<registered, notifying, rebooting>>

\* A resumed client updates its registration or registers again.
resume ==
    /\ pending' = pending \cup {"register"}
    /\ UNCHANGED <<registered, notifying, rebooting>>

pause ==
    /\ pending' = pending \ {"register"}
    /\ UNCHANGED <<registered, notifying, rebooting>>

\* close() does not recall an answer that is already on its way.
close ==
    /\ pending' = pending \cup {"close"}
    /\ UNCHANGED <<registered, notifying, rebooting>>

-----------------------------------------------------------------------------
(* Callbacks, all on the event thread of the library, one at a time.  An   *)
(* answer of the server needs the network.                                 *)

EventThreadFree == ~notifying /\ ~rebooting

client_registered ==
    /\ EventThreadFree
    /\ "register" \in pending
    /\ Network_GetState = "CONNECTED"
    /\ registered' = TRUE
    /\ notifying' = TRUE
    /\ pending' = pending \ {"register"}
    /\ UNCHANGED <<rebooting, controlVars>>

registered_callback ==
    /\ notifying
    /\ notifying' = FALSE
    /\ pelionRegistered' = TRUE
    /\ UNCHANGED <<registered, pending, rebooting, toNetConnect,
                   toNetDisconnect, disconnectType, netState, paused>>

client_registration_updated ==
    /\ EventThreadFree
    /\ "register" \in pending
    /\ registered
    /\ Network_GetState = "CONNECTED"
    /\ pending' = pending \ {"register"}
    /\ UNCHANGED <<registered, notifying, rebooting, controlVars>>

client_unregistered ==
    /\ EventThreadFree
    /\ "close" \in pending
    /\ registered' = FALSE
    /\ pending' = {}
    /\ UNCHANGED <<notifying, rebooting, controlVars>>

\* An operation fails: the handler only prints the error.
error ==
    /\ EventThreadFree
    /\ \E op \in pending : pending' = pending \ {op}
    /\ UNCHANGED <<registered, notifying, rebooting, controlVars>>

\* A callback calls OS_Reboot(), which takes seconds before the reset.
StartReboot ==
    /\ EventThreadFree
    /\ rebooting' = TRUE
    /\ UNCHANGED <<registered, pending, notifying, controlVars>>

ClientEvent ==
    \/ client_registered
    \/ registered_callback
    \/ client_registration_updated
    \/ client_unregistered
    \/ error
=============================================================================
