------------------------------ MODULE MCSession ------------------------------
(* Session for TLC: the configurations the server may write in each run.   *)
EXTENDS Session

\* keep_online = 0, as in the configuration the node is shipped with.
Offline == [node_registered |-> TRUE, keep_online |-> FALSE,
            keep_online_time |-> 1, disconnect_type |-> "DETACH",
            reg_watchdog |-> 1, data_enable |-> TRUE, status_time |-> 1]

KeepOnline == [Offline EXCEPT !.keep_online = TRUE]

\* One configuration; keep_online on and off; periods of the status upload,
\* among them zero, and the data upload on and off.
OneConfig == {Offline}
KeepConfigs == {Offline, KeepOnline}
StatusConfigs == {Offline, [Offline EXCEPT !.status_time = 0,
                                           !.data_enable = FALSE]}
=============================================================================
