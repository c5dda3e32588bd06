----------------------------- MODULE UploadCycle -----------------------------
(***************************************************************************)
(* What the node promises, without its threads, flags and timers: it       *)
(* sleeps, wakes up, goes online only over a link that is up, and sleeps   *)
(* again only once the link is down.  The link is never taken down under   *)
(* a node that is online.  Session implements this specification.          *)
(***************************************************************************)

VARIABLES
    phase,  \* what the application is doing
    link    \* the network is established

cycleVars == <<phase, link>>

Phases == {"asleep", "waking", "online", "leaving"}

CycleInit == phase = "asleep" /\ link = FALSE

Wake == phase = "asleep" /\ phase' = "waking" /\ UNCHANGED link

LinkUp == ~link /\ link' = TRUE /\ UNCHANGED phase

LinkDown == phase # "online" /\ link /\ link' = FALSE /\ UNCHANGED phase

GoOnline == phase = "waking" /\ link /\ phase' = "online" /\ UNCHANGED link

\* The backend took the registration of the device back.
StartOver == phase = "online" /\ phase' = "waking" /\ UNCHANGED link

Leave ==
    /\ phase \in {"waking", "online"}
    /\ phase' = "leaving"
    /\ UNCHANGED link

Sleep == phase = "leaving" /\ ~link /\ phase' = "asleep" /\ UNCHANGED link

PowerCycle == phase' = "asleep" /\ link' = FALSE

CycleNext ==
    \/ Wake
    \/ LinkUp
    \/ LinkDown
    \/ GoOnline
    \/ StartOver
    \/ Leave
    \/ Sleep
    \/ PowerCycle

CycleSpec == CycleInit /\ [][CycleNext]_cycleVars
=============================================================================
