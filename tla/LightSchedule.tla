---------------------------- MODULE LightSchedule ----------------------------
(***************************************************************************)
(* The light schedule: at the end of each iteration the application thread *)
(* compares the entries of the table with the clock, sets the lamp and     *)
(* waits half a minute after each match.  Time is counted in half minutes. *)
(* The table comes from flash; what happens to it in RAM is not stored.    *)
(***************************************************************************)
EXTENDS Integers

CONSTANTS
    Count,          \* LIGHT_SCHEDULE_COUNT_MAX
    Horizon,        \* bound on the time, in half minutes
    Calendar,       \* date and time of day at each half minute
    BaseYear,       \* SLC_DATETIME_BASE_YEAR
    ThresholdYear,  \* DATETIME_THRESHOLD_YEAR
    Any,            \* 255: a date field that is not compared
    Always,         \* 0xFF: a repeat counter that is not counted
    Dims,           \* dim levels
    DimDefault,     \* level of the lamp after a restart
    Tables          \* contents of the schedule file

Entries == 1 .. Count

DateTime == [Y : Nat, M : Nat, D : Nat, WD : Nat, h : Nat, m : Nat]

Entry == [enable : BOOLEAN, dim : Dims, repeat : 0 .. Always, at : DateTime]

ASSUME ScheduleAssumption ==
    /\ Count \in Nat \ {0}
    /\ Horizon \in Nat
    /\ Calendar \in [0 .. Horizon -> DateTime]
    /\ BaseYear \in Nat /\ ThresholdYear \in Nat /\ Any \in Nat
    /\ Always \in Nat \ {0}
    /\ 0 \in Dims /\ DimDefault \in Dims
    /\ Tables \subseteq [Entries -> Entry]

VARIABLES
    time,       \* now, in half minutes
    pos,        \* entry looked at next; 0: elsewhere in the iteration
    table,      \* SlcAppLightScheduleGroup
    file,       \* data/lightschedule
    given,      \* history: the table as the last restart found it
    dim,        \* level of the lamp, SlcAppLightDim and its backup
    uploadDim,  \* SlcApp.Trigger.UploadDim
    fired       \* history: matches of each entry since the restart

vars == <<time, pos, table, file, given, dim, uploadDim, fired>>

NoDate == [Y |-> 0, M |-> 0, D |-> 0, WD |-> 0, h |-> 0, m |-> 0]

-----------------------------------------------------------------------------
\* IF_REAL_RTC: the clock has been set.
IsReal(now) == now.Y > ThresholdYear

\* The fields in wild are not compared, those in same are equal.
Matches(at, now, wild, same) ==
    /\ \A f \in wild : at[f] = Any
    /\ \A f \in same : at[f] = now[f]

SlcApp_DateTimeMatch(at, now) ==
    /\ IsReal(now)
    /\ \/ /\ at.Y + BaseYear = now.Y                                \* exactly
          /\ Matches(at, now, {}, {"M", "D", "WD", "h", "m"})
       \/ Matches(at, now, {"Y"}, {"M", "D", "h", "m"})             \* yearly
       \/ Matches(at, now, {"Y", "M"}, {"D", "h", "m"})             \* monthly
       \/ Matches(at, now, {"Y", "M", "D"}, {"WD", "h", "m"})       \* weekly
       \/ Matches(at, now, {"Y", "M", "D", "WD"}, {"h", "m"})       \* daily
       \/ Matches(at, now, {"Y", "M", "D", "WD", "h"}, {"m"})       \* hourly

Due(i) == table[i].enable /\ SlcApp_DateTimeMatch(table[i].at, Calendar[time])

\* What a match leaves of an entry.
AfterMatch_NeverEnds(e) ==
    [e EXCEPT !.repeat = IF e.repeat = 0 THEN Always
                         ELSE IF e.repeat = Always THEN @ ELSE @ - 1]

AfterMatch(e) ==
    IF e.repeat = 0 THEN [e EXCEPT !.enable = FALSE, !.dim = 0, !.at = NoDate]
    ELSE IF e.repeat = Always THEN e
    ELSE [e EXCEPT !.repeat = @ - 1]

Following_Unbounded(i) == i + 1

Following(i) == IF i = Count THEN 0 ELSE i + 1

\* All zero, when the file is missing or cannot be read.
NoSchedule ==
    [i \in Entries |-> [enable |-> FALSE, dim |-> 0, repeat |-> 0, at |-> NoDate]]

Init ==
    /\ time = 0
    /\ pos = 0
    /\ file \in Tables
    /\ table \in {file, NoSchedule}
    /\ given = table
    /\ dim = DimDefault
    /\ uploadDim = FALSE
    /\ fired = [i \in Entries |-> 0]

\* The rest of the iteration; it may take no time to speak of, or minutes.
Elsewhere ==
    /\ pos = 0
    /\ pos' = 1
    /\ time' \in time .. Horizon
    /\ uploadDim' \in {uploadDim, FALSE}
    /\ UNCHANGED <<table, file, given, dim, fired>>

\* A match: the lamp is set, the entry counted, and the thread waits.
Match(i) ==
    /\ pos = i /\ Due(i) /\ time < Horizon
    /\ dim' = table[i].dim
    /\ uploadDim' = TRUE
    /\ table' = [table EXCEPT ![i] = AfterMatch(@)]
    /\ time' = time + 1
    /\ pos' = Following(i)
    /\ fired' = [fired EXCEPT ![i] = @ + 1]
    /\ UNCHANGED <<file, given>>

NoMatch(i) ==
    /\ pos = i /\ ~Due(i)
    /\ pos' = Following(i)
    /\ UNCHANGED <<time, table, file, given, dim, uploadDim, fired>>

\* A restart takes more than half a minute; the table is read again.
SlcApp_RestoreLightSchedule ==
    /\ time < Horizon
    /\ time' \in time + 1 .. Horizon
    /\ pos' = 0
    /\ table' \in {file, NoSchedule}
    /\ given' = table'
    /\ dim' = DimDefault
    /\ uploadDim' = FALSE
    /\ fired' = [i \in Entries |-> 0]
    /\ UNCHANGED file

Next ==
    \/ Elsewhere
    \/ \E i \in Entries : Match(i) \/ NoMatch(i)
    \/ SlcApp_RestoreLightSchedule

Spec == Init /\ [][Next]_vars

-----------------------------------------------------------------------------
TypeOK ==
    /\ time \in 0 .. Horizon
    /\ pos \in 0 .. Count
    /\ table \in [Entries -> Entry]
    /\ file \in Tables
    /\ given \in [Entries -> Entry]
    /\ dim \in Dims
    /\ uploadDim \in BOOLEAN
    /\ fired \in [Entries -> Nat]

(* "0: set dim when time match and disable, 1~0xFE: set dim when time      *)
(* match and repeat counter -1" (SlcApplication.h:239-240): between two    *)
(* restarts the matches of an entry and what is left of its counter add up *)
(* to what was configured; the counter never wraps round to 0xFF, which    *)
(* would mean for ever.  SlcApplication.cpp:2368-2397.                     *)
RepeatIsHonoured ==
    \A i \in Entries :
        given[i].enable /\ given[i].repeat # Always =>
            IF table[i].enable THEN fired[i] + table[i].repeat = given[i].repeat
                               ELSE fired[i] = given[i].repeat + 1
=============================================================================
