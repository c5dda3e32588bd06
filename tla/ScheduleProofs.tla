---------------------------- MODULE ScheduleProofs ----------------------------
(***************************************************************************)
(* For any table, calendar and horizon: the repeat counters are honoured   *)
(* between two restarts.                                                   *)
(***************************************************************************)
EXTENDS LightSchedule, TLAPS

\* An enabled entry whose counter runs was given enabled and counting.
CountsFromGiven ==
    \A i \in Entries :
        /\ table[i].enable => given[i].enable
        /\ given[i].repeat = Always => table[i].repeat = Always

ScheduleInv ==
    /\ TypeOK
    /\ CountsFromGiven
    /\ RepeatIsHonoured

-----------------------------------------------------------------------------
(* A table that is all zero is a table.                                    *)
LEMMA NoScheduleType == NoSchedule \in [Entries -> Entry]
<1>1. NoDate \in DateTime
  BY DEF NoDate, DateTime
<1>. QED
  BY <1>1, ScheduleAssumption DEF NoSchedule, Entry

(* What a match leaves of an entry is an entry; its counter goes down, or  *)
(* it is switched off.                                                     *)
LEMMA AfterMatchType ==
    ASSUME NEW e \in Entry
    PROVE  /\ AfterMatch(e) \in Entry
           /\ e.repeat = 0 => ~AfterMatch(e).enable
           /\ e.repeat # 0 => AfterMatch(e).enable = e.enable
           /\ e.repeat = Always => AfterMatch(e).repeat = Always
           /\ e.repeat # 0 /\ e.repeat # Always =>
                  AfterMatch(e).repeat = e.repeat - 1
<1>1. NoDate \in DateTime
  BY DEF NoDate, DateTime
<1>2. CASE e.repeat = 0
  <2>1. AfterMatch(e) = [e EXCEPT !.enable = FALSE, !.dim = 0, !.at = NoDate]
    BY <1>2 DEF AfterMatch
  <2>. QED
    BY <1>1, <1>2, <2>1, ScheduleAssumption DEF Entry
<1>3. CASE e.repeat = Always
  BY <1>3, ScheduleAssumption DEF AfterMatch, Entry
<1>4. CASE e.repeat # 0 /\ e.repeat # Always
  <2>1. AfterMatch(e) = [e EXCEPT !.repeat = @ - 1]
    BY <1>4 DEF AfterMatch
  <2>. QED
    BY <1>4, <2>1, ScheduleAssumption DEF Entry
<1>. QED
  BY <1>2, <1>3, <1>4

-----------------------------------------------------------------------------
LEMMA InitInv == Init => ScheduleInv
<1>. SUFFICES ASSUME Init PROVE ScheduleInv
  OBVIOUS
<1>1. TypeOK
  <2>1. table \in [Entries -> Entry] /\ given \in [Entries -> Entry] /\ file \in Tables
    BY NoScheduleType, ScheduleAssumption DEF Init
  <2>2. time \in 0 .. Horizon /\ pos \in 0 .. Count /\ dim \in Dims
    BY ScheduleAssumption DEF Init
  <2>3. /\ fired \in [Entries -> Nat]
        /\ uploadDim \in BOOLEAN
    BY DEF Init
  <2>. QED
    BY <2>1, <2>2, <2>3 DEF TypeOK
<1>2. CountsFromGiven /\ RepeatIsHonoured
  BY <1>1, ScheduleAssumption
  DEF Init, TypeOK, CountsFromGiven, RepeatIsHonoured, Entry
<1>. QED
  BY <1>1, <1>2 DEF ScheduleInv

(* The rest of the iteration: only time passes.                            *)
LEMMA ElsewhereInv == ScheduleInv /\ Elsewhere => ScheduleInv'
<1>. SUFFICES ASSUME ScheduleInv, Elsewhere PROVE ScheduleInv'
  OBVIOUS
<1>. USE DEF ScheduleInv, Elsewhere
<1>1. TypeOK'
  <2>1. time' \in 0 .. Horizon /\ pos' \in 0 .. Count
    BY ScheduleAssumption DEF TypeOK
  <2>2. uploadDim' \in BOOLEAN
    BY Zenon DEF TypeOK
  <2>. QED
    BY <2>1, <2>2 DEF TypeOK
<1>2. CountsFromGiven' /\ RepeatIsHonoured'
  BY DEF CountsFromGiven, RepeatIsHonoured
<1>. QED
  BY <1>1, <1>2

(* A match, with the half minute the thread waits after it.                *)
LEMMA MatchInv ==
    ASSUME NEW i \in Entries PROVE ScheduleInv /\ Match(i) => ScheduleInv'
<1>. SUFFICES ASSUME ScheduleInv, Match(i) PROVE ScheduleInv'
  OBVIOUS
<1>. USE DEF ScheduleInv
<1>0. /\ table[i] \in Entry /\ table[i].enable /\ table[i].dim \in Dims
      /\ time \in Nat /\ time < Horizon /\ time' = time + 1 /\ time' \in Nat
  BY ScheduleAssumption DEF TypeOK, Match, Due, Entry
<1>1. /\ table' = [table EXCEPT ![i] = AfterMatch(table[i])]
      /\ fired' = [fired EXCEPT ![i] = fired[i] + 1]
      /\ given' = given
  BY DEF Match
<1>2. TypeOK'
  <2>1. table' \in [Entries -> Entry]
    BY <1>0, <1>1, AfterMatchType DEF TypeOK
  <2>2. pos' \in 0 .. Count
    BY ScheduleAssumption DEF Match, Following, Entries
  <2>3. fired' \in [Entries -> Nat]
    BY DEF Match, TypeOK
  <2>4. time' \in 0 .. Horizon
    BY <1>0, ScheduleAssumption
  <2>. QED
    BY <1>0, <2>1, <2>2, <2>3, <2>4 DEF TypeOK, Match
<1>3. CountsFromGiven'
  BY <1>0, <1>1, AfterMatchType DEF CountsFromGiven, TypeOK
<1>4. RepeatIsHonoured'
  <2>1. SUFFICES ASSUME NEW j \in Entries, given[j].enable, given[j].repeat # Always
                 PROVE  IF table'[j].enable
                          THEN fired'[j] + table'[j].repeat = given[j].repeat
                          ELSE fired'[j] = given[j].repeat + 1
    BY <1>1, <2>1 DEF RepeatIsHonoured
  <2>2. CASE j # i
    BY <1>1, <2>1, <2>2 DEF RepeatIsHonoured, TypeOK
  <2>3. CASE j = i
    <3>1. fired[i] + table[i].repeat = given[i].repeat
      BY <1>0, <2>1, <2>3 DEF RepeatIsHonoured
    <3>2. /\ table'[i] = AfterMatch(table[i]) /\ fired'[i] = fired[i] + 1
          /\ fired[i] \in Nat /\ table[i].repeat \in 0 .. Always
          /\ given[i].repeat \in 0 .. Always
      BY <1>0, <1>1 DEF TypeOK, Entry
    <3>3. table[i].repeat # Always
      BY <2>1, <2>3, <3>1, <3>2, ScheduleAssumption
    <3>4. /\ table[i].repeat = 0 => ~table'[i].enable
          /\ table[i].repeat # 0 => /\ table'[i].enable
                                    /\ table'[i].repeat = table[i].repeat - 1
      BY <1>0, <3>2, <3>3, AfterMatchType
    <3>. QED
      BY <2>3, <3>1, <3>2, <3>4, ScheduleAssumption
  <2>. QED
    BY <2>2, <2>3
<1>. QED
  BY <1>2, <1>3, <1>4

LEMMA NoMatchInv ==
    ASSUME NEW i \in Entries PROVE ScheduleInv /\ NoMatch(i) => ScheduleInv'
<1>. SUFFICES ASSUME ScheduleInv, NoMatch(i) PROVE ScheduleInv'
  OBVIOUS
<1>1. TypeOK'
  BY ScheduleAssumption DEF ScheduleInv, NoMatch, TypeOK, Following, Entries
<1>. QED
  BY <1>1 DEF ScheduleInv, NoMatch, CountsFromGiven, RepeatIsHonoured

(* A restart: the table of the file or none, and time has passed.          *)
LEMMA RestoreInv == ScheduleInv /\ SlcApp_RestoreLightSchedule => ScheduleInv'
<1>. SUFFICES ASSUME ScheduleInv, SlcApp_RestoreLightSchedule PROVE ScheduleInv'
  OBVIOUS
<1>. USE DEF ScheduleInv, SlcApp_RestoreLightSchedule
<1>1. TypeOK'
  <2>1. table' \in [Entries -> Entry] /\ given' \in [Entries -> Entry]
    BY NoScheduleType, ScheduleAssumption DEF TypeOK
  <2>2. time' \in 0 .. Horizon /\ pos' \in 0 .. Count /\ dim' \in Dims
    BY ScheduleAssumption DEF TypeOK
  <2>3. fired' \in [Entries -> Nat] /\ uploadDim' \in BOOLEAN
    OBVIOUS
  <2>. QED
    BY <2>1, <2>2, <2>3 DEF TypeOK
<1>2. CountsFromGiven' /\ RepeatIsHonoured'
  BY <1>1, ScheduleAssumption DEF TypeOK, CountsFromGiven, RepeatIsHonoured, Entry
<1>. QED
  BY <1>1, <1>2

-----------------------------------------------------------------------------
(* ScheduleInv is an invariant of the schedule loop                        *)
(* (SlcApplication.cpp:2368-2397) and of restarts.                         *)
THEOREM ScheduleInvariant == Spec => []ScheduleInv
<1>1. ScheduleInv /\ [Next]_vars => ScheduleInv'
  <2>. SUFFICES ASSUME ScheduleInv, [Next]_vars PROVE ScheduleInv'
    OBVIOUS
  <2>1. CASE Next
    BY <2>1, ElsewhereInv, MatchInv, NoMatchInv, RestoreInv DEF Next
  <2>2. CASE UNCHANGED vars
    BY <2>2 DEF vars, ScheduleInv, TypeOK, CountsFromGiven, RepeatIsHonoured
  <2>. QED
    BY <2>1, <2>2
<1>. QED
  BY InitInv, <1>1, PTL DEF Spec

(* Types: an entry's counter never leaves 0 .. 0xFF.                       *)
THEOREM ScheduleTypeCorrect == Spec => []TypeOK
BY ScheduleInvariant, PTL DEF ScheduleInv

(* The counters of all entries are honoured between two restarts           *)
(* (SlcApplication.cpp:2382-2393).                                         *)
THEOREM RepeatHonoured == Spec => []RepeatIsHonoured
BY ScheduleInvariant, PTL DEF ScheduleInv
=============================================================================
