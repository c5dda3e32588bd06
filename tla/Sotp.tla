-------------------------------- MODULE Sotp --------------------------------
(***************************************************************************)
(* The small store in internal flash that keeps the root of trust, the     *)
(* random seed and the saved time of the Pelion client (sotp.c).  Two      *)
(* flash areas take turns: records are appended to the active one, and a   *)
(* garbage collection copies the latest record of every type to the other  *)
(* one, writes its master record last and erases the old one.  The device  *)
(* may lose power between any two steps.                                   *)
(*                                                                         *)
(* Offsets are counted in records, which all have the same length; record  *)
(* 0 of an area is its master record.  The CRC is taken to tell a record   *)
(* that was completely written from anything else.  Writes and erasures    *)
(* may fail for good, except when sotp_init erases or formats; reads       *)
(* succeed.  An item write that fails, the erasure of a collection or a    *)
(* collection of sotp_init leaves the store not `sound`: nothing is        *)
(* claimed of it after that.                                               *)
(***************************************************************************)
EXTENDS Integers, FiniteSetsExt

CONSTANTS
    Types,          \* types of items, numbered as in sotp_type_e
    Values,         \* contents of items
    Calls,          \* the arguments of sotp_set: a type and its contents
    Writers,        \* threads that call sotp_set
    Size,           \* records that fit in an area
    Versions,       \* versions count modulo this (65536 in the code)
    MaxVersion,     \* no item is set at this version or a later one
    MaxSwitches     \* no other garbage collection begins during a sotp_get
                    \* in which so many have switched the area

ASSUME SotpAssumption ==
    /\ Types \subseteq Nat /\ Types # {}
    /\ Calls \subseteq Types \X Values
    /\ Size \in Nat /\ Size >= 3
    /\ Versions \in Nat /\ Versions >= 2
    /\ MaxVersion \in Nat /\ MaxSwitches \in Nat
    /\ {"none", "init"} \cap Writers = {}

VARIABLES
    flash,      \* the records of both areas
    sound,      \* history: no failure has left the active area faulty
    boot,       \* where sotp_init is
    victim,     \* the area it is erasing
    active,     \* active_area
    version,    \* active_area_version
    free,       \* free_space_offset
    where,      \* offset_by_type, with the area of its high bit
    ctr,        \* write_lock: threads that hold it shared
    sem,        \* write_lock: the semaphore, free or held to be exclusive
    gc,         \* where sotp_garbage_collection is, and who called it
    busy,       \* the flash operation of boot or gc has begun
    gcFailed,   \* history: a garbage collection has failed since the start
    wpc, arg, slot, saved,   \* per writer: progress, argument, locals
    rd          \* the thread in sotp_get

ramVars == <<boot, victim, active, version, free, where>>
lockVars == <<ctr, sem>>
gcVars == <<gc, busy, gcFailed>>
writerVars == <<wpc, arg, slot, saved>>
vars == <<flash, sound, ramVars, lockVars, gcVars, writerVars, rd>>

Areas == {0, 1}
Slots == 0 .. Size - 1

\* Records: nothing, an operation that has begun, garbage, an item, a master
\* record (its value is the version).
Blank == [kind |-> "blank", type |-> 0, value |-> 0]
Torn == [kind |-> "torn", type |-> 0, value |-> 0]
Garbage == [kind |-> "garbage", type |-> 0, value |-> 0]
Item(t, v) == [kind |-> "item", type |-> t, value |-> v]
Master(n) == [kind |-> "master", type |-> 0, value |-> n]

Record == {Blank, Torn, Garbage} \cup {Item(t, v) : t \in Types, v \in Values}
             \cup {Master(n) : n \in 0 .. Versions - 1}

\* offset_by_type[type] = 0: not stored.
Nowhere == [area |-> 0, slot |-> 0]

Finished == {"NEW", "OK", "ERROR"}

-----------------------------------------------------------------------------
(* What a restart finds in the flash.                                      *)

AllBlank(a) == \A s \in Slots : flash[a][s] = Blank

HasMaster(a) == flash[a][0].kind = "master"

\* The records of an area up to the first that is not valid.
ValidPrefix(a) ==
    {s \in Slots \ {0} : \A r \in 1 .. s : flash[a][r].kind = "item"}

\* The latest valid record of a type.
Latest(a, t) ==
    LET found == {s \in ValidPrefix(a) : flash[a][s].type = t}
    IN  IF found = {} THEN Nowhere ELSE [area |-> a, slot |-> Max(found)]

\* With two valid areas the one with the higher version is taken.
Newer ==
    IF flash[0][0].value > flash[1][0].value \/ flash[0][0].value = 0
        THEN 0 ELSE 1

ActiveArea ==
    IF HasMaster(0) /\ HasMaster(1) THEN Newer
    ELSE IF HasMaster(1) THEN 1 ELSE 0

\* Something follows the valid records: a record was being written.
Faulty(a) == \E s \in Slots \ (ValidPrefix(a) \cup {0}) : flash[a][s] # Blank

-----------------------------------------------------------------------------
(* Flash operations: a record is torn from the first to the last byte; one *)
(* that is written over something else is garbage.                         *)

Begin(a, s) ==
    flash' = [flash EXCEPT ![a][s] = IF @ = Blank THEN Torn ELSE Garbage]

End(a, s, record) ==
    flash' = [flash EXCEPT ![a][s] = IF @ = Torn THEN record ELSE Garbage]

\* An erasure that is interrupted may leave the master record, or the items,
\* readable.
BeginErase(a) ==
    \E kept \in {{}, {0}, Slots \ {0}, Slots}, rest \in {Blank, Garbage} :
        flash' = [flash EXCEPT ![a] =
                    [s \in Slots |-> IF s \in kept THEN @[s] ELSE rest]]

EndErase(a) == flash' = [flash EXCEPT ![a] = [s \in Slots |-> Blank]]

-----------------------------------------------------------------------------
\* sotp_set returns; its locals are gone.
Finish(w, result) ==
    /\ wpc' = [wpc EXCEPT ![w] = result]
    /\ arg' = [arg EXCEPT ![w] = Blank]
    /\ slot' = [slot EXCEPT ![w] = 0]
    /\ saved' = [saved EXCEPT ![w] = 0]

NoGc == [pc |-> "OFF", by |-> "none", to |-> 0]
NoGet == [pc |-> "IDLE", type |-> 0, at |-> Nowhere, switches |-> 0]

Init ==
    /\ flash = [a \in Areas |-> [s \in Slots |-> Blank]]
    /\ sound = TRUE
    /\ boot = "SCAN" /\ victim = 0
    /\ active = 0 /\ version = 0 /\ free = 0
    /\ where = [t \in Types |-> Nowhere]
    /\ ctr = 0 /\ sem = "free"
    /\ gc = NoGc /\ busy = FALSE /\ gcFailed = FALSE
    /\ wpc = [w \in Writers |-> "NEW"]
    /\ arg = [w \in Writers |-> Blank]
    /\ slot = [w \in Writers |-> 0]
    /\ saved = [w \in Writers |-> 0]
    /\ rd = NoGet

\* Power is lost, at any time.
Restart ==
    /\ boot' = "SCAN" /\ victim' = 0
    /\ active' = 0 /\ version' = 0 /\ free' = 0
    /\ where' = [t \in Types |-> Nowhere]
    /\ ctr' = 0 /\ sem' = "free"
    /\ gc' = NoGc /\ busy' = FALSE /\ gcFailed' = FALSE
    /\ wpc' = [w \in Writers |-> "NEW"]
    /\ arg' = [w \in Writers |-> Blank]
    /\ slot' = [w \in Writers |-> 0]
    /\ saved' = [w \in Writers |-> 0]
    /\ rd' = NoGet
    /\ UNCHANGED <<flash, sound>>

-----------------------------------------------------------------------------
(* sotp_init.                                                              *)

\* A non-empty area without a valid master record is erased, and so is the
\* older of two valid areas.
BootErase ==
    /\ boot = "SCAN"
    /\ \E a \in Areas :
          /\ \/ ~AllBlank(a) /\ ~HasMaster(a)
             \/ HasMaster(0) /\ HasMaster(1) /\ a # ActiveArea
          /\ victim' = a
          /\ BeginErase(a)
    /\ boot' = "ERASING"
    /\ UNCHANGED <<sound, active, version, free, where, lockVars, gcVars,
                   writerVars, rd>>

BootErased ==
    /\ boot = "ERASING"
    /\ EndErase(victim)
    /\ boot' = "SCAN" /\ victim' = 0
    /\ UNCHANGED <<sound, active, version, free, where, lockVars,
                   gcVars, writerVars, rd>>

\* Two empty areas: the master record of area 0 is written with version 1
\* (active_area_version is left alone).
BootFresh ==
    /\ boot = "SCAN"
    /\ AllBlank(0) /\ AllBlank(1)
    /\ Begin(0, 0)
    /\ boot' = "FRESH"
    /\ UNCHANGED <<sound, victim, active, version, free, where, lockVars,
                   gcVars, writerVars, rd>>

BootFormatted ==
    /\ boot = "FRESH"
    /\ End(0, 0, Master(1))
    /\ active' = 0
    /\ free' = 1
    /\ boot' = "UP"
    /\ UNCHANGED <<sound, victim, version, where, lockVars, gcVars, writerVars,
                   rd>>

\* Mutant of BootTraverse: a faulty record at the end is taken for free space.
BootTraverse_NoGc ==
    LET a == ActiveArea
    IN  /\ boot = "SCAN"
        /\ \E b \in Areas : HasMaster(b) /\ AllBlank(1 - b)
        /\ active' = a
        /\ version' = flash[a][0].value
        /\ where' = [t \in Types |-> Latest(a, t)]
        /\ free' = 1 + Max(ValidPrefix(a) \cup {0})
        /\ boot' = "UP"
        /\ UNCHANGED <<flash, sound, victim, lockVars, busy, gcFailed,
                       writerVars, rd, gc>>

\* The records of the only valid area; a faulty one at the end calls for a
\* garbage collection.
BootTraverse ==
    LET a == ActiveArea
    IN  /\ boot = "SCAN"
        /\ \E b \in Areas : HasMaster(b) /\ AllBlank(1 - b)
        /\ active' = a
        /\ version' = flash[a][0].value
        /\ where' = [t \in Types |-> Latest(a, t)]
        /\ free' = 1 + Max(ValidPrefix(a) \cup {0})
        /\ \/ Faulty(a) /\ boot' = "GC"
              /\ gc' = [pc |-> "COPY", by |-> "init", to |-> 1]
           \/ ~Faulty(a) /\ boot' = "UP" /\ UNCHANGED gc
        /\ UNCHANGED <<flash, sound, victim, lockVars, busy, gcFailed,
                       writerVars, rd>>

Boot ==
    BootErase \/ BootErased \/ BootFresh \/ BootFormatted \/ BootTraverse

-----------------------------------------------------------------------------
(* sotp_garbage_collection, called by sotp_init or by a writer that holds  *)
(* the lock exclusively.                                                   *)

Other == 1 - active

\* The items whose record is still in the active area, and the next of them.
Remaining == {t \in Types : where[t].slot # 0 /\ where[t].area = active}

NextType == Min(Remaining)

\* Whoever called it goes on: sotp_init has finished, a writer releases the
\* lock and returns.
GcReturns(result) ==
    /\ gc' = NoGc
    /\ busy' = FALSE
    /\ boot' = "UP"
    /\ IF gc.by = "init"
         THEN UNCHANGED <<sem, writerVars>>
         ELSE sem' = "free" /\ Finish(gc.by, result)
    /\ UNCHANGED <<victim, ctr, rd>>

GcUnchanged ==
    UNCHANGED <<sound, boot, victim, lockVars, gcFailed, writerVars>>

\* The new item is written first.
GcItem ==
    /\ gc.pc = "ITEM"
    /\ \/ ~busy /\ Begin(Other, gc.to) /\ UNCHANGED <<gc, where>>
       \/ /\ busy
          /\ End(Other, gc.to, arg[gc.by])
          /\ where' = [where EXCEPT ![arg[gc.by].type] =
                          [area |-> Other, slot |-> gc.to]]
          /\ gc' = [gc EXCEPT !.pc = "COPY", !.to = @ + 1]
    /\ busy' = ~busy
    /\ GcUnchanged
    /\ UNCHANGED <<active, version, free, rd>>

\* Mutant of GcCopy: offset_by_type is updated before the record is copied.
GcCopy_WhereFirst ==
    /\ gc.pc = "COPY"
    /\ \/ /\ ~busy /\ Remaining # {} /\ gc.to + 1 < Size
          /\ Begin(Other, gc.to)
          /\ where' = [where EXCEPT ![NextType] =
                          [area |-> Other, slot |-> gc.to]]
          /\ UNCHANGED gc
       \/ /\ busy /\ flash[Other][gc.to] = Torn
          /\ \E t \in Types :
                /\ where[t] = [area |-> Other, slot |-> gc.to]
                /\ End(Other, gc.to,
                       flash[active][Latest(active, t).slot])
          /\ gc' = [gc EXCEPT !.to = @ + 1]
          /\ UNCHANGED where
    /\ busy' = ~busy
    /\ GcUnchanged
    /\ UNCHANGED <<active, version, free, rd>>

\* copy_record, for every type that has one.
GcCopy ==
    /\ gc.pc = "COPY" /\ Remaining # {}
    /\ \/ /\ ~busy /\ gc.to + 1 < Size
          /\ Begin(Other, gc.to)
          /\ UNCHANGED <<gc, where>>
       \/ /\ busy
          /\ End(Other, gc.to, flash[active][where[NextType].slot])
          /\ where' = [where EXCEPT ![NextType] =
                          [area |-> Other, slot |-> gc.to]]
          /\ gc' = [gc EXCEPT !.to = @ + 1]
    /\ busy' = ~busy
    /\ GcUnchanged
    /\ UNCHANGED <<active, version, free, rd>>

\* Mutant of GcMaster: the master record is written before the copies.
GcMaster_First ==
    /\ gc.pc = "COPY"
    /\ \/ ~busy /\ HasMaster(Other) /\ Remaining = {}
          /\ free' = gc.to
          /\ active' = Other
          /\ gc' = [gc EXCEPT !.pc = "ERASE"]
          /\ rd' = [rd EXCEPT !.switches = @ + 1]
          /\ UNCHANGED <<flash, version, busy>>
       \/ ~busy /\ ~HasMaster(Other)
          /\ version' = (version + 1) % Versions
          /\ flash' = [flash EXCEPT ![Other][0] =
                          Master((version + 1) % Versions)]
          /\ UNCHANGED <<gc, active, free, rd, busy>>
    /\ GcUnchanged
    /\ UNCHANGED where

\* The master record makes the new area valid; then it becomes the active one.
GcMaster ==
    /\ gc.pc = "COPY" /\ Remaining = {}
    /\ \/ /\ ~busy
          /\ version' = (version + 1) % Versions
          /\ Begin(Other, 0)
          /\ UNCHANGED <<gc, active, free, rd>>
       \/ /\ busy
          /\ End(Other, 0, Master(version))
          /\ free' = gc.to
          /\ active' = Other
          /\ gc' = [gc EXCEPT !.pc = "ERASE"]
          /\ rd' = IF rd.pc = "IDLE" THEN rd
                   ELSE [rd EXCEPT !.switches = @ + 1]
          /\ UNCHANGED version
    /\ busy' = ~busy
    /\ GcUnchanged
    /\ UNCHANGED where

\* The old area is erased.
GcErase ==
    /\ gc.pc = "ERASE" /\ ~busy
    /\ BeginErase(Other)
    /\ busy' = TRUE
    /\ GcUnchanged
    /\ UNCHANGED <<gc, where, active, version, free, rd>>

GcErased ==
    /\ gc.pc = "ERASE" /\ busy
    /\ EndErase(Other)
    /\ GcReturns("OK")
    /\ UNCHANGED <<sound, active, version, free, where, gcFailed>>

\* SOTP_FLASH_AREA_TOO_SMALL.
GcTooSmall ==
    /\ gc.pc = "COPY" /\ Remaining # {} /\ ~busy
    /\ gc.to + 1 >= Size
    /\ GcReturns("ERROR")
    /\ gcFailed' = TRUE
    /\ UNCHANGED <<flash, sound, active, version, free, where>>

\* A flash operation of the garbage collection fails.
GcFails ==
    /\ gc.pc # "OFF" /\ busy
    /\ sound' = (sound /\ gc.pc # "ERASE" /\ gc.by # "init")
    /\ GcReturns("ERROR")
    /\ gcFailed' = TRUE
    /\ UNCHANGED <<flash, active, version, free, where>>

Gc == GcItem \/ GcCopy \/ GcMaster \/ GcErase \/ GcErased \/ GcTooSmall

-----------------------------------------------------------------------------
(* sotp_set, by any of the writers.                                        *)

\* The call; it is not made at the bound on versions, or in a store of which
\* nothing is claimed.
Set(w, t, v) ==
    /\ boot = "UP" /\ wpc[w] \in Finished
    /\ sound /\ version < MaxVersion
    /\ wpc' = [wpc EXCEPT ![w] = "ENTER"]
    /\ arg' = [arg EXCEPT ![w] = Item(t, v)]
    /\ UNCHANGED <<flash, sound, ramVars, lockVars, gcVars, slot, saved, rd>>

\* The lock is taken shared and a place is reserved.  Who crosses the limit
\* of the area collects garbage, who is beyond it waits.
Reserve(w) ==
    /\ wpc[w] = "ENTER" /\ sem = "free"
    /\ free' = free + 1
    /\ slot' = [slot EXCEPT ![w] = free]
    /\ saved' = [saved EXCEPT ![w] = active]
    /\ \/ /\ free + 1 < Size
          /\ wpc' = [wpc EXCEPT ![w] = "WRITE"]
          /\ ctr' = ctr + 1
       \/ /\ free + 1 >= Size /\ free < Size
          /\ wpc' = [wpc EXCEPT ![w] = "PROMOTE"]
          /\ ctr' = ctr + 1
       \/ /\ free >= Size
          /\ wpc' = [wpc EXCEPT ![w] = "AWAIT"]
          /\ UNCHANGED ctr
    /\ UNCHANGED <<flash, sound, boot, victim, active, version, where, sem,
                   gcVars, arg, rd>>

\* sotp_sh_lock_promote: the semaphore, then the other holders.
Promote(w) ==
    /\ \/ /\ wpc[w] = "PROMOTE" /\ sem = "free"
          /\ sem' = "held"
          /\ wpc' = [wpc EXCEPT ![w] = "ALONE"]
          /\ UNCHANGED <<ctr, gc>>
       \/ /\ wpc[w] = "ALONE" /\ ctr = 1
          /\ rd.pc = "IDLE" \/ rd.switches < MaxSwitches
          /\ ctr' = 0
          /\ wpc' = [wpc EXCEPT ![w] = "GC"]
          /\ gc' = [pc |-> "ITEM", by |-> w, to |-> 1]
          /\ UNCHANGED sem
    /\ UNCHANGED <<flash, sound, ramVars, busy, gcFailed, arg, slot, saved, rd>>

\* write_record.
Write(w) ==
    /\ wpc[w] = "WRITE" /\ slot[w] \in Slots
    /\ Begin(active, slot[w])
    /\ wpc' = [wpc EXCEPT ![w] = "WRITING"]
    /\ UNCHANGED <<sound, ramVars, lockVars, gcVars, arg, slot, saved, rd>>

Written(w) ==
    /\ wpc[w] = "WRITING"
    /\ End(active, slot[w], arg[w])
    /\ where' = [where EXCEPT ![arg[w].type] =
                    [area |-> active, slot |-> slot[w]]]
    /\ wpc' = [wpc EXCEPT ![w] = "RETURN"]
    /\ UNCHANGED <<sound, boot, victim, active, version, free, lockVars, gcVars,
                   arg, slot, saved, rd>>

\* Mutant of Return: the lock is released twice.
Return_Twice(w) ==
    /\ wpc[w] = "RETURN"
    /\ ctr' = ctr - 2
    /\ Finish(w, "OK")
    /\ UNCHANGED <<flash, sound, ramVars, sem, gcVars, rd>>

Return(w) ==
    /\ wpc[w] = "RETURN"
    /\ ctr' = ctr - 1
    /\ Finish(w, "OK")
    /\ UNCHANGED <<flash, sound, ramVars, sem, gcVars, rd>>

\* Mutant of WriteFails: the error path keeps the lock.
WriteFails_KeepsLock(w) ==
    /\ wpc[w] = "WRITING"
    /\ UNCHANGED <<sound, ctr>>
    /\ Finish(w, "ERROR")
    /\ UNCHANGED <<flash, ramVars, sem, gcVars, rd>>

\* SOTP_WRITE_ERROR.
WriteFails(w) ==
    /\ wpc[w] = "WRITING"
    /\ sound' = FALSE
    /\ ctr' = ctr - 1
    /\ Finish(w, "ERROR")
    /\ UNCHANGED <<flash, ramVars, sem, gcVars, rd>>

Writer(w) ==
    \/ Reserve(w) \/ Promote(w) \/ Write(w) \/ Written(w) \/ Return(w)

-----------------------------------------------------------------------------
(* Several writers at a time, which the code means to allow if it is built *)
(* with SOTP_THREAD_SAFE (this repository's builds do not define it).      *)

\* The wait for the garbage collection of somebody else, under the shared
\* lock; while the area has not changed the lock is released again.
Await(w) ==
    /\ wpc[w] = "AWAIT" /\ sem = "free"
    /\ saved[w] # active
    /\ ctr' = ctr + 1
    /\ free' = free + 1
    /\ slot' = [slot EXCEPT ![w] = free + 1]
    /\ wpc' = [wpc EXCEPT ![w] = "PLACE"]
    /\ UNCHANGED <<flash, sound, boot, victim, active, version, where, sem,
                   gcVars, arg, saved, rd>>

\* `record_offset = new_free_space - free_space_offset`.
Place(w) ==
    /\ wpc[w] = "PLACE"
    /\ slot' = [slot EXCEPT ![w] = @ - free]
    /\ wpc' = [wpc EXCEPT ![w] = "WRITE"]
    /\ UNCHANGED <<flash, sound, ramVars, lockVars, gcVars, arg, saved, rd>>

\* There is no flash at that offset.
WriteOutside(w) ==
    /\ wpc[w] = "WRITE" /\ slot[w] \notin Slots
    /\ ctr' = ctr - 1
    /\ Finish(w, "ERROR")
    /\ UNCHANGED <<flash, sound, ramVars, sem, gcVars, rd>>

-----------------------------------------------------------------------------
(* sotp_get, which takes no lock.                                          *)

\* The offset is read ...
GetOffset(t) ==
    /\ boot = "UP" /\ rd.pc = "IDLE"
    /\ where[t] # Nowhere
    /\ rd' = [pc |-> "READ", type |-> t, at |-> where[t], switches |-> 0]
    /\ UNCHANGED <<flash, sound, ramVars, lockVars, gcVars, writerVars>>

\* ... then the record; whatever is valid is returned.
GetRecord ==
    /\ rd.pc = "READ"
    /\ LET found == flash[rd.at.area][rd.at.slot]
       IN  rd' = [rd EXCEPT !.pc =
                    IF found.kind \notin {"item", "master"} THEN "INVALID"
                    ELSE IF found.kind = "item" /\ found.type = rd.type
                      THEN "FOUND" ELSE "OTHER"]
    /\ UNCHANGED <<flash, sound, ramVars, lockVars, gcVars, writerVars>>

\* Mutant of GetAgain: the area is not compared with the active one.
GetAgain_Never ==
    /\ rd.pc = "INVALID"
    /\ rd' = [rd EXCEPT !.pc = "CORRUPT"]
    /\ UNCHANGED <<flash, sound, ramVars, lockVars, gcVars, writerVars>>

\* A record that is not valid is an error if its area is the active one, and
\* is looked up again otherwise.
GetAgain ==
    /\ rd.pc = "INVALID"
    /\ rd' = IF rd.at.area = active THEN [rd EXCEPT !.pc = "CORRUPT"]
             ELSE [rd EXCEPT !.pc = "READ", !.at = where[rd.type]]
    /\ UNCHANGED <<flash, sound, ramVars, lockVars, gcVars, writerVars>>

GetReturns ==
    /\ rd.pc \in {"FOUND", "OTHER", "CORRUPT"}
    /\ rd' = NoGet
    /\ UNCHANGED <<flash, sound, ramVars, lockVars, gcVars, writerVars>>

Reader == GetRecord \/ GetAgain \/ GetReturns

-----------------------------------------------------------------------------
Next ==
    \/ Restart
    \/ Boot
    \/ Gc \/ GcFails
    \/ \E w \in Writers :
          \/ \E call \in Calls : Set(w, call[1], call[2])
          \/ Writer(w)
          \/ WriteFails(w)
    \/ \E t \in Types : GetOffset(t)
    \/ Reader

\* Power may fail and calls may come at any time; a thread that is in sotp.c
\* goes on.  One thread at a time calls sotp_set.
Fairness ==
    /\ WF_vars(Boot) /\ WF_vars(Gc) /\ WF_vars(Reader)
    /\ \A w \in Writers : WF_vars(Writer(w) \/ WriteFails(w))

Spec == Init /\ [][Next]_vars /\ Fairness

\* Several writers at a time.
NextParallel ==
    Next \/ \E w \in Writers : Await(w) \/ Place(w) \/ WriteOutside(w)

SpecParallel == Init /\ [][NextParallel]_vars

-----------------------------------------------------------------------------
Pcs == Finished \cup {"ENTER", "WRITE", "WRITING", "RETURN", "PROMOTE",
                      "ALONE", "GC", "AWAIT", "PLACE"}

Places == [area : Areas, slot : Slots]

TypeOK ==
    /\ flash \in [Areas -> [Slots -> Record]]
    /\ sound \in BOOLEAN /\ busy \in BOOLEAN /\ gcFailed \in BOOLEAN
    /\ boot \in {"SCAN", "ERASING", "FRESH", "GC", "UP"}
    /\ {victim, active} \subseteq Areas
    /\ version \in 0 .. Versions - 1
    /\ free \in Nat /\ ctr \in Nat /\ sem \in {"free", "held"}
    /\ where \in [Types -> Places]
    /\ gc \in [pc : {"OFF", "ITEM", "COPY", "ERASE"},
               by : Writers \cup {"none", "init"}, to : 0 .. Size]
    /\ wpc \in [Writers -> Pcs]
    /\ arg \in [Writers -> Record]
    /\ slot \in [Writers -> Int] /\ saved \in [Writers -> Areas]
    /\ rd \in [pc : {"IDLE", "READ", "INVALID", "FOUND", "OTHER", "CORRUPT"},
               type : Types \cup {0}, at : Places, switches : Nat]

\* What a restart would find for every type: the value of its latest record
\* in the area that sotp_init would choose.
Recover ==
    [t \in Types |->
        LET at == Latest(ActiveArea, t)
        IN  IF at = Nowhere THEN "none" ELSE flash[at.area][at.slot].value]

\* How far a sotp_set is, as its caller may see it: the item is durable from
\* the end of its write, or from the master record of the collection.
Status(w) ==
    IF wpc[w] \in Finished THEN wpc[w]
    ELSE IF wpc[w] = "RETURN" \/ (wpc[w] = "GC" /\ gc.pc = "ERASE")
      THEN "DONE" ELSE "BUSY"

Store == INSTANCE SotpStore WITH
    items <- Recover,
    calls <- [w \in Writers |-> [status |-> Status(w), arg |-> arg[w]]]

\* sotp_set is atomic and durable, whenever the power fails: what a restart
\* finds for a type is its last acknowledged value, or that of a set that was
\* under way, and nothing else changes it - no garbage collection, failed
\* collection, interrupted erasure or start-up.
ImplementsStore == Store!Spec

\* A writer writes where nothing was written before: "an offset on which each
\* writer can work separately, without being interrupted by the other writer".
WritesGoToBlank ==
    \A w \in Writers :
        sound /\ wpc[w] = "WRITE" => /\ slot[w] \in Slots
                                     /\ flash[active][slot[w]] = Blank

\* sotp_get takes no lock; although a garbage collection may move the record
\* and erase the area under it, it returns a record of the type asked for and
\* never SOTP_DATA_CORRUPT (at most MaxSwitches collections end meanwhile).
GetFindsItem == sound => rd.pc \notin {"OTHER", "CORRUPT"}

\* sotp_get ends: the record it looks up again and again is found, whatever
\* became of the garbage collection that moved it.
GetEnds == rd.pc # "IDLE" ~> rd.pc = "IDLE"

\* sotp_set ends, unless a garbage collection failed: then nobody else moves
\* the area on and the next writer waits for ever.
SetEnds ==
    \A w \in Writers :
        wpc[w] \notin Finished ~> wpc[w] \in Finished \/ gcFailed
=============================================================================
