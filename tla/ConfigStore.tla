----------------------------- MODULE ConfigStore -----------------------------
(***************************************************************************)
(* The configuration of the node and its copy in flash.                    *)
(*                                                                         *)
(* The event thread changes the configuration in RAM and stores it through *)
(* DataStore_WriteFile.  The application thread uses the same file system  *)
(* for its upload time stamp and brings the backup up to date.  A write is *)
(* mount, open, write, close, unmount, and no lock keeps the two threads   *)
(* apart.  A restart reads the configuration back.                         *)
(***************************************************************************)
EXTENDS Integers

CONSTANTS
    Fields,         \* fields of the configuration with an update function
    Periods,        \* those that are upload periods: they have a minimum
    MinPeriod,      \* CYCLE_UPLOAD_TIME_MIN_SEC
    Modulus,        \* 2^w for a field of w bits
    Versions,       \* versions a configuration may carry
    DefaultConfig,  \* what SlcApp_ResetConfig assigns
    NewConfigs,     \* whole configurations the server writes
    Inputs,         \* values the server writes to a field
    Requests,       \* kinds of requests the server makes
    AppWork,        \* what the application thread does to the shared state
    MediaFaults,    \* TRUE if flash operations may fail
    NoFile          \* the file does not exist

\* Each field holds a value of its width.
FieldValues ==
    {g \in [Fields -> Nat] : \A f \in Fields : g[f] < Modulus[f]}

Config == [version : Versions,
           store_node_registered : BOOLEAN,
           node_registered : BOOLEAN,
           field : FieldValues]

ASSUME StoreAssumption ==
    /\ Periods \subseteq Fields
    /\ MinPeriod \in Nat
    /\ Modulus \in [Fields -> Nat \ {0}]
    /\ \A f \in Periods : MinPeriod < Modulus[f]
    /\ DefaultConfig \in Config
    /\ NewConfigs \subseteq Config
    /\ Inputs \subseteq Nat
    /\ Requests \subseteq {"NodeRegister", "Config", "Field", "FactoryReset"}
    /\ AppWork \subseteq {"ReadyToStandby", "Standby"}
    /\ MediaFaults \in BOOLEAN
    /\ NoFile \notin Config

VARIABLES
    config,     \* SlcAppConfig
    backup,     \* SlcAppConfigBackup
    file,       \* contents of data/sysconfig
    mounted,    \* the file system is mounted
    pc,         \* per thread: the next step of its handler or write
    excused     \* history: why RAM and flash may differ since the last write

vars == <<config, backup, file, mounted, pc, excused>>

Threads == {"event", "app"}

Writing == {"mount", "open", "write", "close", "unmount"}

Tests == {"testRegister", "testConfig"}

Excuses == {"fault", "config", "race", "boot"}

-----------------------------------------------------------------------------
\* An operation of the flash may fail.
Outcome == IF MediaFaults THEN BOOLEAN ELSE {TRUE}

\* Periods below the minimum count as the minimum.
LimitPeriods(c) ==
    [c EXCEPT !.field =
        [f \in Fields |-> IF f \in Periods /\ c.field[f] < MinPeriod
                          THEN MinPeriod ELSE c.field[f]]]

Goto(t, label) == pc' = [pc EXCEPT ![t] = label]

\* SlcApp_Init: DataStore_Init formats the flash when it cannot be mounted,
\* SlcApp_RestoreConfig reads the file or, if that fails or the version has
\* changed, SlcApp_ResetConfig writes the defaults.
Acceptable(onFlash, readOk) ==
    readOk /\ onFlash # NoFile /\ onFlash.version = DefaultConfig.version

SlcApp_RestoreConfig_Unregister(onFlash, readOk) ==
    /\ Acceptable(onFlash, readOk)
    /\ backup' = onFlash
    /\ config' = [onFlash EXCEPT !.node_registered = FALSE]
    /\ file' = onFlash
    /\ excused' = IF config' = onFlash THEN {} ELSE {"boot"}

SlcApp_RestoreConfig(onFlash, readOk) ==
    /\ Acceptable(onFlash, readOk)
    /\ backup' = onFlash
    /\ config' = [onFlash EXCEPT !.node_registered =
                     onFlash.node_registered /\ onFlash.store_node_registered]
    /\ file' = onFlash
    /\ excused' = IF config' = onFlash THEN {} ELSE {"boot"}

RestoreDefaults(onFlash, readOk, writeOk) ==
    /\ ~Acceptable(onFlash, readOk)
    /\ config' = DefaultConfig
    /\ backup' = DefaultConfig
    /\ file' = IF writeOk THEN DefaultConfig ELSE onFlash
    /\ excused' = IF writeOk THEN {} ELSE {"fault"}

Boot(onFlash, readOk, writeOk) ==
    /\ mounted' = FALSE
    /\ pc' = [t \in Threads |-> "idle"]
    /\ \/ SlcApp_RestoreConfig(onFlash, readOk)
       \/ RestoreDefaults(onFlash, readOk, writeOk)

\* The first start of a node: nothing on its flash.
Init ==
    /\ config = DefaultConfig
    /\ backup = DefaultConfig
    /\ mounted = FALSE
    /\ pc = [t \in Threads |-> "idle"]
    /\ \E writeOk \in Outcome :
          /\ file = IF writeOk THEN DefaultConfig ELSE NoFile
          /\ excused = IF writeOk THEN {} ELSE {"fault"}

\* A watchdog, a reboot request or a power failure, at any moment.
Restart ==
    \E mountOk, readOk, writeOk \in Outcome :
        Boot(IF mountOk THEN file ELSE NoFile, readOk, writeOk)

-----------------------------------------------------------------------------
(* The event thread.                                                       *)

EventIdle == pc["event"] = "idle"

SlcApp_Update_NodeRegister(value) ==
    /\ EventIdle /\ "NodeRegister" \in Requests
    /\ backup' = [backup EXCEPT !.node_registered = config.node_registered]
    /\ config' = [config EXCEPT !.node_registered = value]
    /\ Goto("event", "testRegister")
    /\ UNCHANGED <<file, mounted, excused>>

StoreRegister_OnlyRegistered ==
    /\ pc["event"] = "testRegister"
    /\ Goto("event", IF config.node_registered /\ ~backup.node_registered
                     THEN "mount" ELSE "idle")
    /\ UNCHANGED <<config, backup, file, mounted, excused>>

\* The comparison with the backup, after the debug output.
StoreRegister ==
    /\ pc["event"] = "testRegister"
    /\ Goto("event", IF config.node_registered # backup.node_registered
                     THEN "mount" ELSE "idle")
    /\ UNCHANGED <<config, backup, file, mounted, excused>>

SlcApp_Update_Config(new) ==
    /\ EventIdle /\ "Config" \in Requests
    /\ backup' = config
    /\ config' = LimitPeriods(new)
    /\ Goto("event", "testConfig")
    /\ excused' = IF config' = config THEN excused
                  ELSE excused \cup {"config"}
    /\ UNCHANGED <<file, mounted>>

\* memcmp returns zero for equal buffers.
StoreConfig ==
    /\ pc["event"] = "testConfig"
    /\ Goto("event", IF config = backup THEN "mount" ELSE "idle")
    /\ UNCHANGED <<config, backup, file, mounted, excused>>

SlcApp_Update_Config_Field_TooWide(f, value) ==
    /\ EventIdle /\ "Field" \in Requests
    /\ value # config.field[f]
    /\ config' = [config EXCEPT !.field[f] = value]
    /\ Goto("event", "mount")
    /\ UNCHANGED <<backup, file, mounted, excused>>

\* The ten SlcApp_Update_Config_* functions.  The limit is applied to the
\* value before the update.
SlcApp_Update_Config_Field(f, value) ==
    LET limited == IF f \in Periods /\ config.field[f] < MinPeriod
                   THEN [config EXCEPT !.field[f] = MinPeriod] ELSE config
    IN  /\ EventIdle /\ "Field" \in Requests
        /\ \/ /\ value # limited.field[f]
              /\ config' = [limited EXCEPT !.field[f] = value % Modulus[f]]
              /\ Goto("event", "mount")
           \/ /\ value = limited.field[f]
              /\ config' = limited
              /\ UNCHANGED pc
        /\ UNCHANGED <<backup, file, mounted, excused>>

SlcApp_ResetConfig ==
    /\ EventIdle /\ "FactoryReset" \in Requests
    /\ config' = DefaultConfig
    /\ backup' = DefaultConfig
    /\ Goto("event", "mount")
    /\ UNCHANGED <<file, mounted, excused>>

-----------------------------------------------------------------------------
(* The application thread.                                                 *)

AppIdle == pc["app"] = "idle"

\* The end of READY_TO_STANDBY: backup of node_registered, time stamp file.
ReadyToStandby ==
    /\ AppIdle /\ "ReadyToStandby" \in AppWork
    /\ backup' = [backup EXCEPT !.node_registered = config.node_registered]
    /\ Goto("app", "mount")
    /\ excused' = IF pc["event"] = "testRegister" /\ backup' # backup
                  THEN excused \cup {"race"} ELSE excused
    /\ UNCHANGED <<config, file, mounted>>

\* STANDBY acts upon the changed fields and copies them to the backup.
Standby ==
    /\ AppIdle /\ "Standby" \in AppWork
    /\ backup' = [backup EXCEPT !.field = config.field,
                                !.node_registered =
                                    config.node_registered /\ @]
    /\ excused' = IF /\ pc["event"] = "testRegister"
                     /\ backup'.node_registered # backup.node_registered
                  THEN excused \cup {"race"} ELSE excused
    /\ UNCHANGED <<config, file, mounted, pc>>

-----------------------------------------------------------------------------
(* DataStore_WriteFile, by either thread.  Every operation on a file       *)
(* system that is not mounted fails.                                       *)

\* A write of the configuration that fails leaves RAM and flash different.
Fails(t) == excused' = IF t = "event" THEN excused \cup {"fault"} ELSE excused

Mount(t) ==
    /\ pc[t] = "mount"
    /\ \/ /\ mounted' = TRUE
          /\ Goto(t, "open")
          /\ UNCHANGED excused
       \/ /\ FALSE \in Outcome
          /\ Goto(t, "idle")
          /\ Fails(t)
          /\ UNCHANGED mounted
    /\ UNCHANGED <<config, backup, file>>

Open_LeavesMounted(t) ==
    /\ pc[t] = "open"
    /\ \/ /\ mounted
          /\ Goto(t, "write")
          /\ UNCHANGED excused
       \/ /\ ~mounted \/ FALSE \in Outcome
          /\ Goto(t, "idle")
          /\ Fails(t)
    /\ UNCHANGED <<config, backup, file, mounted>>

Open(t) ==
    /\ pc[t] = "open"
    /\ \/ /\ mounted
          /\ Goto(t, "write")
          /\ UNCHANGED excused
       \/ /\ ~mounted \/ FALSE \in Outcome
          /\ Goto(t, "unmount")
          /\ Fails(t)
    /\ UNCHANGED <<config, backup, file, mounted>>

\* The result of file.write is kept and then ignored by every caller.
Write(t) ==
    /\ pc[t] = "write"
    /\ Goto(t, "close")
    /\ UNCHANGED <<config, backup, file, mounted, excused>>

\* The file system commits what was written when the file is closed.
Close(t) ==
    /\ pc[t] = "close"
    /\ Goto(t, "unmount")
    /\ \/ /\ mounted
          /\ file' = IF t = "event" THEN config ELSE file
          /\ excused' = IF t = "event" THEN {} ELSE excused
       \/ /\ ~mounted \/ FALSE \in Outcome
          /\ Fails(t)
          /\ UNCHANGED file
    /\ UNCHANGED <<config, backup, mounted>>

Unmount(t) ==
    /\ pc[t] = "unmount"
    /\ mounted' = FALSE
    /\ Goto(t, "idle")
    /\ UNCHANGED <<config, backup, file, excused>>

-----------------------------------------------------------------------------
Event ==
    \/ \E value \in BOOLEAN : SlcApp_Update_NodeRegister(value)
    \/ StoreRegister
    \/ \E new \in NewConfigs : SlcApp_Update_Config(new)
    \/ StoreConfig
    \/ \E f \in Fields, value \in Inputs : SlcApp_Update_Config_Field(f, value)
    \/ SlcApp_ResetConfig

App == ReadyToStandby \/ Standby

DataStore_WriteFile(t) ==
    Mount(t) \/ Open(t) \/ Write(t) \/ Close(t) \/ Unmount(t)

Next == Event \/ App \/ (\E t \in Threads : DataStore_WriteFile(t)) \/ Restart

Spec == Init /\ [][Next]_vars

-----------------------------------------------------------------------------
TypeOK ==
    /\ config \in Config
    /\ backup \in Config
    /\ file \in Config \cup {NoFile}
    /\ mounted \in BOOLEAN
    /\ pc \in [Threads -> {"idle"} \cup Tests \cup Writing]
    /\ pc["app"] \in {"idle"} \cup Writing
    /\ excused \subseteq Excuses

\* Same(f, c): a restart from f runs like c.
Same(f, c) == f # NoFile /\ LimitPeriods(f) = LimitPeriods(c)

(* When the event thread is between two requests, flash and RAM hold the   *)
(* same configuration (up to periods below the minimum), unless since the  *)
(* last successful write: a write failed, a whole configuration was        *)
(* written, the application thread overwrote the backup that an update was *)
(* about to compare with, or the restart cleared node_registered.          *)
(* SlcApplication.cpp:281-354, 463-577, 1260-1334.                         *)
FlashAgrees == EventIdle /\ excused = {} => Same(file, config)

(* The file system is mounted only while some thread is inside             *)
(* DataStore_WriteFile: every path out of it, the failing ones included,   *)
(* unmounts, whatever the other thread does.  DataStore.cpp:111-152.       *)
MountedOnlyInUse ==
    mounted => \E t \in Threads : pc[t] \in Writing \ {"mount"}

(* A restart that can read the flash resumes with the configuration that   *)
(* was running, if nothing is excused and its version is the program's;    *)
(* node_registered survives only if store_node_registered asks for it.     *)
(* SlcApplication.cpp:1306-1331, SlcApplication.h:176-177.                 *)
RestartKeepsConfig ==
    [][(/\ EventIdle
        /\ excused = {}
        /\ config.version = DefaultConfig.version
        /\ \E writeOk \in BOOLEAN : Boot(file, TRUE, writeOk))
       => LimitPeriods(config') =
             LimitPeriods([config EXCEPT !.node_registered =
                 config.node_registered /\ config.store_node_registered])]_vars

(* "config updated and changed, store" (SlcApplication.cpp:291, 349): once *)
(* the event thread is done, the file holds the changed configuration.     *)
ChangeIsStored == EventIdle => Same(file, config)
=============================================================================
