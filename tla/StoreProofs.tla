----------------------------- MODULE StoreProofs -----------------------------
(***************************************************************************)
(* Theorems about ConfigStore: types, the agreement of flash and RAM, the  *)
(* use of the mounted file system, and what a restart brings back.         *)
(***************************************************************************)
EXTENDS ConfigStore, TLAPS

\* The registration in RAM is compared with the backup before it is stored.
RegisterPending ==
    pc["event"] = "testRegister" /\ excused = {}
        => Same(file, [config EXCEPT !.node_registered =
                          backup.node_registered])

\* Outside a write that has not been committed yet, flash agrees with RAM.
SettledAgrees ==
    pc["event"] \in {"idle", "testConfig", "unmount"} /\ excused = {}
        => Same(file, config)

StoreInv == TypeOK /\ SettledAgrees /\ RegisterPending /\ MountedOnlyInUse

-----------------------------------------------------------------------------
(* Updates of a configuration give configurations.                         *)
LEMMA ConfigUpdates ==
    ASSUME NEW c \in Config
    PROVE  /\ \A b \in BOOLEAN : [c EXCEPT !.node_registered = b] \in Config
           /\ \A f \in Fields, n \in Nat :
                 n < Modulus[f] => [c EXCEPT !.field[f] = n] \in Config
           /\ \A g \in FieldValues, b \in BOOLEAN :
                 [c EXCEPT !.field = g, !.node_registered = b] \in Config
           /\ LimitPeriods(c) \in Config
BY StoreAssumption DEF Config, FieldValues, LimitPeriods

(* The minimum does not touch the rest of the configuration.               *)
LEMMA LimitKeepsRest ==
    ASSUME NEW c \in Config, NEW b \in BOOLEAN
    PROVE  /\ LimitPeriods(c).version = c.version
           /\ LimitPeriods(c).node_registered = c.node_registered
           /\ LimitPeriods(c).store_node_registered = c.store_node_registered
           /\ LimitPeriods([c EXCEPT !.node_registered = b])
                 = [LimitPeriods(c) EXCEPT !.node_registered = b]
BY DEF Config, FieldValues, LimitPeriods

(* Raising one period to the minimum makes no difference to it.            *)
LEMMA LimitAbsorbs ==
    ASSUME NEW c \in Config, NEW f \in Periods, c.field[f] < MinPeriod
    PROVE  LimitPeriods([c EXCEPT !.field[f] = MinPeriod]) = LimitPeriods(c)
<1> DEFINE d == [c EXCEPT !.field[f] = MinPeriod]
<1>1. d \in Config /\ f \in Fields
  BY StoreAssumption, ConfigUpdates
<1>2. \A g \in Fields : (IF g \in Periods /\ d.field[g] < MinPeriod
                         THEN MinPeriod ELSE d.field[g])
                      = (IF g \in Periods /\ c.field[g] < MinPeriod
                         THEN MinPeriod ELSE c.field[g])
  BY <1>1, StoreAssumption DEF Config, FieldValues
<1>3. [g \in Fields |-> IF g \in Periods /\ d.field[g] < MinPeriod
                        THEN MinPeriod ELSE d.field[g]]
    = [g \in Fields |-> IF g \in Periods /\ c.field[g] < MinPeriod
                        THEN MinPeriod ELSE c.field[g]]
  BY <1>2
<1> QED BY <1>1, <1>3 DEF Config, FieldValues, LimitPeriods

-----------------------------------------------------------------------------
LEMMA InitStoreInv == Init => StoreInv
BY StoreAssumption
   DEF Init, StoreInv, TypeOK, SettledAgrees, RegisterPending,
       MountedOnlyInUse, Same, Outcome, Threads, Writing, Tests, Excuses

(* Types.                                                                  *)
LEMMA StepTypes == TypeOK /\ [Next]_vars => TypeOK'
<1> SUFFICES ASSUME TypeOK, [Next]_vars PROVE TypeOK'
  OBVIOUS
<1> USE StoreAssumption DEF TypeOK, Threads, Writing, Tests, Excuses, Goto
<1>1. ASSUME NEW value \in BOOLEAN, SlcApp_Update_NodeRegister(value)
      PROVE  TypeOK'
  <2>1. config' \in Config /\ backup' \in Config
    <3>1. config.node_registered \in BOOLEAN
      BY DEF Config
    <3> QED BY <1>1, <3>1, ConfigUpdates DEF SlcApp_Update_NodeRegister
  <2> QED BY <1>1, <2>1 DEF SlcApp_Update_NodeRegister
<1>2. CASE StoreRegister \/ StoreConfig
  BY <1>2 DEF StoreRegister, StoreConfig
<1>3. ASSUME NEW new \in NewConfigs, SlcApp_Update_Config(new)
      PROVE  TypeOK'
  <2>1. config' \in Config
    BY <1>3, ConfigUpdates DEF SlcApp_Update_Config
  <2> QED BY <1>3, <2>1 DEF SlcApp_Update_Config
<1>4. ASSUME NEW f \in Fields, NEW value \in Inputs,
             SlcApp_Update_Config_Field(f, value)
      PROVE  TypeOK'
  <2> DEFINE limited == IF f \in Periods /\ config.field[f] < MinPeriod
                        THEN [config EXCEPT !.field[f] = MinPeriod]
                        ELSE config
  <2>1. limited \in Config
    BY ConfigUpdates
  <2>2. value % Modulus[f] \in Nat /\ value % Modulus[f] < Modulus[f]
    BY StoreAssumption
  <2>3. [limited EXCEPT !.field[f] = value % Modulus[f]] \in Config
    BY <2>1, <2>2, ConfigUpdates
  <2>4. config' \in Config
    BY <1>4, <2>1, <2>3 DEF SlcApp_Update_Config_Field
  <2> QED BY <1>4, <2>4 DEF SlcApp_Update_Config_Field
<1>5. CASE SlcApp_ResetConfig
  BY <1>5 DEF SlcApp_ResetConfig
<1>6. CASE ReadyToStandby
  <2>1. config.node_registered \in BOOLEAN
    BY DEF Config
  <2>2. backup' \in Config
    BY <1>6, <2>1, ConfigUpdates DEF ReadyToStandby
  <2> QED BY <1>6, <2>2 DEF ReadyToStandby
<1>7. CASE Standby
  <2>1. /\ (config.node_registered /\ backup.node_registered) \in BOOLEAN
        /\ config.field \in FieldValues
    BY DEF Config
  <2>2. backup' = [backup EXCEPT !.field = config.field,
                      !.node_registered =
                          config.node_registered /\ backup.node_registered]
    BY <1>7 DEF Standby, Config
  <2>3. backup' \in Config
    BY <2>1, <2>2, ConfigUpdates
  <2> QED BY <1>7, <2>3 DEF Standby
<1>8. ASSUME NEW t \in Threads, DataStore_WriteFile(t) PROVE TypeOK'
  BY <1>8
     DEF DataStore_WriteFile, Mount, Open, Write, Close, Unmount, Fails
<1>9. CASE Restart
  <2>1. PICK mountOk, readOk, writeOk \in Outcome :
           Boot(IF mountOk THEN file ELSE NoFile, readOk, writeOk)
    BY <1>9 DEF Restart
  <2> DEFINE onFlash == IF mountOk THEN file ELSE NoFile
  <2>2. onFlash \in Config \cup {NoFile}
    OBVIOUS
  <2>3. CASE SlcApp_RestoreConfig(onFlash, readOk)
    <3>1. onFlash \in Config
      BY <2>2, <2>3 DEF SlcApp_RestoreConfig, Acceptable
    <3>2. (onFlash.node_registered /\ onFlash.store_node_registered)
             \in BOOLEAN
      BY <3>1 DEF Config
    <3>3. config' \in Config
      BY <2>3, <3>1, <3>2, ConfigUpdates DEF SlcApp_RestoreConfig
    <3> QED BY <2>1, <2>3, <3>1, <3>3 DEF Boot, SlcApp_RestoreConfig
  <2>4. CASE RestoreDefaults(onFlash, readOk, writeOk)
    BY <2>1, <2>2, <2>4 DEF Boot, RestoreDefaults
  <2> QED BY <2>1, <2>3, <2>4 DEF Boot
<1>10. CASE UNCHANGED vars
  BY <1>10 DEF vars
<1> QED
  BY <1>1, <1>2, <1>3, <1>4, <1>5, <1>6, <1>7, <1>8, <1>9, <1>10
     DEF Next, Event, App

(* The mounted file system is in use.                                      *)
LEMMA StepMounted ==
    TypeOK /\ MountedOnlyInUse /\ [Next]_vars => MountedOnlyInUse'
<1> SUFFICES ASSUME TypeOK, MountedOnlyInUse, [Next]_vars
             PROVE  MountedOnlyInUse'
  OBVIOUS
<1> USE DEF TypeOK, MountedOnlyInUse, Threads, Writing, Tests, Goto
<1>1. CASE Event
  BY <1>1
     DEF Event, SlcApp_Update_NodeRegister, StoreRegister, EventIdle,
         SlcApp_Update_Config, StoreConfig, SlcApp_Update_Config_Field,
         SlcApp_ResetConfig
<1>2. CASE App
  BY <1>2 DEF App, ReadyToStandby, Standby, AppIdle
<1>3. ASSUME NEW t \in Threads, DataStore_WriteFile(t)
      PROVE  MountedOnlyInUse'
  BY <1>3 DEF DataStore_WriteFile, Mount, Open, Write, Close, Unmount
<1>4. CASE Restart
  BY <1>4 DEF Restart, Boot
<1>5. CASE UNCHANGED vars
  BY <1>5 DEF vars
<1> QED BY <1>1, <1>2, <1>3, <1>4, <1>5 DEF Next

-----------------------------------------------------------------------------
(* What the handlers of the event thread leave behind.                     *)
LEMMA EventAgrees ==
    StoreInv /\ Event => SettledAgrees' /\ RegisterPending'
<1> SUFFICES ASSUME StoreInv, Event PROVE SettledAgrees' /\ RegisterPending'
  OBVIOUS
<1> USE DEF StoreInv, TypeOK, SettledAgrees, RegisterPending, Threads, Goto,
            EventIdle
<1>1. ASSUME NEW value \in BOOLEAN, SlcApp_Update_NodeRegister(value)
      PROVE  SettledAgrees' /\ RegisterPending'
  <2>1. backup'.node_registered = config.node_registered
    BY <1>1 DEF SlcApp_Update_NodeRegister, Config
  <2>2. [config' EXCEPT !.node_registered = backup'.node_registered] = config
    BY <1>1, <2>1 DEF SlcApp_Update_NodeRegister, Config
  <2>3. excused' = {} => Same(file, config)
    BY <1>1 DEF SlcApp_Update_NodeRegister
  <2> QED BY <1>1, <2>2, <2>3 DEF SlcApp_Update_NodeRegister
<1>2. CASE StoreRegister
  <2>1. CASE config.node_registered # backup.node_registered
    BY <1>2, <2>1 DEF StoreRegister
  <2>2. CASE config.node_registered = backup.node_registered
    <3>1. [config EXCEPT !.node_registered = backup.node_registered] = config
      BY <2>2 DEF Config
    <3> QED BY <1>2, <3>1 DEF StoreRegister
  <2> QED BY <2>1, <2>2
<1>3. ASSUME NEW new \in NewConfigs, SlcApp_Update_Config(new)
      PROVE  SettledAgrees' /\ RegisterPending'
  BY <1>3 DEF SlcApp_Update_Config
<1>4. CASE StoreConfig
  BY <1>4 DEF StoreConfig
<1>5. ASSUME NEW f \in Fields, NEW value \in Inputs,
             SlcApp_Update_Config_Field(f, value)
      PROVE  SettledAgrees' /\ RegisterPending'
  <2> DEFINE limited == IF f \in Periods /\ config.field[f] < MinPeriod
                        THEN [config EXCEPT !.field[f] = MinPeriod]
                        ELSE config
  <2>1. CASE value # limited.field[f]
    BY <1>5, <2>1 DEF SlcApp_Update_Config_Field
  <2>2. CASE value = limited.field[f]
    <3>1. LimitPeriods(limited) = LimitPeriods(config)
      BY LimitAbsorbs
    <3>2. config' = limited /\ UNCHANGED <<pc, file, excused>>
      BY <1>5, <2>2 DEF SlcApp_Update_Config_Field
    <3>3. pc["event"] = "idle"
      BY <1>5 DEF SlcApp_Update_Config_Field
    <3> QED BY <3>1, <3>2, <3>3 DEF Same
  <2> QED BY <2>1, <2>2
<1>6. CASE SlcApp_ResetConfig
  BY <1>6 DEF SlcApp_ResetConfig
<1> QED BY <1>1, <1>2, <1>3, <1>4, <1>5, <1>6 DEF Event

(* The application thread does not disturb the agreement unnoticed.        *)
LEMMA AppAgrees == StoreInv /\ App => SettledAgrees' /\ RegisterPending'
<1> SUFFICES ASSUME StoreInv, App PROVE SettledAgrees' /\ RegisterPending'
  OBVIOUS
<1> USE DEF StoreInv, TypeOK, SettledAgrees, RegisterPending, Threads, Goto
<1>1. CASE ReadyToStandby
  <2>1. pc'["event"] = pc["event"]
    BY <1>1 DEF ReadyToStandby
  <2>2. excused' = {} =>
           excused = {} /\ (pc["event"] = "testRegister" => backup' = backup)
    BY <1>1 DEF ReadyToStandby
  <2> QED BY <1>1, <2>1, <2>2 DEF ReadyToStandby
<1>2. CASE Standby
  <2>1. excused' = {} =>
           /\ excused = {}
           /\ pc["event"] = "testRegister"
                => backup'.node_registered = backup.node_registered
    BY <1>2 DEF Standby
  <2> QED BY <1>2, <2>1 DEF Standby
<1> QED BY <1>1, <1>2 DEF App

(* Neither does a write: it ends with the file equal to RAM, or excused.   *)
LEMMA WriteAgrees ==
    ASSUME NEW t \in Threads, StoreInv, DataStore_WriteFile(t)
    PROVE  SettledAgrees' /\ RegisterPending'
<1> USE DEF StoreInv, TypeOK, SettledAgrees, RegisterPending, Threads, Goto
<1>1. config' = config /\ backup' = backup
  BY DEF DataStore_WriteFile, Mount, Open, Write, Close, Unmount
<1>2. CASE t = "app"
  <2>1. /\ UNCHANGED <<file, excused>>
        /\ pc'["event"] = pc["event"]
    BY <1>2 DEF DataStore_WriteFile, Mount, Open, Write, Close, Unmount,
                Fails
  <2> QED BY <1>1, <2>1
<1>3. CASE t = "event"
  <2>1. CASE Mount(t) \/ Open(t) \/ Write(t)
    BY <1>1, <1>3, <2>1 DEF Mount, Open, Write, Fails
  <2>2. CASE Close(t)
    <3>1. CASE mounted /\ file' = config /\ excused' = {}
      <4>1. config # NoFile
        BY StoreAssumption
      <4> QED BY <1>1, <1>3, <2>2, <3>1, <4>1 DEF Close, Same
    <3>2. CASE Fails(t)
      BY <1>1, <1>3, <2>2, <3>2 DEF Close, Fails
    <3> QED BY <1>3, <2>2, <3>1, <3>2 DEF Close
  <2>3. CASE Unmount(t)
    BY <1>1, <1>3, <2>3 DEF Unmount
  <2> QED BY <2>1, <2>2, <2>3 DEF DataStore_WriteFile
<1> QED BY <1>2, <1>3

(* After a restart RAM is what was read, or what was written, or excused.  *)
LEMMA RestartAgrees ==
    StoreInv /\ Restart => SettledAgrees' /\ RegisterPending'
<1> SUFFICES ASSUME StoreInv, Restart PROVE SettledAgrees' /\ RegisterPending'
  OBVIOUS
<1> USE DEF StoreInv, TypeOK, SettledAgrees, RegisterPending, Threads
<1>1. PICK onFlash, readOk, writeOk : Boot(onFlash, readOk, writeOk)
  BY DEF Restart
<1>2. pc'["event"] = "idle"
  BY <1>1 DEF Boot
<1>3. excused' = {} => file' = config' /\ file' # NoFile
  BY <1>1, StoreAssumption
     DEF Boot, SlcApp_RestoreConfig, RestoreDefaults, Acceptable
<1> QED BY <1>2, <1>3 DEF Same

LEMMA StepStoreInv == StoreInv /\ [Next]_vars => StoreInv'
<1> SUFFICES ASSUME StoreInv, [Next]_vars PROVE StoreInv'
  OBVIOUS
<1>1. TypeOK' /\ MountedOnlyInUse'
  BY StepTypes, StepMounted DEF StoreInv
<1>2. SettledAgrees' /\ RegisterPending'
  <2>1. CASE Event
    BY <2>1, EventAgrees
  <2>2. CASE App
    BY <2>2, AppAgrees
  <2>3. ASSUME NEW t \in Threads, DataStore_WriteFile(t)
        PROVE  SettledAgrees' /\ RegisterPending'
    BY <2>3, WriteAgrees
  <2>4. CASE Restart
    BY <2>4, RestartAgrees
  <2>5. CASE UNCHANGED vars
    BY <2>5 DEF vars, StoreInv, SettledAgrees, RegisterPending, Same
  <2> QED BY <2>1, <2>2, <2>3, <2>4, <2>5 DEF Next
<1> QED BY <1>1, <1>2 DEF StoreInv

THEOREM StoreInvariant == Spec => []StoreInv
BY InitStoreInv, StepStoreInv, PTL DEF Spec

-----------------------------------------------------------------------------
(* The store keeps its types (config, backup, file, positions).            *)
THEOREM StoreTypeCorrect == Spec => []TypeOK
<1>1. StoreInv => TypeOK
  BY DEF StoreInv
<1> QED BY <1>1, StoreInvariant, PTL

(* Flash and RAM agree between two requests unless something is excused:   *)
(* the update functions store every change they notice.                    *)
THEOREM FlashAgreesAlways == Spec => []FlashAgrees
<1>1. StoreInv => FlashAgrees
  BY DEF StoreInv, SettledAgrees, FlashAgrees, EventIdle
<1> QED BY <1>1, StoreInvariant, PTL

(* DataStore_WriteFile never leaves the file system mounted behind it.     *)
THEOREM NothingLeftMounted == Spec => []MountedOnlyInUse
<1>1. StoreInv => MountedOnlyInUse
  BY DEF StoreInv
<1> QED BY <1>1, StoreInvariant, PTL

(* A restart that reads the flash resumes with the running configuration.  *)
THEOREM RestartKeeps == Spec => RestartKeepsConfig
<1> DEFINE kept(c) == [c EXCEPT !.node_registered =
                          c.node_registered /\ c.store_node_registered]
<1>1. ASSUME StoreInv, EventIdle, excused = {},
             config.version = DefaultConfig.version,
             NEW writeOk \in BOOLEAN, Boot(file, TRUE, writeOk)
      PROVE  LimitPeriods(config') = LimitPeriods(kept(config))
  <2>1. /\ config \in Config /\ file \in Config
        /\ LimitPeriods(file) = LimitPeriods(config)
    BY <1>1 DEF StoreInv, TypeOK, SettledAgrees, EventIdle, Same
  <2>2. /\ file.version = config.version
        /\ file.node_registered = config.node_registered
        /\ file.store_node_registered = config.store_node_registered
    BY <2>1, LimitKeepsRest
  <2>3. Acceptable(file, TRUE)
    BY <1>1, <2>1, <2>2, StoreAssumption DEF Acceptable
  <2>4. config' = kept(file)
    BY <1>1, <2>3 DEF Boot, SlcApp_RestoreConfig, RestoreDefaults
  <2> DEFINE b == config.node_registered /\ config.store_node_registered
  <2>5. b \in BOOLEAN
    BY <2>1 DEF Config
  <2>6. /\ kept(file) = [file EXCEPT !.node_registered = b]
        /\ kept(config) = [config EXCEPT !.node_registered = b]
    BY <2>2
  <2>7. /\ LimitPeriods(kept(file))
             = [LimitPeriods(file) EXCEPT !.node_registered = b]
        /\ LimitPeriods(kept(config))
             = [LimitPeriods(config) EXCEPT !.node_registered = b]
    BY <2>1, <2>5, <2>6, LimitKeepsRest
  <2> QED BY <2>1, <2>4, <2>7
<1>2. StoreInv /\ [Next]_vars =>
         [(/\ EventIdle
           /\ excused = {}
           /\ config.version = DefaultConfig.version
           /\ \E writeOk \in BOOLEAN : Boot(file, TRUE, writeOk))
          => LimitPeriods(config') = LimitPeriods(kept(config))]_vars
  BY <1>1
<1> QED BY <1>2, StoreInvariant, PTL DEF Spec, RestartKeepsConfig
=============================================================================
