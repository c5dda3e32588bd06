------------------------------ MODULE Network ------------------------------
(***************************************************************************)
(* How the main thread brings the network up: CellularExt_PreInitModule()  *)
(* at start-up, CellularExt_Attach(), the signal queries and SyncRealTime()*)
(* for every connect request, CellularExt_Detach() for every disconnect    *)
(* request; and the application thread, which makes the requests and sends *)
(* AT queries of its own.  MainLoop has the steps of main() in between.    *)
(*                                                                         *)
(* `mpc` is the exchange main is about to make, or in.  The functions of   *)
(* CellularExternalControl return early when there is no ATHandler: there  *)
(* always is one.  Main.DisconnectType is DISCONNECT_DETACH, the only type *)
(* with which main attaches and detaches.                                  *)
(***************************************************************************)
EXTENDS Modem

CONSTANTS
    Modules,        \* modules that may be fitted
    Tries,          \* tries of MODEL and of the loops of Attach (10)
    BandTries,      \* tries of SetBand_R410M (4)
    PsmTries,       \* tries of DisablePsm and EnablePsmNotice (3)
    SignalQueries,  \* exchanges of the signal queries
    Servers,        \* entries of ntpserver_array (9)
    Enlargements,   \* times the NTP timeout grows from 3600 to 6000 (12)
    NtpRetries      \* counted errors after which SyncRealTime gives up (10)

ASSUME NetworkAssumption ==
    /\ {Tries, BandTries, PsmTries, SignalQueries, Servers, NtpRetries}
            \subseteq Nat \ {0}
    /\ Enlargements \in Nat
    /\ Modules \subseteq {"BG96", "BC95G", "R410M", "N410"}
    /\ Threads = {"main", "app"}

VARIABLES
    module,         \* the module that is fitted
    mpc,            \* where main is
    tries,          \* failed tries of the exchange at mpc
    real,           \* the RTC has a real time
    online,         \* Main.NetState == NETSTATE_CONNECTED
    toNetConnect, toNetDisconnect,      \* the requests
    server, ntp,    \* get_timestamp: next server, outcome of the last one
    slow, retry,    \* SyncRealTime: enlargements of the timeout, counted errors
    failed,         \* history: AT+CGATT=1 that failed, in this Attach
    misread         \* history: main took another reply for its own in it

mainVars == <<module, mpc, tries, real, online>>
requestVars == <<toNetConnect, toNetDisconnect>>
ntpVars == <<server, ntp, slow, retry>>
historyVars == <<failed, misread>>
vars == <<channelVars, modemVars, mainVars, requestVars, ntpVars, historyVars>>

BootPoints == {"MODEL", "GETBAND", "SETUP", "CFUN0", "SETBAND", "CFUN1",
               "REGET", "RESETUP", "PSM1", "PSM2", "FWVER"}
AttachPoints == {"CHECK1", "ATTACH", "CHECK2", "CHECK3"}
ExchangePoints == BootPoints \cup AttachPoints \cup {"SIGNAL", "DETACH"}
Points == ExchangePoints \cup {"REBOOT", "TOP", "UP", "SYNC", "ASK", "DISC"}

Running == mpc \notin BootPoints \cup {"REBOOT"}

\* The command that main sends at a point.
Command(p) ==
    CASE p = "MODEL" -> "MODEL"
      [] p \in {"GETBAND", "REGET"} -> "GETBAND"
      [] p \in {"SETUP", "RESETUP"} -> "SETUP"
      [] p = "SETBAND" -> "SETBAND"
      [] p \in {"CHECK1", "CHECK2"} -> "CGATT?"
      [] p = "CHECK3" -> "CEREG?"
      [] p = "ATTACH" -> "CGATT=1"
      [] p = "DETACH" -> "CGATT=0"
      [] p \in {"FWVER", "SIGNAL"} -> "INFO"
      [] OTHER -> "SET"

RamInit ==
    /\ mpc = "MODEL"
    /\ tries = 0
    /\ online = FALSE
    /\ toNetConnect = TRUE /\ toNetDisconnect = FALSE
    /\ server = 1 /\ ntp = None /\ slow = 0 /\ retry = 0
    /\ failed = 0 /\ misread = FALSE

Init ==
    /\ ChannelInit
    /\ RamInit
    /\ module \in Modules
    /\ attached \in BOOLEAN
    /\ bands \in {"none", "other", "required"}
    /\ bands = "none" => module \in {"R410M", "N410"}
    /\ real = FALSE

-----------------------------------------------------------------------------
(* CellularExt_PreInitModule and CellularExt_Attach: where main goes when  *)
(* an exchange is over.  ok: unlock_return_error() gave 0; val: the value. *)

Again(p) == <<p, tries + 1>>
Go(p) == <<p, 0>>
LastTry(n) == tries + 1 = n

AfterBands == IF module = "R410M" THEN Go("PSM1") ELSE Go("FWVER")

\* Mutant of AfterGetBand: BC95-G is given the bands it already has.
AfterGetBand_AlwaysSets(ok, val) ==
    CASE module = "BC95G" -> Go("CFUN0")
      [] module # "BC95G" /\ val = "required" -> AfterBands
      [] module # "BC95G" /\ val \in {"none", None} -> <<"SETUP", tries>>
      [] OTHER -> Go("SETBAND")

\* CellularExt_GetBand_BC95G, CellularExt_GetBand_R410M and the test of the
\* bands: 3, 8 and 28 and no others.
AfterGetBand(ok, val) ==
    CASE val = "required" -> AfterBands
      [] module = "BC95G" /\ val # "required" -> Go("CFUN0")
      [] module # "BC95G" /\ val \in {"none", None} -> <<"SETUP", tries>>
      [] OTHER -> Go("SETBAND")

\* Mutant of AfterReget: BC95-G goes on without a restart.
AfterReget_Continues(ok, val) ==
    CASE module = "BC95G" -> Go("FWVER")
      [] module # "BC95G" /\ val \in {"none", None} -> <<"RESETUP", tries>>
      [] OTHER -> AfterBands

\* The bands are read again to be printed.  BC95-G is restarted with them.
AfterReget(ok, val) ==
    CASE module = "BC95G" -> Go("REBOOT")
      [] module # "BC95G" /\ val \in {"none", None} -> <<"RESETUP", tries>>
      [] OTHER -> AfterBands

\* CellularExt_PreInitModule; it returns 1 or -1 to be restarted.  R410M and
\* N410 without NB-IoT bands are set up and asked once more.
AfterBoot(ok, val) ==
    CASE mpc = "MODEL" ->
            IF val # None
              THEN IF module = "BG96" THEN Go("FWVER") ELSE Go("GETBAND")
              ELSE IF LastTry(Tries) THEN Go("REBOOT") ELSE Again("MODEL")
      [] mpc = "GETBAND" -> AfterGetBand(ok, val)
      [] mpc = "SETUP" -> IF tries = 0 THEN Again("GETBAND") ELSE Go("SETBAND")
      [] mpc = "CFUN0" -> Go("SETBAND")
      [] mpc = "SETBAND" ->
            IF module = "BC95G" THEN Go("CFUN1")
            ELSE IF ok \/ LastTry(BandTries) THEN Go("REGET")
            ELSE Again("SETBAND")
      [] mpc = "CFUN1" -> Go("REGET")
      [] mpc = "REGET" -> AfterReget(ok, val)
      [] mpc = "RESETUP" -> IF tries = 0 THEN Again("REGET") ELSE AfterBands
      [] mpc = "PSM1" ->
            IF ok \/ LastTry(PsmTries) THEN Go("PSM2") ELSE Again("PSM1")
      [] mpc = "PSM2" ->
            IF ok \/ LastTry(PsmTries) THEN Go("FWVER") ELSE Again("PSM2")
      [] mpc = "FWVER" -> Go("TOP")

\* Mutant of AfterAttach: no answer is taken for "attached".
AfterAttach_OnlyDetached(ok, val) ==
    CASE mpc = "CHECK1" ->
            IF ok \/ LastTry(Tries)
              THEN IF val = "0" THEN Go("ATTACH") ELSE Go("CHECK2")
              ELSE Again("CHECK1")
      [] mpc = "ATTACH" ->
            IF ok \/ LastTry(Tries) THEN Go("CHECK2") ELSE Again("ATTACH")
      [] mpc = "CHECK2" ->
            IF val = "1" \/ LastTry(Tries) THEN Go("CHECK3")
            ELSE Again("CHECK2")
      [] mpc = "CHECK3" ->
            IF val = "1" \/ LastTry(Tries) THEN Go("UP") ELSE Again("CHECK3")

\* CellularExt_Attach: is it attached, AT+CGATT=1 if not, and two loops that
\* wait for the attachment and for the registration.
AfterAttach(ok, val) ==
    CASE mpc = "CHECK1" ->
            IF ok \/ LastTry(Tries)
              THEN IF val # "1" THEN Go("ATTACH") ELSE Go("CHECK2")
              ELSE Again("CHECK1")
      [] mpc = "ATTACH" ->
            IF ok \/ LastTry(Tries) THEN Go("CHECK2") ELSE Again("ATTACH")
      [] mpc = "CHECK2" ->
            IF val = "1" \/ LastTry(Tries) THEN Go("CHECK3")
            ELSE Again("CHECK2")
      [] mpc = "CHECK3" ->
            IF val = "1" \/ LastTry(Tries) THEN Go("UP") ELSE Again("CHECK3")

\* GetSignalQuality, GetSignalStrength and GetCellID, then the time.
AfterSignal == IF LastTry(SignalQueries) THEN Go("SYNC") ELSE Again("SIGNAL")

-----------------------------------------------------------------------------
(* The exchanges of main.                                                  *)

MainFlush == mpc \in ExchangePoints /\ Flush("main") /\ UNCHANGED <<mainVars,
                requestVars, ntpVars, historyVars>>

MainLock == mpc \in ExchangePoints /\ Lock("main") /\ UNCHANGED <<mainVars,
                requestVars, ntpVars, historyVars>>

MainSend ==
    /\ mpc \in ExchangePoints
    /\ Send("main", Command(mpc))
    /\ failed' = IF mpc = "ATTACH" /\ ~attached' THEN failed + 1 ELSE failed
    /\ UNCHANGED <<mainVars, requestVars, ntpVars, misread>>

\* The loops that confirm the attachment do without resp_stop().
MainFinish ==
    LET c == Command(mpc)
        after == CASE mpc \in BootPoints -> AfterBoot(Answered(c), Val(c))
                   [] mpc \in AttachPoints -> AfterAttach(Answered(c), Val(c))
                   [] mpc = "SIGNAL" -> AfterSignal
                   [] mpc = "DETACH" -> Go("TOP")
    IN  /\ mpc \in ExchangePoints
        /\ Finish("main", c, mpc \notin {"CHECK2", "CHECK3"})
        /\ mpc' = after[1]
        /\ tries' = after[2]
        /\ misread' = (misread \/ (mpc \in AttachPoints /\ Misreads(c)))
        /\ toNetDisconnect' = (toNetDisconnect /\ mpc # "DETACH")
        /\ online' = (online /\ mpc # "DETACH")
        /\ UNCHANGED <<faults, module, real, toNetConnect, ntpVars, failed>>

\* OS_Reboot(MODEM_RESET_NONE) in main(): the modem goes on as it is.
Reboot ==
    /\ mpc = "REBOOT"
    /\ mpc' = "MODEL"
    /\ tries' = 0
    /\ rx' = <<>>
    /\ UNCHANGED <<holder, step, late, faults, modemVars, module, real, online,
                   requestVars, ntpVars, historyVars>>

-----------------------------------------------------------------------------
(* The loop of main(): the requests.                                       *)

MainTop ==
    /\ mpc = "TOP"
    /\ \/ /\ toNetConnect /\ ~online
          /\ mpc' = "CHECK1"
          /\ faults' = 0 /\ failed' = 0 /\ misread' = FALSE
       \/ /\ toNetConnect /\ online
          /\ mpc' = "UP"
          /\ UNCHANGED <<faults, historyVars>>
       \/ /\ ~toNetConnect
          /\ mpc' = "DISC"
          /\ UNCHANGED <<faults, historyVars>>
    /\ UNCHANGED <<holder, step, rx, late, modemVars, module, tries, real,
                   online, requestVars, ntpVars>>

\* mcc_platform_init_connection() is over, if(!Main.ToNetDisconnect).
MainUp ==
    /\ mpc = "UP"
    /\ mpc' = IF toNetDisconnect THEN "DISC" ELSE "SIGNAL"
    /\ toNetConnect' = (toNetConnect /\ ~toNetDisconnect)
    /\ UNCHANGED <<channelVars, modemVars, module, tries, real, online,
                   toNetDisconnect, ntpVars, historyVars>>

MainDisc ==
    /\ mpc = "DISC"
    /\ mpc' = IF toNetDisconnect THEN "DETACH" ELSE "TOP"
    /\ UNCHANGED <<channelVars, modemVars, module, tries, real, online,
                   requestVars, ntpVars, historyVars>>

-----------------------------------------------------------------------------
(* SyncRealTime and NTPClient::get_timestamp.                              *)

Errors == {"WOULD_BLOCK", "NO_SOCKET", "DEVICE_ERROR", "DNS", "OTHER"}

\* Its result is ignored; Main.ToNetDisconnect is looked at once more.
SyncReturns ==
    /\ mpc' = "DISC"
    /\ online' = (online \/ ~toNetDisconnect)
    /\ toNetConnect' = FALSE
    /\ server' = 1 /\ ntp' = None /\ slow' = 0 /\ retry' = 0

\* Mutant of SyncTop: the request is looked at before the first try only.
SyncTop_Once ==
    /\ mpc = "SYNC"
    /\ \/ /\ real \/ (toNetDisconnect /\ ntp = None)
          /\ SyncReturns
       \/ /\ ~real /\ ~(toNetDisconnect /\ ntp = None)
          /\ mpc' = "ASK"
          /\ server' = 1
          /\ UNCHANGED <<online, toNetConnect, ntp, slow, retry>>
    /\ UNCHANGED <<channelVars, modemVars, module, tries, real,
                   toNetDisconnect, historyVars>>

\* if(IF_REAL_RTC(now.Y)), if(terminate && *terminate)
SyncTop ==
    /\ mpc = "SYNC"
    /\ \/ /\ real \/ toNetDisconnect
          /\ SyncReturns
       \/ /\ ~real /\ ~toNetDisconnect
          /\ mpc' = "ASK"
          /\ server' = 1
          /\ UNCHANGED <<online, toNetConnect, ntp, slow, retry>>
    /\ UNCHANGED <<channelVars, modemVars, module, tries, real,
                   toNetDisconnect, historyVars>>

\* One server of ntpserver_array: the name or the reply is missing (the next
\* one is tried) or there is a time, which may be before the year 2018.
AskServer ==
    /\ mpc = "ASK" /\ server <= Servers
    /\ \/ /\ ntp' \in Errors
          /\ server' = server + 1
       \/ /\ ntp' \in {"REAL", "UNREAL"}
          /\ server' = Servers + 1
    /\ UNCHANGED <<channelVars, modemVars, mainVars, requestVars, slow, retry,
                   historyVars>>

\* Mutant of Counted: time-outs are not counted.
Counted_OnlyDns == ntp = "DNS"

\* The errors that make retry grow.
Counted == ntp = "DNS" \/ (ntp = "WOULD_BLOCK" /\ slow = Enlargements)

\* Mutant of GivesUp: one try more.
GivesUp_OffByOne == Counted /\ retry = NtpRetries

GivesUp == Counted /\ retry + 1 = NtpRetries

\* What SyncRealTime does with the outcome.
SyncResult ==
    /\ mpc = "ASK" /\ server > Servers
    /\ real' = (ntp = "REAL")
    /\ \/ /\ ntp \in {"REAL", "NO_SOCKET", "DEVICE_ERROR"} \/ GivesUp
          /\ SyncReturns
       \/ /\ ~(ntp \in {"REAL", "NO_SOCKET", "DEVICE_ERROR"} \/ GivesUp)
          /\ mpc' = "SYNC"
          /\ slow' = IF ntp = "WOULD_BLOCK" /\ slow < Enlargements
                       THEN slow + 1 ELSE slow
          /\ retry' = IF Counted THEN retry + 1 ELSE retry
          /\ UNCHANGED <<online, toNetConnect, server, ntp>>
    /\ UNCHANGED <<channelVars, modemVars, module, tries, toNetDisconnect,
                   historyVars>>

-----------------------------------------------------------------------------
(* The application thread: requests, and one query after another.          *)

AppRequests ==
    /\ Running /\ step["app"] = "begin"
    /\ \/ ~toNetConnect /\ toNetConnect' = TRUE /\ UNCHANGED toNetDisconnect
       \/ ~toNetDisconnect /\ toNetDisconnect' = TRUE /\ UNCHANGED toNetConnect
    /\ UNCHANGED <<channelVars, modemVars, mainVars, ntpVars, historyVars>>

AppFlush == Running /\ Flush("app") /\ UNCHANGED <<mainVars, requestVars,
                ntpVars, historyVars>>

AppExchange ==
    /\ \/ Lock("app")
       \/ Send("app", "INFO")
       \/ Finish("app", "INFO", TRUE) /\ UNCHANGED faults
    /\ UNCHANGED <<mainVars, requestVars, ntpVars, historyVars>>

-----------------------------------------------------------------------------
Main ==
    \/ MainFlush
    \/ MainLock
    \/ MainSend
    \/ MainFinish
    \/ Reboot
    \/ MainTop
    \/ MainUp
    \/ MainDisc
    \/ SyncTop
    \/ AskServer
    \/ SyncResult

Next ==
    \/ Main
    \/ AppRequests
    \/ AppFlush
    \/ AppExchange
    \/ LateReply /\ UNCHANGED <<mainVars, requestVars, ntpVars, historyVars>>

\* Both threads are scheduled; a thread that waits for the lock of the
\* ATHandler gets it in the end.  Nothing says that a late reply arrives.
Fairness ==
    /\ WF_vars(Main) /\ SF_vars(MainLock)
    /\ SF_vars(AppExchange)

Spec == Init /\ [][Next]_vars /\ Fairness

-----------------------------------------------------------------------------
TypeOK ==
    /\ ChannelTypeOK
    /\ module \in Modules
    /\ mpc \in Points
    /\ tries \in 0 .. Tries + BandTries + PsmTries + SignalQueries
    /\ {real, online, toNetConnect, toNetDisconnect, misread} \subseteq BOOLEAN
    /\ server \in 1 .. Servers + 1
    /\ ntp \in Errors \cup {"REAL", "UNREAL", None}
    /\ slow \in 0 .. Enlargements
    /\ retry \in 0 .. NtpRetries - 1
    /\ failed \in 0 .. Tries

(* A BC95-G never goes on line with other bands than those required: the   *)
(* check of PreInitModule is repeated after every change, through a        *)
(* restart, and a lost, late or refused command does not get round it      *)
(* (CellularExternalControl.cpp:1951-2004).                                *)
BandsChecked == Running /\ module = "BC95G" => bands = "required"

(* When Attach returns the modem is attached, unless the modem failed each *)
(* of the tries of AT+CGATT=1, or a reply of another exchange was taken    *)
(* for one of this Attach (CellularExternalControl.cpp:2412-2446).         *)
AttachTakesEffect ==
    mpc = "UP" /\ ~online => attached \/ failed = Tries \/ misread

(* The node gets through its start-up, restarts included, once the modem   *)
(* does what it is told (CellularExternalControl.cpp:1900-2252).           *)
BootEnds == <>Running

(* A disconnect request is served, whatever the modem, the time servers    *)
(* and the queries of the application do meanwhile (main_slc.cpp:1006-1010,*)
(* CellularExternalControl.cpp:2543-2575).                                 *)
DisconnectServed == toNetDisconnect ~> ~toNetDisconnect

(* SyncRealTime that never returns keeps getting one of the two outcomes   *)
(* it does not count: the timeout and DNS errors exhaust its retries       *)
(* (main_slc.cpp:1015-1047).                                               *)
OnlyUncountedForEver ==
    <>[](mpc \in {"SYNC", "ASK"})
        => []<>(server > Servers /\ ntp \in {"OTHER", "UNREAL"})
=============================================================================
