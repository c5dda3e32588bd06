------------------------------- MODULE Modem -------------------------------
(***************************************************************************)
(* The cellular modem and the AT channel to it, as CellularExternalControl *)
(* uses them.  Every function of that file makes its exchanges in the same *)
(* way: it flushes what has been received, takes the lock of the           *)
(* ATHandler, sends a command, reads the reply or times out, and gives the *)
(* lock back.  The flush comes before the lock, so it may discard the      *)
(* reply another thread waits for, and what arrives between the flush and  *)
(* the lock is read as the reply.                                          *)
(*                                                                         *)
(* The modem and the ATHandler are not part of the repository.  The modem  *)
(* executes commands in order and answers in order; it may refuse a        *)
(* command, not hear it, or answer after the time out.  MaxFaults bounds   *)
(* how often, per attempt to connect.                                      *)
(***************************************************************************)
EXTENDS Integers, SequencesExt

CONSTANTS
    Threads,    \* users of the channel
    MaxFaults,  \* bound on refused, unheard and late commands
    None        \* no thread, no value

VARIABLES
    holder,     \* who has the lock of the ATHandler
    step,       \* progress of the exchange of every thread
    rx,         \* lines received and not read
    late,       \* lines of a reply that has not arrived yet
    faults,     \* faults so far
    attached,   \* the modem is attached to the packet domain
    bands       \* bands enabled: "none" for NB-IoT, "other", "required"

channelVars == <<holder, step, rx, late, faults>>
modemVars == <<attached, bands>>

Queries == {"MODEL", "GETBAND", "CGATT?", "CEREG?", "INFO"}
Orders == {"SETUP", "SETBAND", "CGATT=1", "CGATT=0", "SET"}
Commands == Queries \cup Orders
Finals == {"OK", "ERROR"}
Texts == {"0", "1", "other", "none", "required"} \cup Finals

ASSUME ModemAssumption == MaxFaults \in Nat /\ None \notin Threads \cup Texts

\* A line: the command it answers, its content, and whether that command is
\* the last one that was sent.
Lines == [to : Commands, text : Texts, fresh : BOOLEAN]

ChannelInit ==
    /\ holder = None
    /\ step = [t \in Threads |-> "begin"]
    /\ rx = <<>>
    /\ late = <<>>
    /\ faults = 0

\* What the modem says to a command in its present state.
Value(c) ==
    CASE c \in {"CGATT?", "CEREG?"} -> IF attached THEN "1" ELSE "0"
      [] c = "GETBAND" -> bands
      [] OTHER -> "other"

Line(c, text) == [to |-> c, text |-> text, fresh |-> TRUE]

Reply(c) ==
    (IF c \in Queries THEN <<Line(c, Value(c))>> ELSE <<>>) \o <<Line(c, "OK")>>

Outdated(lines) == [i \in DOMAIN lines |-> [lines[i] EXCEPT !.fresh = FALSE]]

\* "SETUP": AT+UMNOPROF=100 and AT+CFUN=15, which make NB-IoT available.
Execute(c) ==
    /\ attached' = (c = "CGATT=1" \/ (attached /\ c # "CGATT=0"))
    /\ bands' = CASE c = "SETBAND" -> "required"
                  [] c = "SETUP" /\ bands = "none" -> "other"
                  [] OTHER -> bands

-----------------------------------------------------------------------------
(* The exchange of thread t.                                               *)

\* at->flush()
Flush(t) ==
    /\ step[t] = "begin"
    /\ rx' = <<>>
    /\ step' = [step EXCEPT ![t] = "flushed"]
    /\ UNCHANGED <<holder, late, faults, modemVars>>

\* at->lock()
Lock(t) ==
    /\ step[t] = "flushed"
    /\ holder = None
    /\ holder' = t
    /\ step' = [step EXCEPT ![t] = "locked"]
    /\ UNCHANGED <<rx, late, faults, modemVars>>

\* at->cmd_start(), cmd_stop(): the modem hears the command and answers in
\* time, or one of the faults happens.  A late reply to the command before
\* arrives first.
Send(t, c) ==
    LET before == Outdated(rx \o late)
    IN  /\ step[t] = "locked"
        /\ step' = [step EXCEPT ![t] = "sent"]
        /\ \/ /\ rx' = before \o Reply(c)
              /\ late' = <<>>
              /\ Execute(c)
              /\ UNCHANGED faults
           \/ /\ faults < MaxFaults
              /\ faults' = faults + 1
              /\ \/ /\ rx' = before \o <<Line(c, "ERROR")>>
                    /\ late' = <<>>
                    /\ UNCHANGED modemVars
                 \/ /\ rx' = before
                    /\ late' = <<>>
                    /\ UNCHANGED modemVars
                 \/ /\ rx' = before
                    /\ late' = Reply(c)
                    /\ Execute(c)
        /\ UNCHANGED holder

LateReply ==
    /\ late # <<>>
    /\ rx' = rx \o late
    /\ late' = <<>>
    /\ UNCHANGED <<holder, step, faults, modemVars>>

\* The first line that ends a reply: 0 when there is none.
FinalAt == SelectInSeq(rx, LAMBDA line : line.text \in Finals)

\* resp_start(prefix), read_int(): the first line before it that the prefix
\* matches.  Lines of other commands are skipped.
ValueAt(c) ==
    SelectInSeq(SubSeq(rx, 1, FinalAt - 1), LAMBDA line : line.to = c)

\* The outcome of unlock_return_error() is 0 and the value read is val.
Answered(c) == FinalAt > 0 /\ rx[FinalAt].text = "OK"
Val(c) == IF FinalAt > 0 /\ ValueAt(c) > 0 THEN rx[ValueAt(c)].text ELSE None

\* The line that t took for the end of its reply answers another command.
Misreads(c) == FinalAt > 0 /\ ~rx[FinalAt].fresh

\* resp_stop() reads to the end of the reply; without it a value that was
\* found is the last line that is read.
Rest(c, stop) ==
    SubSeq(rx, 1 + (IF ~stop /\ ValueAt(c) > 0 THEN ValueAt(c) ELSE FinalAt),
           Len(rx))

\* The reply is read, or the time is over; the lock is given back.
Finish(t, c, stop) ==
    /\ step[t] = "sent"
    /\ rx' = IF FinalAt > 0 THEN Rest(c, stop) ELSE rx
    /\ holder' = None
    /\ step' = [step EXCEPT ![t] = "begin"]
    /\ UNCHANGED <<late, modemVars>>

ChannelTypeOK ==
    /\ holder \in Threads \cup {None}
    /\ step \in [Threads -> {"begin", "flushed", "locked", "sent"}]
    /\ rx \in Seq(Lines)
    /\ late \in Seq(Lines)
    /\ faults \in 0 .. MaxFaults
    /\ attached \in BOOLEAN
    /\ bands \in {"none", "other", "required"}
=============================================================================
