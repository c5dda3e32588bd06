------------------------------- MODULE SpiLink -------------------------------
(***************************************************************************)
(* The SPI link to the lamp MCU.  The MCU is the master: it clocks frames  *)
(* of measurements into the node and gets, byte by byte, the reply the     *)
(* thread of SlcControl has prepared (dim level, mode).  The thread finds  *)
(* the frames in the stream of bytes by a first and a last check byte;     *)
(* bytes get lost when it is not scheduled in time.                        *)
(***************************************************************************)
EXTENDS Integers

CONSTANTS
    Size,       \* SPI_TRANSFER_SIZE
    First,      \* SPI_FIRST_CHECK_BYTE
    Last,       \* SPI_LAST_CHECK_BYTE
    Data,       \* values of the measurement bytes
    Modes,      \* values of the mode byte, IDX_SPISLAVE_LIGHTPAIR
    ModeIndex,  \* its index
    MaxLost,    \* bound on the bytes the master clocks without being heard
    None        \* no byte

ASSUME SpiAssumption ==
    /\ Size \in Nat /\ Size >= 3
    /\ ModeIndex \in 1 .. Size - 2
    /\ MaxLost \in Nat
    /\ {First, Last, 0, None} \cap Modes \subseteq {0}
    /\ Last # First /\ None \notin Data \cup {First, Last, 0}

VARIABLES
    data,       \* the measurement of the frame the master is sending
    mpos,       \* index of the byte the master sends next
    heard,      \* the mode the master has read last
    lost,       \* bytes lost so far
    rx,         \* receive register of the slave
    tx,         \* reply prepared by the slave
    inFrame,    \* the thread is in its inner loop
    idx,        \* next index in the buffers
    reading,    \* SpiReadBuffer
    received,   \* SpiReadBackupBuffer
    mode,       \* SpiWriteBuffer[ModeIndex]; its other bytes are constant
    missing,    \* history: bytes lost since the frame being read began
    origin,     \* history: index in its frame of the byte received last
    genuine     \* history: the frame being read began with a check byte

vars == <<data, mpos, heard, lost, rx, tx, inFrame, idx, reading, received,
          mode, missing, origin, genuine>>

masterVars == <<data, mpos, heard, lost, missing, origin>>

Index == 0 .. Size - 1

Byte == Data \cup Modes \cup {0, First, Last}

Frame(d) ==
    [i \in Index |-> IF i = 0 THEN First ELSE IF i = Size - 1 THEN Last ELSE d]

Empty == [i \in Index |-> 0]

WriteBuffer_OffByOne ==
    [i \in Index |-> IF i = 0 THEN First ELSE IF i = Size - 1 THEN Last
                     ELSE IF i = ModeIndex + 1 THEN mode ELSE 0]

\* SpiWriteBuffer: the check bytes, the mode and bytes that stay as they are.
WriteBuffer ==
    [i \in Index |-> IF i = 0 THEN First ELSE IF i = Size - 1 THEN Last
                     ELSE IF i = ModeIndex THEN mode ELSE 0]

Init ==
    /\ data \in Data
    /\ mpos \in Index
    /\ heard = None
    /\ lost = 0
    /\ rx = None
    /\ tx = 0
    /\ inFrame = FALSE
    /\ idx = 0
    /\ reading = Empty
    /\ received = Empty
    /\ mode \in Modes
    /\ missing = 0
    /\ origin = 0
    /\ genuine = FALSE

-----------------------------------------------------------------------------
(* The master.  It keeps sending frames, each with the measurement of the  *)
(* moment; the reply to index i arrives with the byte after it.            *)

Clock ==
    /\ \/ mpos < Size - 1 /\ mpos' = mpos + 1 /\ data' = data
       \/ mpos = Size - 1 /\ mpos' = 0 /\ data' \in Data
    /\ heard' = IF mpos = ModeIndex + 1 /\ tx \in Modes THEN tx ELSE heard

MasterSends ==
    /\ rx = None
    /\ rx' = Frame(data)[mpos]
    /\ missing' = IF inFrame THEN missing ELSE 0
    /\ origin' = mpos
    /\ Clock
    /\ UNCHANGED <<lost, tx, inFrame, idx, reading, received, mode, genuine>>

\* The thread was too late, or the line failed: the byte is gone.
ByteLost ==
    /\ lost < MaxLost
    /\ lost' = lost + 1
    /\ missing' = missing + 1
    /\ Clock
    /\ UNCHANGED <<rx, tx, inFrame, idx, reading, received, mode, origin,
                   genuine>>

-----------------------------------------------------------------------------
(* The thread.                                                             *)

\* The outer loop waits for the first check byte and answers 0 to others.  A
\* measurement byte of that value begins a frame just as well.
Hunt ==
    /\ ~inFrame /\ rx # None
    /\ rx' = None
    /\ \/ /\ rx = First
          /\ tx' = WriteBuffer[idx]
          /\ reading' = [reading EXCEPT ![idx] = rx]
          /\ idx' = idx + 1
          /\ inFrame' = TRUE
          /\ genuine' = (origin = 0)
       \/ /\ rx # First
          /\ tx' = 0
          /\ UNCHANGED <<reading, idx, inFrame, genuine>>
    /\ UNCHANGED <<masterVars, received, mode>>

NextByte_OffByOne ==
    /\ inFrame /\ rx # None
    /\ rx' = None
    /\ tx' = WriteBuffer[idx]
    /\ idx' = IF idx < Size THEN idx + 1 ELSE 0
    /\ UNCHANGED <<masterVars, mode, inFrame, reading, received, genuine>>

NextByte_NoBreak ==
    LET buffer == [reading EXCEPT ![idx] = rx]
    IN  /\ inFrame /\ rx # None
        /\ rx' = None
        /\ tx' = WriteBuffer[idx]
        /\ \/ /\ idx + 1 < Size
              /\ idx' = idx + 1
              /\ reading' = buffer
              /\ UNCHANGED <<inFrame, received>>
           \/ /\ idx + 1 = Size
              /\ received' = IF rx = Last THEN buffer ELSE received
              /\ idx' = 0
              /\ reading' = Empty
              /\ inFrame' = (rx # Last)
        /\ UNCHANGED <<masterVars, mode, genuine>>

NextByte_NoLastCheck ==
    LET buffer == [reading EXCEPT ![idx] = rx]
    IN  /\ inFrame /\ rx # None
        /\ rx' = None
        /\ tx' = WriteBuffer[idx]
        /\ \/ /\ idx + 1 < Size
              /\ idx' = idx + 1
              /\ reading' = buffer
              /\ UNCHANGED <<inFrame, received>>
           \/ /\ idx + 1 = Size
              /\ received' = buffer
              /\ idx' = 0
              /\ reading' = Empty
              /\ inFrame' = FALSE
        /\ UNCHANGED <<masterVars, mode, genuine>>

\* The inner loop takes the rest of the frame, whatever it is, and keeps the
\* frame if it ends with the last check byte.
NextByte ==
    LET buffer == [reading EXCEPT ![idx] = rx]
    IN  /\ inFrame /\ rx # None
        /\ rx' = None
        /\ tx' = WriteBuffer[idx]
        /\ \/ /\ idx + 1 < Size
              /\ idx' = idx + 1
              /\ reading' = buffer
              /\ UNCHANGED <<inFrame, received>>
           \/ /\ idx + 1 = Size
              /\ received' = IF rx = Last THEN buffer ELSE received
              /\ idx' = 0
              /\ reading' = Empty
              /\ inFrame' = FALSE
        /\ UNCHANGED <<masterVars, mode, genuine>>

\* Any thread of the node may change the mode at any time.
SlcCtrl_SetMcuMode(m) ==
    /\ mode' = m
    /\ UNCHANGED <<masterVars, rx, tx, inFrame, idx, reading, received,
                   genuine>>

-----------------------------------------------------------------------------
Thread == Hunt \/ NextByte

Next ==
    \/ MasterSends
    \/ ByteLost
    \/ Thread
    \/ \E m \in Modes : SlcCtrl_SetMcuMode(m)

\* The master never stops; the thread polls without sleeping.
Spec == Init /\ [][Next]_vars /\ WF_vars(MasterSends) /\ WF_vars(Thread)

-----------------------------------------------------------------------------
TypeOK ==
    /\ data \in Data
    /\ mpos \in Index
    /\ heard \in Modes \cup {None}
    /\ lost \in 0 .. MaxLost
    /\ rx \in Byte \cup {None}
    /\ tx \in Byte
    /\ inFrame \in BOOLEAN
    /\ idx \in Index
    /\ reading \in [Index -> Byte]
    /\ received \in [Index -> Byte]
    /\ mode \in Modes
    /\ missing \in 0 .. lost
    /\ origin \in Index
    /\ genuine \in BOOLEAN

\* A measurement byte of the value of a check byte is taken for one.
MistakenCheckByte == ~genuine \/ (rx = Last /\ origin # Size - 1)

(* What the thread keeps for the getters (SpiReadBackupBuffer,             *)
(* SlcControl.cpp:513-556) is one frame as the master sent it, never one   *)
(* put together from two, wherever in a frame the thread starts and        *)
(* whichever bytes are lost.  The code has two exceptions: the loss of as  *)
(* many bytes as a frame has goes unnoticed, the frame before it being     *)
(* completed by the frame after it; and measurement bytes are raw, so that *)
(* one of them can be mistaken for the first or the last check byte.       *)
ReceivedIsOneFrame ==
    [][received' # received /\ missing < Size
         => MistakenCheckByte \/ \E d \in Data : received' = Frame(d)]_vars

(* Losing bytes does not make the node deaf: once the master keeps sending *)
(* the same measurement, the node has it (SlcControl.cpp:375-455), unless  *)
(* its bytes have the value of the first check byte.  Out of step on such  *)
(* a byte, the thread takes Size bytes, refuses them and meets it again,   *)
(* for ever.  The last check byte as a measurement does no lasting harm.   *)
MeasurementArrives ==
    \A d \in Data \ {First} : <>[](data = d) => <>[](received = Frame(d))

(* A mode that stays set reaches the MCU, and nothing else is read in its  *)
(* place afterwards (SlcControl.cpp:329-345, 675-690), if the measurements *)
(* do not keep the thread out of step: then it answers at a wrong index.   *)
ModeArrives ==
    \A m \in Modes : <>[](mode = m /\ data # First) => <>[](heard = m)
=============================================================================
