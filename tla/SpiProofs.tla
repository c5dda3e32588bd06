------------------------------ MODULE SpiProofs ------------------------------
(***************************************************************************)
(* Proofs about SpiLink: what the thread of SlcControl keeps is one frame  *)
(* of the master, for frames of any size and measurements of any value, as *)
(* long as less than a whole frame is lost in the middle of one and no     *)
(* measurement byte stands where a check byte is looked for.               *)
(***************************************************************************)
EXTENDS SpiLink, TLAPS

-----------------------------------------------------------------------------
(* Type correctness.                                                       *)

\* Outside of a frame the index is reset.
IndexReset == ~inFrame => idx = 0

\* What the master clocks out keeps its type.
LEMMA ClockType ==
    ASSUME TypeOK, Clock
    PROVE  /\ data' \in Data /\ mpos' \in Index
           /\ heard' \in Modes \cup {None}
BY SpiAssumption DEF TypeOK, Clock, Index

\* The bytes of a frame and of the reply are bytes.
LEMMA BufferTypes ==
    ASSUME TypeOK
    PROVE  /\ \A i \in Index : Frame(data)[i] \in Byte
           /\ \A i \in Index : WriteBuffer[i] \in Byte
           /\ Empty \in [Index -> Byte]
BY DEF TypeOK, Frame, WriteBuffer, Empty, Byte

\* Every step keeps the types and the reset of the index.
LEMMA NextType ==
    ASSUME TypeOK, IndexReset, [Next]_vars
    PROVE  TypeOK' /\ IndexReset'
<1>1. CASE MasterSends
  <2>1. Frame(data)[mpos] \in Byte
        BY BufferTypes DEF TypeOK
  <2>. QED  BY <1>1, <2>1, ClockType, SpiAssumption
            DEF MasterSends, TypeOK, IndexReset
<1>2. CASE ByteLost
      BY <1>2, ClockType, SpiAssumption DEF ByteLost, TypeOK, IndexReset
<1>3. CASE Hunt
  <2>1. 0 \in Index /\ 1 \in Index
        BY SpiAssumption DEF Index
  <2>2. WriteBuffer[idx] \in Byte /\ 0 \in Byte
        BY BufferTypes DEF TypeOK, Byte
  <2>3. rx \in Byte /\ idx = 0
        BY <1>3 DEF Hunt, TypeOK, IndexReset
  <2>4. /\ rx' = None /\ tx' \in Byte /\ inFrame' \in BOOLEAN
        /\ idx' \in Index /\ reading' \in [Index -> Byte]
        /\ genuine' \in BOOLEAN
        /\ ~inFrame' => idx' = 0
    <3>1. CASE rx = First
          BY <1>3, <2>1, <2>2, <2>3, <3>1 DEF Hunt, TypeOK
    <3>2. CASE rx # First
          BY <1>3, <2>1, <2>2, <2>3, <3>2 DEF Hunt, TypeOK
    <3>. QED  BY <3>1, <3>2
  <2>. QED  BY <1>3, <2>4 DEF Hunt, TypeOK, IndexReset, masterVars
<1>4. CASE NextByte
  <2>1. 0 \in Index /\ (idx + 1 < Size => idx + 1 \in Index)
        BY SpiAssumption DEF Index, TypeOK
  <2>2. WriteBuffer[idx] \in Byte /\ Empty \in [Index -> Byte]
        BY BufferTypes DEF TypeOK
  <2>3. rx \in Byte
        BY <1>4 DEF NextByte, TypeOK
  <2>. QED  BY <1>4, <2>1, <2>2, <2>3
            DEF NextByte, TypeOK, IndexReset, masterVars
<1>5. CASE \E m \in Modes : SlcCtrl_SetMcuMode(m)
      BY <1>5 DEF SlcCtrl_SetMcuMode, TypeOK, IndexReset, masterVars
<1>6. CASE UNCHANGED vars
      BY <1>6 DEF vars, TypeOK, IndexReset
<1>. QED  BY <1>1, <1>2, <1>3, <1>4, <1>5, <1>6 DEF Next, Thread

\* The initial states have their types.
LEMMA InitType ==
    ASSUME Init
    PROVE  TypeOK /\ IndexReset
<1>1. 0 \in Index /\ 0 \in Byte
      BY SpiAssumption DEF Index, Byte
<1>2. Empty \in [Index -> Byte]
      BY <1>1 DEF Empty
<1>3. 0 \in 0 .. MaxLost /\ 0 \in 0 .. 0
      BY SpiAssumption
<1>. QED  BY <1>1, <1>2, <1>3 DEF Init, TypeOK, IndexReset

\* No index leaves the buffers of SlcControl and no byte its range.
THEOREM TypeCorrect == Spec => []TypeOK
<1>1. Init => TypeOK /\ IndexReset
      BY InitType
<1>2. TypeOK /\ IndexReset /\ [Next]_vars => (TypeOK /\ IndexReset)'
      BY NextType
<1>. QED  BY <1>1, <1>2, PTL DEF Spec

-----------------------------------------------------------------------------
(* One frame.                                                              *)

\* The position in the frames of the master after k bytes, k < 2 * Size.
Wrap(k) == IF k < Size THEN k ELSE k - Size

\* A byte that the thread has not fetched yet.
Pending == IF rx = None THEN 0 ELSE 1

\* Since the byte First that began the frame, the master has clocked out what
\* the thread has got, what waits to be fetched and what was lost.
Aligned ==
    /\ IF inFrame THEN genuine ELSE rx = First /\ origin = 0
    /\ missing < Size
    => mpos = Wrap(idx + Pending + missing)

\* What the thread has got of a frame is that of the frame with data d.
Whole(d) ==
    /\ \A i \in 0 .. idx - 1 : reading[i] = Frame(d)[i]
    /\ rx # None => rx = Frame(d)[idx]

\* As long as nothing is lost the thread follows one frame; once something is
\* lost, the last check byte comes to its place only at the end of such a
\* frame.
OneFrame ==
    /\ inFrame /\ genuine /\ missing < Size
    /\ missing = 0 \/ (rx # None /\ origin = Size - 1 /\ idx = Size - 1)
    => \E d \in Data : Whole(d) /\ (missing = 0 /\ mpos # 0 => data = d)

\* The inductive invariant.
FrameInv == TypeOK /\ IndexReset /\ Aligned /\ OneFrame

\* A byte reaches the receive register.
LEMMA MasterSendsFrame ==
    ASSUME FrameInv, MasterSends
    PROVE  Aligned' /\ OneFrame'
<1>1. /\ mpos \in Index /\ idx \in Index /\ missing \in Nat
      /\ Size \in Nat /\ Size >= 3 /\ First # None /\ Last # None
      /\ data \in Data
      BY SpiAssumption DEF FrameInv, TypeOK
<1>2. rx = None /\ rx' = Frame(data)[mpos] /\ rx' # None
      BY <1>1, SpiAssumption DEF MasterSends, Frame, Index
<1>3. /\ mpos = 0 => rx' = First
      /\ mpos = Size - 1 => rx' = Last
      /\ mpos \notin {0, Size - 1} => rx' = data
      BY <1>1, <1>2 DEF Frame, Index
<1>4. origin' = mpos
      BY DEF MasterSends
<1>5. /\ mpos' = (IF mpos = Size - 1 THEN 0 ELSE mpos + 1)
      /\ mpos' # 0 => data' = data
      BY <1>1 DEF MasterSends, Clock, Index
<1>6. /\ UNCHANGED <<inFrame, genuine, idx, reading>>
      /\ missing' = IF inFrame THEN missing ELSE 0
      BY DEF MasterSends
<1>7. Pending = 0 /\ Pending' = 1
      BY <1>2 DEF Pending
<1>8. Aligned'
  <2>1. CASE inFrame
    <3>. SUFFICES ASSUME genuine, missing < Size
                  PROVE  mpos' = Wrap(idx + 1 + missing)
         BY <1>6, <1>7, <2>1 DEF Aligned, Wrap
    <3>1. mpos = Wrap(idx + missing)
          BY <1>1, <1>7, <2>1 DEF FrameInv, Aligned, Wrap, Index
    <3>. QED  BY <1>1, <1>5, <3>1 DEF Wrap, Index
  <2>2. CASE ~inFrame
    <3>1. idx = 0
          BY <2>2 DEF FrameInv, IndexReset
    <3>. QED  BY <1>1, <1>4, <1>5, <1>6, <1>7, <2>2, <3>1
              DEF Aligned, Wrap, Index
  <2>. QED  BY <2>1, <2>2
<1>9. OneFrame'
  <2>. SUFFICES ASSUME inFrame, genuine, missing < Size,
                       missing = 0 \/ (mpos = Size - 1 /\ idx = Size - 1)
                PROVE  \E d \in Data : /\ Whole(d)'
                                       /\ missing = 0 /\ mpos' # 0
                                            => data' = d
       BY <1>4, <1>6 DEF OneFrame
  <2>1. mpos = Wrap(idx + missing)
        BY <1>1, <1>7 DEF FrameInv, Aligned, Wrap, Index
  <2>2. missing = 0
        BY <1>1, <2>1 DEF Wrap, Index
  <2>3. mpos = idx
        BY <1>1, <2>1, <2>2 DEF Wrap, Index
  <2>4. PICK d \in Data : Whole(d) /\ (mpos # 0 => data = d)
        BY <2>2 DEF FrameInv, OneFrame
  <2>5. CASE mpos = 0
    <3>1. PICK e \in Data : e = data
          BY <1>1
    <3>2. Whole(e)'
          BY <1>1, <1>2, <1>6, <2>3, <2>5, <3>1 DEF Whole, Frame, Index
    <3>. QED  BY <1>5, <3>1, <3>2
  <2>6. CASE mpos # 0
    <3>1. Whole(d)'
          BY <1>2, <1>6, <2>3, <2>4, <2>6 DEF Whole, Frame
    <3>. QED  BY <1>5, <2>4, <2>6, <3>1
  <2>. QED  BY <2>5, <2>6
<1>. QED  BY <1>8, <1>9

\* A byte is lost.
LEMMA ByteLostFrame ==
    ASSUME FrameInv, ByteLost
    PROVE  Aligned' /\ OneFrame'
<1>1. /\ mpos \in Index /\ idx \in Index /\ missing \in Nat
      /\ Size \in Nat /\ Size >= 3 /\ First # None /\ Last # None
      BY SpiAssumption DEF FrameInv, TypeOK
<1>2. mpos' = (IF mpos = Size - 1 THEN 0 ELSE mpos + 1)
      BY <1>1 DEF ByteLost, Clock, Index
<1>3. /\ UNCHANGED <<inFrame, genuine, idx, reading, rx, origin>>
      /\ missing' = missing + 1
      BY DEF ByteLost
<1>4. Pending' = Pending /\ Pending \in {0, 1}
      BY <1>3 DEF Pending
<1>5. Aligned'
  <2>. SUFFICES ASSUME IF inFrame THEN genuine
                                  ELSE rx = First /\ origin = 0,
                       missing + 1 < Size
                PROVE  mpos' = Wrap(idx + Pending + missing + 1)
       BY <1>1, <1>3, <1>4 DEF Aligned, Wrap, Index
  <2>1. mpos = Wrap(idx + Pending + missing)
        BY <1>1 DEF FrameInv, Aligned
  <2>. QED  BY <1>1, <1>2, <1>4, <2>1 DEF Wrap, Index
<1>6. OneFrame'
  <2>. SUFFICES ASSUME inFrame, genuine, missing + 1 < Size,
                       rx # None, origin = Size - 1, idx = Size - 1
                PROVE  \E d \in Data : Whole(d)'
       BY <1>1, <1>3 DEF OneFrame
  <2>1. PICK d \in Data : Whole(d)
        BY <1>1 DEF FrameInv, OneFrame
  <2>2. Whole(d)'
        BY <1>3, <2>1 DEF Whole, Frame
  <2>. QED  BY <2>2
<1>. QED  BY <1>5, <1>6

\* The thread waits for a frame.
LEMMA HuntFrame ==
    ASSUME FrameInv, Hunt
    PROVE  Aligned' /\ OneFrame'
<1>1. /\ mpos \in Index /\ idx = 0 /\ missing \in Nat /\ data \in Data
      /\ Size \in Nat /\ Size >= 3 /\ First # None /\ Last # None
      /\ reading \in [Index -> Byte] /\ 0 \in Index
      BY SpiAssumption DEF FrameInv, TypeOK, IndexReset, Hunt, Index
<1>2. rx' = None /\ Pending' = 0 /\ UNCHANGED <<mpos, missing, data>>
      BY DEF Hunt, Pending, masterVars
<1>3. CASE rx # First
      BY <1>1, <1>2, <1>3 DEF Hunt, Aligned, OneFrame
<1>4. CASE rx = First /\ origin # 0
  <2>1. inFrame' /\ ~genuine'
        BY <1>1, <1>4 DEF Hunt
  <2>. QED  BY <2>1 DEF Aligned, OneFrame
<1>5. CASE rx = First /\ origin = 0
  <2>1. idx' = 1 /\ reading'[0] = First /\ inFrame' = TRUE
        BY <1>1, <1>5 DEF Hunt
  <2>2. Pending = 1
        BY <1>1, <1>5 DEF Pending
  <2>3. missing < Size => mpos = Wrap(1 + missing)
        BY <1>1, <1>5, <2>2 DEF FrameInv, Aligned, Hunt
  <2>4. Aligned'
        BY <1>1, <1>2, <2>1, <2>3 DEF Aligned, Wrap
  <2>5. Whole(data)'
        BY <1>1, <1>2, <2>1 DEF Whole, Frame
  <2>6. OneFrame'
        BY <1>1, <1>2, <2>5 DEF OneFrame
  <2>. QED  BY <2>4, <2>6
<1>. QED  BY <1>3, <1>4, <1>5

\* The thread fetches a byte of a frame.
LEMMA NextByteFrame ==
    ASSUME FrameInv, NextByte
    PROVE  Aligned' /\ OneFrame'
<1>1. /\ mpos \in Index /\ idx \in Index /\ missing \in Nat
      /\ Size \in Nat /\ Size >= 3 /\ First # None /\ Last # None
      /\ reading \in [Index -> Byte]
      BY SpiAssumption DEF FrameInv, TypeOK
<1>2. /\ rx' = None /\ rx # None /\ inFrame
      /\ Pending = 1 /\ Pending' = 0
      /\ UNCHANGED <<mpos, missing, data, genuine>>
      BY DEF NextByte, Pending, masterVars
<1>3. CASE idx + 1 = Size
  <2>1. ~(idx + 1 < Size)
        BY <1>1, <1>3 DEF Index
  <2>2. ~inFrame'
        BY <2>1 DEF NextByte
  <2>3. rx' # First
        BY <1>1, <1>2
  <2>. QED  BY <2>2, <2>3 DEF Aligned, OneFrame
<1>4. CASE idx + 1 < Size
  <2>1. /\ idx' = idx + 1 /\ UNCHANGED inFrame
        /\ reading' = [reading EXCEPT ![idx] = rx]
    <3>1. idx + 1 # Size
          BY <1>1, <1>4 DEF Index
    <3>. QED  BY <3>1, Zenon DEF NextByte
  <2>2. Aligned'
        BY <1>1, <1>2, <2>1 DEF FrameInv, Aligned, Wrap, Index
  <2>3. OneFrame'
    <3>. SUFFICES ASSUME genuine, missing = 0
                  PROVE  \E d \in Data : /\ Whole(d)'
                                         /\ mpos' # 0 => data' = d
         BY <1>1, <1>2 DEF OneFrame
    <3>1. PICK d \in Data : Whole(d) /\ (mpos # 0 => data = d)
          BY <1>1, <1>2 DEF FrameInv, OneFrame
    <3>2. \A i \in 0 .. idx : reading'[i] = Frame(d)[i]
          BY <1>1, <1>2, <2>1, <3>1 DEF Whole, Index
    <3>3. Whole(d)'
      <4>1. 0 .. idx' - 1 = 0 .. idx
            BY <1>1, <2>1 DEF Index
      <4>. QED  BY <1>2, <3>2, <4>1 DEF Whole, Frame
    <3>. QED  BY <1>2, <3>1, <3>3
  <2>. QED  BY <2>2, <2>3
<1>. QED  BY <1>1, <1>3, <1>4 DEF Index

\* The inductive invariant holds initially and is kept.
LEMMA FrameInductive ==
    /\ Init => FrameInv
    /\ FrameInv /\ [Next]_vars => FrameInv'
<1>1. Init => FrameInv
      BY InitType, SpiAssumption DEF Init, FrameInv, Aligned, OneFrame
<1>2. ASSUME FrameInv, [Next]_vars
      PROVE  FrameInv'
  <2>1. (TypeOK /\ IndexReset)'
        BY <1>2, NextType DEF FrameInv
  <2>2. (Aligned /\ OneFrame)'
    <3>1. CASE MasterSends
          BY <1>2, <3>1, MasterSendsFrame
    <3>2. CASE ByteLost
          BY <1>2, <3>2, ByteLostFrame
    <3>3. CASE Hunt
          BY <1>2, <3>3, HuntFrame
    <3>4. CASE NextByte
          BY <1>2, <3>4, NextByteFrame
    <3>5. CASE \/ \E m \in Modes : SlcCtrl_SetMcuMode(m)
               \/ UNCHANGED vars
      <4>1. UNCHANGED <<data, mpos, missing, rx, inFrame, idx, reading,
                        origin, genuine>>
            BY <3>5 DEF SlcCtrl_SetMcuMode, vars, masterVars
      <4>. QED  BY <1>2, <4>1
                DEF FrameInv, Aligned, OneFrame, Whole, Pending
    <3>. QED  BY <1>2, <3>1, <3>2, <3>3, <3>4, <3>5 DEF Next, Thread
  <2>. QED  BY <2>1, <2>2 DEF FrameInv
<1>. QED  BY <1>1, <1>2

\* Whatever the measurement bytes are, the thread keeps a frame put together
\* from two only when one of them was taken for a check byte or a whole frame
\* was lost while it read one.
THEOREM FramesAreWhole == Spec => ReceivedIsOneFrame
<1>. DEFINE Accepts ==
            received' # received /\ missing < Size
              => MistakenCheckByte \/ \E d \in Data : received' = Frame(d)
<1>1. ASSUME FrameInv, [Next]_vars
      PROVE  [Accepts]_vars
  <2>1. CASE NextByte
    <3>. SUFFICES ASSUME received' # received, missing < Size,
                         ~MistakenCheckByte
                  PROVE  \E d \in Data : received' = Frame(d)
         OBVIOUS
    <3>1. /\ idx \in Index /\ reading \in [Index -> Byte]
          /\ Size \in Nat /\ Size >= 3
          BY <1>1, SpiAssumption DEF FrameInv, TypeOK
    <3>2. /\ inFrame /\ rx = Last /\ rx # None /\ idx + 1 = Size
          /\ received' = [reading EXCEPT ![idx] = rx]
          BY <2>1, Zenon DEF NextByte
    <3>3. PICK d \in Data : Whole(d)
      <4>1. idx = Size - 1
            BY <3>1, <3>2 DEF Index
      <4>2. genuine /\ origin = Size - 1
            BY <3>2 DEF MistakenCheckByte
      <4>. QED  BY <1>1, <3>2, <4>1, <4>2 DEF FrameInv, OneFrame
    <3>4. \A i \in Index : received'[i] = Frame(d)[i]
          BY <3>1, <3>2, <3>3 DEF Whole, Index
    <3>5. received' = Frame(d)
          BY <3>1, <3>2, <3>4 DEF Frame
    <3>. QED  BY <3>5
  <2>2. CASE ~NextByte
        BY <1>1, <2>2
        DEF Next, Thread, MasterSends, ByteLost, Hunt, SlcCtrl_SetMcuMode,
            vars
  <2>. QED  BY <2>1, <2>2
<1>. QED  BY <1>1, FrameInductive, PTL DEF Spec, ReceivedIsOneFrame
=============================================================================
