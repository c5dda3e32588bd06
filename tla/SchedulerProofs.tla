-------------------------- MODULE SchedulerProofs --------------------------
(***************************************************************************)
(* Proofs about UcScheduler: no wake-up is lost, whoever posts; and, for   *)
(* one user of the pool, every element has one owner at a time and the     *)
(* callbacks run in the order in which they were queued.                   *)
(***************************************************************************)
EXTENDS UcScheduler, TLAPS

-----------------------------------------------------------------------------
(* The wake-up protocol.                                                   *)

\* The types of what the protocol is made of.
WakeType ==
    /\ ppc \in [Posters -> {"IDLE", "TAKE", "ALLOC", "NEXT", "SWAP", "INIT",
                            "EXHAUSTED", "LINK", "PUSH", "CHECK", "CHECK2",
                            "NOTIFY", "SEND"}]
    /\ pending \in {0, 1} /\ flag \in {0, 1} /\ cleared \in BOOLEAN
    /\ events \in Nat

\* An event is on its way, or a poster is about to send it.
EventComing == events > 0 \/ \E p \in Posters : ppc[p] = "SEND"

\* callbacks_pending is set only while an event is coming, or while the event
\* loop will still look at it.
FlagMeansEvent ==
    pending = 1 /\ (\/ lpc = "IDLE"
                    \/ lpc = "EMPTY" /\ flag = 0
                    \/ cleared /\ lpc # "AGAIN")
        => EventComing

\* What the event loop has read of it stays true, because nobody else clears
\* it, and `cleared_flag` is a local of try_clear_callbacks_pending.
FlagIsLocal ==
    /\ lpc = "EMPTY" /\ flag = 1 => pending = 1
    /\ cleared => lpc \in {"FLAG", "EMPTY", "SET", "AGAIN", "CLEAR"}

\* A queued callback that the event loop does not know of has a poster that
\* has yet to look at the flag.
QueueIsKnown ==
    tail # Null /\ lpc = "IDLE" /\ events = 0
        => \E p \in Posters : ppc[p] \in {"CHECK", "CHECK2", "NOTIFY", "SEND"}

\* The inductive invariant.
WakeInv == WakeType /\ FlagMeansEvent /\ FlagIsLocal /\ QueueIsKnown

\* A poster that has not pushed its element yet plays no part.
LEMMA EarlyPosterWake ==
    ASSUME WakeInv, NEW p \in Posters,
           \/ \E storage \in Static \cup {Null} : Post(p, storage)
           \/ Take(p) \/ AllocRoot(p) \/ AllocNext(p) \/ AllocSwap(p)
           \/ InitElement(p) \/ PoolExhausted(p) \/ PushLink(p)
    PROVE  WakeInv'
<1>1. UNCHANGED <<tail, pending, events, lpc, flag, cleared>>
      BY DEF Post, Take, AllocRoot, AllocNext, AllocSwap, InitElement,
             PoolExhausted, PushLink, queueVars, loopVars
<1>2. /\ ppc[p] \notin {"CHECK", "CHECK2", "NOTIFY", "SEND"}
      /\ \E pc \in {"IDLE", "TAKE", "ALLOC", "NEXT", "SWAP", "INIT",
                    "EXHAUSTED", "LINK", "PUSH"} :
            ppc' = [ppc EXCEPT ![p] = pc]
      BY DEF Post, Take, AllocRoot, AllocNext, AllocSwap, InitElement,
             PoolExhausted, PushLink, Goto
<1>3. /\ ppc' \in [Posters -> {"IDLE", "TAKE", "ALLOC", "NEXT", "SWAP",
                               "INIT", "EXHAUSTED", "LINK", "PUSH", "CHECK",
                               "CHECK2", "NOTIFY", "SEND"}]
      /\ \A q \in Posters :
            ppc[q] \in {"CHECK", "CHECK2", "NOTIFY", "SEND"}
                => ppc'[q] = ppc[q]
      BY <1>2 DEF WakeInv, WakeType
<1>. QED  BY <1>1, <1>3
          DEF WakeInv, WakeType, FlagMeansEvent, FlagIsLocal, QueueIsKnown,
              EventComing

\* A poster pushes its element and notifies: who finds the flag clear sets it
\* and sends the event, who finds it set can rely on another event.
LEMMA LatePosterWake ==
    ASSUME WakeInv, NEW p \in Posters,
           PushSwap(p) \/ Check(p) \/ Notify(p) \/ Send(p)
    PROVE  WakeInv'
<1>. USE DEF WakeInv, WakeType, FlagMeansEvent, FlagIsLocal, QueueIsKnown,
             EventComing, Goto, loopVars
<1>1. UNCHANGED <<lpc, flag, cleared>>
      BY DEF PushSwap, Check, Notify, Send
<1>2. CASE PushSwap(p)
      BY <1>1, <1>2 DEF PushSwap
<1>3. CASE Check(p)
      BY <1>1, <1>3 DEF Check, queueVars
<1>4. CASE Notify(p)
      BY <1>1, <1>4 DEF Notify, queueVars
<1>5. CASE Send(p)
      BY <1>1, <1>5 DEF Send, queueVars
<1>. QED  BY <1>2, <1>3, <1>4, <1>5

\* The event loop.
LEMMA LoopWake ==
    ASSUME WakeInv, Loop
    PROVE  WakeInv'
<1>. USE DEF WakeInv, WakeType, FlagMeansEvent, FlagIsLocal, QueueIsKnown,
             EventComing
<1>0. ASSUME lpc \in {"IDLE", "POP", "WALK", "RELEASE", "FREE", "SWAP"},
             lpc' \in {"POP", "WALK", "RELEASE", "FREE", "SWAP", "FLAG"},
             events' \in Nat, UNCHANGED <<ppc, pending, flag, cleared>>
      PROVE  WakeInv'
  <2>1. ~cleared
        BY <1>0
  <2>. QED  BY <1>0, <2>1
<1>1. CASE Receive
      BY <1>0, <1>1 DEF Receive, posterVars
<1>2. CASE Pop \/ Unlink \/ Advance \/ Interrupted
  <2>1. /\ lpc \in {"POP", "WALK"}
        /\ lpc' \in {"POP", "WALK", "RELEASE", "FLAG"}
        /\ UNCHANGED <<events, ppc, pending, flag, cleared>>
        BY <1>2 DEF Pop, Unlink, Advance, Interrupted, posterVars
  <2>. QED  BY <1>0, <2>1
<1>3. CASE Release \/ Free
  <2>1. /\ lpc \in {"RELEASE", "FREE", "SWAP"}
        /\ lpc' \in {"FREE", "SWAP", "FLAG"}
        /\ UNCHANGED <<events, ppc, pending, flag, cleared>>
        BY <1>3 DEF Release, Free, posterVars
  <2>. QED  BY <1>0, <2>1
<1>4. CASE ReadFlag
      BY <1>4 DEF ReadFlag, queueVars, posterVars
<1>5. CASE ReadTail
  <2>. USE DEF ReadTail, Return, queueVars, posterVars
  <2>1. lpc = "EMPTY" /\ UNCHANGED <<tail, ppc, pending>>
        BY <1>5
  <2>2. CASE flag = 0 /\ tail = Null
    <3>1. /\ lpc' = "IDLE" /\ ~cleared' /\ cleared' \in BOOLEAN /\ flag' = 0
          /\ events' = events
          BY <1>5, <2>2
    <3>. QED  BY <2>1, <2>2, <3>1
  <2>3. CASE flag = 1 /\ tail # Null /\ cleared
    <3>1. /\ lpc' = "IDLE" /\ ~cleared' /\ cleared' \in BOOLEAN /\ flag' = 0
          /\ events' = events
      <4>1. flag # 0
            BY <2>3
      <4>. QED  BY <1>5, <2>3, <4>1, Zenon
    <3>2. EventComing
          BY <2>1, <2>3
    <3>. QED  BY <2>1, <2>3, <3>1, <3>2
  <2>4. CASE flag = 1 /\ tail # Null /\ ~cleared
    <3>1. /\ lpc' = "IDLE" /\ ~cleared' /\ cleared' \in BOOLEAN /\ flag' = 0
          /\ events' = events + 1
      <4>1. flag # 0
            BY <2>4
      <4>. QED  BY <1>5, <2>4, <4>1, Zenon
    <3>2. events' \in Nat /\ events' > 0
          BY <3>1
    <3>. QED  BY <2>1, <3>1, <3>2
  <2>5. CASE (flag = 0) = (tail # Null)
    <3>1. /\ lpc' = (IF flag = 0 THEN "SET" ELSE "CLEAR")
          /\ UNCHANGED <<events, cleared, flag>>
          BY <1>5, <2>5
    <3>. QED  BY <2>1, <2>5, <3>1
  <2>. QED  BY <2>2, <2>3, <2>4, <2>5
<1>6. CASE SetFlag
      BY <1>6 DEF SetFlag, queueVars, posterVars
<1>7. CASE ClearFlag
      BY <1>7 DEF ClearFlag, queueVars, posterVars
<1>8. CASE RunAgain
  <2>1. /\ lpc' = "IDLE" /\ ~cleared' /\ cleared' \in BOOLEAN /\ flag' = 0
        /\ events' = events + 1
        /\ UNCHANGED <<tail, ppc, pending>>
        BY <1>8 DEF RunAgain, Return, queueVars, posterVars
  <2>2. events' \in Nat /\ events' > 0
        BY <2>1
  <2>. QED  BY <2>1, <2>2
<1>. QED  BY <1>1, <1>2, <1>3, <1>4, <1>5, <1>6, <1>7, <1>8 DEF Loop

\* No wake-up is lost, for any number of posters and any pool.
THEOREM WakeupsArrive == Spec => []NoLostWakeup
<1>1. Init => WakeInv
  <2>. SUFFICES ASSUME Init PROVE WakeInv
       OBVIOUS
  <2>1. /\ ~cleared /\ cleared \in BOOLEAN /\ pending = 0 /\ flag = 0
        /\ lpc = "IDLE" /\ tail = Null /\ events = 0
        /\ ppc = [p \in Posters |-> "IDLE"]
        BY Zenon DEF Init
  <2>. QED  BY <2>1
            DEF WakeInv, WakeType, FlagMeansEvent, FlagIsLocal, QueueIsKnown
<1>2. ASSUME WakeInv, [Next]_vars
      PROVE  WakeInv'
  <2>1. CASE \E p \in Posters, storage \in Static \cup {Null} :
                storage \in Storage[p] /\ Post(p, storage)
        BY <1>2, <2>1, EarlyPosterWake
  <2>2. CASE \E p \in Posters : Poster(p)
        BY <1>2, <2>2, EarlyPosterWake, LatePosterWake DEF Poster
  <2>3. CASE Loop
        BY <1>2, <2>3, LoopWake
  <2>4. CASE Done \/ UNCHANGED vars
        BY <1>2, <2>4
        DEF Done, vars, queueVars, posterVars, loopVars, WakeInv, WakeType,
            FlagMeansEvent, FlagIsLocal, QueueIsKnown, EventComing
  <2>. QED  BY <1>2, <2>1, <2>2, <2>3, <2>4 DEF Next
<1>3. WakeInv => NoLostWakeup
      BY DEF WakeInv, WakeType, FlagMeansEvent, QueueIsKnown, EventComing,
             NoLostWakeup, AtWork
<1>. QED  BY <1>1, <1>2, <1>3, PTL DEF Spec

-----------------------------------------------------------------------------
(* Ownership.                                                              *)

\* What a poster knows of its element, by how far it has come.
PosterInv(p) ==
    /\ ppc[p] = "TAKE"
         => /\ elem[p] \in Static /\ elem[p] \in Storage[p]
            /\ p \in PoolUsers \/ elem[p] \notin lock
    /\ ppc[p] \in {"ALLOC", "NEXT", "SWAP", "INIT"} => p \in PoolUsers
    /\ ppc[p] \in {"NEXT", "SWAP"} => elem[p] \in free
    /\ ppc[p] = "SWAP" => seen[p] = next[elem[p]]
    /\ ppc[p] = "INIT" => elem[p] \in Pool
    /\ ppc[p] \in {"LINK", "PUSH"} => elem[p] \in Elements /\ elem[p] \in lock

\* What the event loop knows of its element.
LoopInv ==
    /\ lpc = "RELEASE" => cur \in Elements /\ cur \in lock
    /\ lpc \in {"FREE", "SWAP"} => cur \in Pool
    /\ lpc \notin {"RELEASE", "FREE", "SWAP"} => cur = Null

\* The walk of aq_pop_head is at the tail, or at an element behind which there
\* is an older one.
WalkInv ==
    lpc = "WALK"
        => /\ queue # <<>>
           /\ prev # Null => \E i \in 2 .. Len(queue) : prev = queue[i]

\* The queue, the free list, the event loop and the posters have different
\* elements, and those of the queue are locked.
Separate ==
    /\ \A i \in 1 .. Len(queue) :
          queue[i] \in lock /\ queue[i] \notin free /\ queue[i] # cur
    /\ \A i, j \in 1 .. Len(queue) : queue[i] = queue[j] => i = j
    /\ cur \notin free
    /\ \A p \in Posters : Owns(p)
          => /\ elem[p] \notin free /\ elem[p] # cur
             /\ \A i \in 1 .. Len(queue) : queue[i] # elem[p]
    /\ \A p, q \in Posters : Owns(p) /\ Owns(q) /\ elem[p] = elem[q] => p = q

\* Every element holds the callback it was queued with until it has been read.
Contents ==
    /\ lpc # "RELEASE"
         => /\ Len(waiting) = Len(queue)
            /\ \A i \in 1 .. Len(queue) : waiting[i] = call[queue[i]]
    /\ lpc = "RELEASE"
         => /\ Len(waiting) = Len(queue) + 1 /\ waiting[1] = call[cur]
            /\ \A i \in 1 .. Len(queue) : waiting[i + 1] = call[queue[i]]

\* The inductive invariant.
OwnInv ==
    /\ TypeOK /\ Linked /\ FreeLinked
    /\ \A p \in Posters : PosterInv(p)
    /\ LoopInv /\ WalkInv /\ Separate /\ Contents /\ inOrder

\* The elements of the pool, the static ones and the one for errors differ.
LEMMA ElementFacts ==
    /\ Null \notin Elements /\ Pool \subseteq Elements
    /\ Static \subseteq Elements /\ Exhausted \in Elements
    /\ Static \cap Pool = {} /\ Exhausted \notin Pool \cup Static
    /\ Null \notin Pool \cup Static /\ 1 \in Pool
BY SchedulerAssumption DEF Elements, Pool

\* The initial states.
LEMMA InitOwn ==
    ASSUME Init
    PROVE  OwnInv
<1>. USE DEF Init
<1>1. TypeOK
  <2>1. \A e \in Elements : next[e] \in Elements \cup {Null}
        BY ElementFacts, SchedulerAssumption DEF Pool
  <2>2. next \in [Elements -> Elements \cup {Null}]
        BY <2>1
  <2>3. inOrder \in BOOLEAN /\ cleared \in BOOLEAN
        BY Zenon
  <2>4. {tail, root, prev, cur} \subseteq Elements \cup {Null}
        BY ElementFacts
  <2>. QED  BY <2>2, <2>3, <2>4, ElementFacts DEF TypeOK
<1>2. queue = <<>> /\ Len(queue) = 0 /\ free = Pool
      BY DEF Init
<1>3. Linked
      BY <1>2 DEF Linked
<1>4. FreeLinked
  <2>1. root = 1 /\ 1 \in free
        BY <1>2, ElementFacts
  <2>2. ASSUME NEW e \in free
        PROVE  next[e] = IF e = PoolSize THEN Null ELSE e + 1
        BY <1>2, <2>2, SchedulerAssumption DEF Pool, Elements
  <2>3. Null \notin Nat
        BY SchedulerAssumption
  <2>. QED  BY <1>2, <2>1, <2>2, <2>3, SchedulerAssumption
            DEF FreeLinked, Pool
<1>5. \A p \in Posters : PosterInv(p)
      BY DEF PosterInv
<1>6. LoopInv /\ WalkInv
      BY DEF LoopInv, WalkInv
<1>7. Separate
      BY <1>2, ElementFacts DEF Separate, Owns
<1>8. Contents
      BY <1>2 DEF Contents
<1>9. inOrder
      BY Zenon
<1>. QED  BY <1>1, <1>3, <1>4, <1>5, <1>6, <1>7, <1>8, <1>9 DEF OwnInv

-----------------------------------------------------------------------------
\* A poster that looks for an element changes neither list.
LEMMA PostOwn ==
    ASSUME OwnInv, NEW p \in Posters, NEW storage \in Static \cup {Null},
           storage \in Storage[p], Post(p, storage)
    PROVE  OwnInv'
<1>. USE DEF OwnInv
<1>1. /\ UNCHANGED <<tail, next, root, lock, call, pending, events, seen,
                     lpc, prev, cur, cleared, flag, queue, free, waiting,
                     inOrder>>
      /\ ppc[p] = "IDLE"
      /\ p \in PoolUsers \/ storage \notin lock \cup {Null}
      /\ count' = [count EXCEPT ![p] = @ + 1]
      /\ elem' = [elem EXCEPT ![p] = storage]
      /\ ppc' = [ppc EXCEPT ![p] = IF storage = Null THEN "ALLOC" ELSE "TAKE"]
      BY DEF Post, Goto, queueVars, loopVars, historyVars
<1>2. TypeOK'
      BY <1>1, ElementFacts DEF TypeOK
<1>3. /\ \A q \in Posters \ {p} : ppc'[q] = ppc[q] /\ elem'[q] = elem[q]
      /\ ppc'[p] = (IF storage = Null THEN "ALLOC" ELSE "TAKE")
      /\ elem'[p] = storage
      BY <1>1 DEF TypeOK
<1>4. \A q \in Posters : PosterInv(q)'
      BY <1>1, <1>3 DEF PosterInv
<1>5. Separate'
      BY <1>1, <1>3 DEF Separate, Owns
<1>. QED  BY <1>1, <1>2, <1>4, <1>5
          DEF Linked, FreeLinked, LoopInv, WalkInv, Contents

\* aq_element_take: an element that is not locked has no owner, and nobody but
\* its poster waits to take it.
LEMMA TakeOwn ==
    ASSUME OwnStorage, OwnInv, NEW p \in Posters, Take(p)
    PROVE  OwnInv'
<1>. USE DEF OwnInv
<1>1. /\ UNCHANGED <<tail, next, root, pending, events, seen, count, lpc,
                     prev, cur, cleared, flag, queue, free, waiting, inOrder>>
      /\ ppc[p] = "TAKE"
      BY DEF Take, loopVars, historyVars
<1>2. /\ elem[p] \in Static /\ elem[p] \in Storage[p]
      /\ elem[p] \in Elements /\ elem[p] \notin Pool /\ elem[p] # Null
      BY <1>1, ElementFacts DEF PosterInv
<1>3. CASE elem[p] \notin lock
  <2>1. /\ lock' = lock \cup {elem[p]} /\ elem' = elem
        /\ call' = [call EXCEPT ![elem[p]] = <<p, count[p]>>]
        /\ ppc' = [ppc EXCEPT ![p] = "LINK"]
        BY <1>3 DEF Take, Goto
  <2>2. TypeOK'
    <3>1. <<p, count[p]>> \in Calls
          BY DEF TypeOK, Calls
    <3>. QED  BY <1>1, <1>2, <2>1, <3>1 DEF TypeOK
  <2>3. /\ \A q \in Posters \ {p} : ppc'[q] = ppc[q]
        /\ ppc'[p] = "LINK"
        BY <2>1 DEF TypeOK
  <2>4. /\ elem[p] \notin free /\ elem[p] # cur
        /\ \A i \in 1 .. Len(queue) : queue[i] # elem[p]
        /\ \A q \in Posters : Owns(q) => elem[q] # elem[p]
        BY <1>2, <1>3, ElementFacts
        DEF TypeOK, Separate, LoopInv, PosterInv, Owns
  <2>5. ASSUME NEW q \in Posters PROVE PosterInv(q)'
    <3>1. CASE q = p
          BY <1>2, <2>1, <2>3, <3>1 DEF PosterInv
    <3>2. CASE q # p
      <4>1. ppc[q] = "TAKE" /\ q \notin PoolUsers => elem[q] # elem[p]
            BY <1>2, <3>2 DEF OwnStorage, PosterInv
      <4>. QED  BY <1>1, <2>1, <2>3, <3>2, <4>1 DEF PosterInv
    <3>. QED  BY <3>1, <3>2
  <2>6. Separate'
        BY <1>1, <2>1, <2>3, <2>4 DEF Separate, Owns
  <2>7. Contents'
    <3>1. \A e \in Elements \ {elem[p]} : call'[e] = call[e]
          BY <2>1 DEF TypeOK
    <3>2. lpc = "RELEASE" => cur \in Elements /\ cur # elem[p]
          BY <2>4 DEF LoopInv
    <3>3. \A i \in 1 .. Len(queue) : queue[i] \in Elements \ {elem[p]}
          BY <2>4 DEF TypeOK
    <3>. QED  BY <1>1, <3>1, <3>2, <3>3 DEF Contents
  <2>8. LoopInv'
        BY <1>1, <2>1 DEF LoopInv
  <2>. QED  BY <1>1, <2>2, <2>5, <2>6, <2>7, <2>8
            DEF Linked, FreeLinked, WalkInv
<1>4. CASE elem[p] \in lock
  <2>1. /\ lock' = lock /\ call' = call
        /\ elem' = [elem EXCEPT ![p] = Null]
        /\ ppc' = [ppc EXCEPT ![p] = "ALLOC"]
        BY <1>4 DEF Take, Goto
  <2>2. TypeOK'
        BY <1>1, <2>1 DEF TypeOK
  <2>3. /\ \A q \in Posters \ {p} : ppc'[q] = ppc[q] /\ elem'[q] = elem[q]
        /\ ppc'[p] = "ALLOC" /\ p \in PoolUsers
        BY <1>1, <1>4, <2>1 DEF TypeOK, PosterInv
  <2>4. \A q \in Posters : PosterInv(q)'
        BY <1>1, <2>1, <2>3 DEF PosterInv
  <2>5. Separate'
        BY <1>1, <2>1, <2>3 DEF Separate, Owns
  <2>. QED  BY <1>1, <2>1, <2>2, <2>4, <2>5
            DEF Linked, FreeLinked, LoopInv, WalkInv, Contents
<1>. QED  BY <1>3, <1>4

\* callback_pool_alloc reads the root and its successor.
LEMMA AllocReadOwn ==
    ASSUME OwnInv, NEW p \in Posters, AllocRoot(p) \/ AllocNext(p)
    PROVE  OwnInv'
<1>. USE DEF OwnInv
<1>1. UNCHANGED <<tail, next, root, lock, call, pending, events, count, lpc,
                  prev, cur, cleared, flag, queue, free, waiting, inOrder>>
      BY DEF AllocRoot, AllocNext, queueVars, loopVars, historyVars
<1>2. CASE AllocRoot(p)
  <2>1. /\ ppc[p] = "ALLOC" /\ UNCHANGED seen
        /\ elem' = [elem EXCEPT ![p] = root]
        /\ ppc' = [ppc EXCEPT ![p] =
                      IF root = Null THEN "EXHAUSTED" ELSE "NEXT"]
        BY <1>2 DEF AllocRoot, Goto
  <2>2. TypeOK'
        BY <1>1, <2>1 DEF TypeOK
  <2>3. /\ \A q \in Posters \ {p} : ppc'[q] = ppc[q] /\ elem'[q] = elem[q]
        /\ ppc'[p] = (IF root = Null THEN "EXHAUSTED" ELSE "NEXT")
        /\ elem'[p] = root /\ p \in PoolUsers /\ root \in free \cup {Null}
        BY <2>1 DEF TypeOK, PosterInv, FreeLinked
  <2>4. \A q \in Posters : PosterInv(q)'
        BY <1>1, <2>1, <2>3 DEF PosterInv
  <2>5. Separate'
        BY <1>1, <2>3 DEF Separate, Owns
  <2>. QED  BY <1>1, <2>2, <2>4, <2>5
            DEF Linked, FreeLinked, LoopInv, WalkInv, Contents
<1>3. CASE AllocNext(p)
  <2>1. /\ ppc[p] = "NEXT" /\ UNCHANGED elem
        /\ seen' = [seen EXCEPT ![p] = next[elem[p]]]
        /\ ppc' = [ppc EXCEPT ![p] = "SWAP"]
        BY <1>3 DEF AllocNext, Goto
  <2>2. elem[p] \in free /\ elem[p] \in Elements /\ p \in PoolUsers
        BY <2>1, ElementFacts DEF PosterInv, TypeOK
  <2>3. TypeOK'
        BY <1>1, <2>1, <2>2 DEF TypeOK
  <2>4. /\ \A q \in Posters \ {p} : ppc'[q] = ppc[q] /\ seen'[q] = seen[q]
        /\ ppc'[p] = "SWAP" /\ seen'[p] = next[elem[p]]
        BY <2>1 DEF TypeOK
  <2>5. \A q \in Posters : PosterInv(q)'
        BY <1>1, <2>1, <2>2, <2>4 DEF PosterInv
  <2>6. Separate'
        BY <1>1, <2>1, <2>4 DEF Separate, Owns
  <2>. QED  BY <1>1, <2>3, <2>5, <2>6
            DEF Linked, FreeLinked, LoopInv, WalkInv, Contents
<1>. QED  BY <1>2, <1>3

\* The root is taken: only one thread takes elements, so that an unchanged
\* root has an unchanged successor.
LEMMA AllocSwapOwn ==
    ASSUME OnePoolUser, OwnInv, NEW p \in Posters, AllocSwap(p)
    PROVE  OwnInv'
<1>. USE DEF OwnInv
<1>1. /\ UNCHANGED <<tail, next, lock, call, pending, events, count, lpc,
                     prev, cur, cleared, flag, queue, waiting, inOrder>>
      /\ ppc[p] = "SWAP" /\ seen' = [seen EXCEPT ![p] = Null]
      BY DEF AllocSwap, loopVars
<1>2. /\ elem[p] \in free /\ elem[p] \in Pool /\ p \in PoolUsers
      /\ seen[p] = next[elem[p]] /\ elem[p] \in Elements
      BY <1>1, ElementFacts DEF PosterInv, TypeOK
<1>3. CASE root = elem[p]
  <2>1. /\ root' = seen[p] /\ free' = free \ {elem[p]} /\ UNCHANGED elem
        /\ ppc' = [ppc EXCEPT ![p] = "INIT"]
        BY <1>3 DEF AllocSwap, Goto
  <2>2. TypeOK'
        BY <1>1, <1>2, <2>1 DEF TypeOK
  <2>3. /\ \A q \in Posters \ {p} : ppc'[q] = ppc[q] /\ seen'[q] = seen[q]
        /\ ppc'[p] = "INIT"
        BY <1>1, <2>1 DEF TypeOK
  <2>4. \A q \in Posters \ {p} : ppc[q] \notin {"NEXT", "SWAP"}
        BY <1>2 DEF OnePoolUser, PosterInv
  <2>5. \A q \in Posters : PosterInv(q)'
        BY <1>1, <1>2, <2>1, <2>3, <2>4 DEF PosterInv
  <2>6. FreeLinked'
        BY <1>1, <1>2, <1>3, <2>1 DEF FreeLinked
  <2>7. Separate'
        BY <1>1, <1>2, <2>1, <2>3 DEF Separate, Owns
  <2>. QED  BY <1>1, <2>2, <2>5, <2>6, <2>7
            DEF Linked, LoopInv, WalkInv, Contents
<1>4. CASE root # elem[p]
  <2>1. /\ elem' = [elem EXCEPT ![p] = Null] /\ UNCHANGED <<root, free>>
        /\ ppc' = [ppc EXCEPT ![p] = "ALLOC"]
        BY <1>4 DEF AllocSwap, Goto
  <2>2. TypeOK'
        BY <1>1, <2>1 DEF TypeOK
  <2>3. /\ \A q \in Posters \ {p} :
              ppc'[q] = ppc[q] /\ elem'[q] = elem[q] /\ seen'[q] = seen[q]
        /\ ppc'[p] = "ALLOC"
        BY <1>1, <2>1 DEF TypeOK
  <2>4. \A q \in Posters : PosterInv(q)'
        BY <1>1, <1>2, <2>1, <2>3 DEF PosterInv
  <2>5. Separate'
        BY <1>1, <2>1, <2>3 DEF Separate, Owns
  <2>. QED  BY <1>1, <2>1, <2>2, <2>4, <2>5
            DEF Linked, FreeLinked, LoopInv, WalkInv, Contents
<1>. QED  BY <1>3, <1>4

\* The pool is empty: the error callback is taken like any other element.
LEMMA PoolExhaustedOwn ==
    ASSUME OwnInv, NEW p \in Posters, PoolExhausted(p)
    PROVE  OwnInv'
<1>. USE DEF OwnInv
<1>1. /\ UNCHANGED <<tail, next, root, pending, events, seen, count, lpc,
                     prev, cur, cleared, flag, queue, free, waiting, inOrder>>
      /\ ppc[p] = "EXHAUSTED"
      BY DEF PoolExhausted, loopVars, historyVars
<1>2. CASE Exhausted \notin lock
  <2>1. /\ lock' = lock \cup {Exhausted}
        /\ call' = [call EXCEPT ![Exhausted] = Error]
        /\ elem' = [elem EXCEPT ![p] = Exhausted]
        /\ ppc' = [ppc EXCEPT ![p] = "LINK"]
        BY <1>2 DEF PoolExhausted, Goto
  <2>2. TypeOK'
        BY <1>1, <2>1, ElementFacts DEF TypeOK
  <2>3. /\ \A q \in Posters \ {p} : ppc'[q] = ppc[q] /\ elem'[q] = elem[q]
        /\ ppc'[p] = "LINK" /\ elem'[p] = Exhausted
        BY <2>1 DEF TypeOK
  <2>4. /\ Exhausted \notin free /\ Exhausted # cur
        /\ \A i \in 1 .. Len(queue) : queue[i] # Exhausted
        /\ \A q \in Posters : Owns(q) => elem[q] # Exhausted
        BY <1>2, ElementFacts
        DEF TypeOK, Separate, LoopInv, PosterInv, Owns
  <2>5. \A q \in Posters : PosterInv(q)'
        BY <1>1, <2>1, <2>3, ElementFacts DEF PosterInv
  <2>6. Separate'
        BY <1>1, <2>1, <2>3, <2>4 DEF Separate, Owns
  <2>7. Contents'
    <3>1. \A e \in Elements \ {Exhausted} : call'[e] = call[e]
          BY <2>1 DEF TypeOK
    <3>2. lpc = "RELEASE" => cur \in Elements /\ cur # Exhausted
          BY <2>4 DEF LoopInv
    <3>3. \A i \in 1 .. Len(queue) : queue[i] \in Elements \ {Exhausted}
          BY <2>4 DEF TypeOK
    <3>. QED  BY <1>1, <3>1, <3>2, <3>3 DEF Contents
  <2>8. LoopInv'
        BY <1>1, <2>1 DEF LoopInv
  <2>. QED  BY <1>1, <2>2, <2>5, <2>6, <2>7, <2>8
            DEF Linked, FreeLinked, WalkInv
<1>3. CASE Exhausted \in lock
  <2>1. /\ UNCHANGED <<lock, call, elem>>
        /\ ppc' = [ppc EXCEPT ![p] = "IDLE"]
        BY <1>3 DEF PoolExhausted, Goto
  <2>2. TypeOK'
        BY <1>1, <2>1 DEF TypeOK
  <2>3. /\ \A q \in Posters \ {p} : ppc'[q] = ppc[q]
        /\ ppc'[p] = "IDLE"
        BY <2>1 DEF TypeOK
  <2>4. \A q \in Posters : PosterInv(q)'
        BY <1>1, <2>1, <2>3 DEF PosterInv
  <2>5. Separate'
        BY <1>1, <2>1, <2>3 DEF Separate, Owns
  <2>. QED  BY <1>1, <2>1, <2>2, <2>4, <2>5
            DEF Linked, FreeLinked, LoopInv, WalkInv, Contents
<1>. QED  BY <1>2, <1>3

\* A poster that owns an element may change its link: it is in no list.
LEMMA OwnLink ==
    ASSUME OwnInv, NEW p \in Posters, Owns(p), NEW v \in Elements \cup {Null},
           next' = [next EXCEPT ![elem[p]] = v],
           UNCHANGED <<tail, root, queue, free>>
    PROVE  /\ next' \in [Elements -> Elements \cup {Null}]
           /\ Linked' /\ FreeLinked'
           /\ \A e \in free : next'[e] = next[e]
<1>1. /\ elem[p] \notin free
      /\ \A i \in 1 .. Len(queue) : queue[i] # elem[p]
      BY DEF OwnInv, Separate
<1>2. /\ next' \in [Elements -> Elements \cup {Null}]
      /\ \A e \in Elements \ {elem[p]} : next'[e] = next[e]
      BY DEF OwnInv, TypeOK
<1>3. \A e \in free : next'[e] = next[e]
      BY <1>1, <1>2, ElementFacts DEF OwnInv, TypeOK
<1>4. \A i \in 1 .. Len(queue) : next'[queue[i]] = next[queue[i]]
      BY <1>1, <1>2 DEF OwnInv, TypeOK
<1>. QED  BY <1>2, <1>3, <1>4 DEF OwnInv, Linked, FreeLinked

\* An element of the pool is initialised, taken and filled by its owner.
LEMMA InitElementOwn ==
    ASSUME OwnInv, NEW p \in Posters, InitElement(p)
    PROVE  OwnInv'
<1>. USE DEF OwnInv
<1>1. /\ UNCHANGED <<tail, root, pending, events, elem, seen, count, lpc,
                     prev, cur, cleared, flag, queue, free, waiting, inOrder>>
      /\ ppc[p] = "INIT"
      /\ next' = [next EXCEPT ![elem[p]] = Null]
      /\ lock' = lock \cup {elem[p]}
      /\ call' = [call EXCEPT ![elem[p]] = <<p, count[p]>>]
      /\ ppc' = [ppc EXCEPT ![p] = "LINK"]
      BY DEF InitElement, Goto, loopVars, historyVars
<1>2. Owns(p) /\ elem[p] \in Pool /\ elem[p] \in Elements
      BY <1>1, ElementFacts DEF Owns, PosterInv
<1>3. /\ next' \in [Elements -> Elements \cup {Null}]
      /\ Linked' /\ FreeLinked'
      /\ \A e \in free : next'[e] = next[e]
      BY <1>1, <1>2, OwnLink
<1>4. TypeOK'
  <2>1. <<p, count[p]>> \in Calls
        BY DEF TypeOK, Calls
  <2>. QED  BY <1>1, <1>2, <1>3, <2>1 DEF TypeOK
<1>5. /\ \A q \in Posters \ {p} : ppc'[q] = ppc[q]
      /\ ppc'[p] = "LINK"
      BY <1>1 DEF TypeOK
<1>6. \A q \in Posters : PosterInv(q)'
      BY <1>1, <1>2, <1>3, <1>5, ElementFacts DEF PosterInv
<1>7. Separate'
      BY <1>1, <1>2, <1>5 DEF Separate, Owns
<1>8. Contents'
  <2>1. \A e \in Elements \ {elem[p]} : call'[e] = call[e]
        BY <1>1 DEF TypeOK
  <2>2. lpc = "RELEASE" => cur \in Elements /\ cur # elem[p]
        BY <1>2 DEF LoopInv, Separate
  <2>3. \A i \in 1 .. Len(queue) : queue[i] \in Elements \ {elem[p]}
        BY <1>2 DEF TypeOK, Separate
  <2>. QED  BY <1>1, <2>1, <2>2, <2>3 DEF Contents
<1>9. LoopInv' /\ WalkInv'
      BY <1>1 DEF LoopInv, WalkInv
<1>. QED  BY <1>1, <1>3, <1>4, <1>6, <1>7, <1>8, <1>9

\* aq_push_tail reads the tail into the link of the element ...
LEMMA PushLinkOwn ==
    ASSUME OwnInv, NEW p \in Posters, PushLink(p)
    PROVE  OwnInv'
<1>. USE DEF OwnInv
<1>1. /\ UNCHANGED <<tail, root, lock, call, pending, events, elem, seen,
                     count, lpc, prev, cur, cleared, flag, queue, free,
                     waiting, inOrder>>
      /\ ppc[p] = "LINK"
      /\ next' = [next EXCEPT ![elem[p]] = tail]
      /\ ppc' = [ppc EXCEPT ![p] = "PUSH"]
      BY DEF PushLink, Goto, loopVars, historyVars
<1>2. Owns(p) /\ elem[p] \in Elements /\ elem[p] \in lock
      BY <1>1 DEF Owns, PosterInv
<1>3. /\ next' \in [Elements -> Elements \cup {Null}]
      /\ Linked' /\ FreeLinked'
      /\ \A e \in free : next'[e] = next[e]
  <2>1. tail \in Elements \cup {Null}
        BY DEF TypeOK
  <2>. QED  BY <1>1, <1>2, <2>1, OwnLink
<1>4. TypeOK'
      BY <1>1, <1>3 DEF TypeOK
<1>5. /\ \A q \in Posters \ {p} : ppc'[q] = ppc[q]
      /\ ppc'[p] = "PUSH"
      BY <1>1 DEF TypeOK
<1>6. \A q \in Posters : PosterInv(q)'
      BY <1>1, <1>2, <1>3, <1>5 DEF PosterInv
<1>7. Separate'
      BY <1>1, <1>2, <1>5 DEF Separate, Owns
<1>. QED  BY <1>1, <1>3, <1>4, <1>6, <1>7
          DEF LoopInv, WalkInv, Contents

\* ... and swaps the element in if the tail is still the same.
LEMMA PushSwapOwn ==
    ASSUME OwnInv, NEW p \in Posters, PushSwap(p)
    PROVE  OwnInv'
<1>. USE DEF OwnInv
<1>1. /\ UNCHANGED <<next, root, lock, call, pending, events, elem, seen,
                     count, lpc, prev, cur, cleared, flag, free, inOrder>>
      /\ ppc[p] = "PUSH"
      BY DEF PushSwap, loopVars
<1>2. Owns(p) /\ elem[p] \in Elements /\ elem[p] \in lock
      BY <1>1 DEF Owns, PosterInv
<1>3. CASE tail = next[elem[p]]
  <2>. DEFINE n == Len(queue)
  <2>1. /\ tail' = elem[p] /\ queue' = Append(queue, elem[p])
        /\ waiting' = Append(waiting, call[elem[p]])
        /\ ppc' = [ppc EXCEPT ![p] = "CHECK"]
        BY <1>3 DEF PushSwap, Goto
  <2>2. queue \in Seq(Elements) /\ waiting \in Seq(Calls \cup {Error})
        BY DEF TypeOK
  <2>3. /\ n \in Nat /\ Len(queue') = n + 1 /\ queue'[n + 1] = elem[p]
        /\ \A i \in 1 .. n : queue'[i] = queue[i]
        BY <2>1, <2>2
  <2>4. /\ Len(waiting) \in Nat /\ Len(waiting') = Len(waiting) + 1
        /\ waiting'[Len(waiting) + 1] = call[elem[p]]
        /\ \A i \in 1 .. Len(waiting) : waiting'[i] = waiting[i]
        BY <2>1, <2>2
  <2>5. TypeOK'
    <3>1. call[elem[p]] \in Calls \cup {Error}
          BY <1>2 DEF TypeOK
    <3>2. /\ queue' \in Seq(Elements)
          /\ waiting' \in Seq(Calls \cup {Error})
          BY <1>2, <2>1, <2>2, <3>1
    <3>. QED  BY <1>1, <1>2, <2>1, <3>2 DEF TypeOK
  <2>6. /\ \A q \in Posters \ {p} : ppc'[q] = ppc[q]
        /\ ppc'[p] = "CHECK"
        BY <2>1 DEF TypeOK
  <2>7. Linked'
    <3>1. /\ n = 0 <=> queue = <<>>
          /\ queue' # <<>>
          BY <2>1, <2>2
    <3>2. next[elem[p]] = IF n + 1 = 1 THEN Null ELSE queue[n]
          BY <1>3, <2>2, <2>3, <3>1 DEF Linked
    <3>3. ASSUME NEW i \in 1 .. n + 1
          PROVE  next[queue'[i]] = IF i = 1 THEN Null ELSE queue'[i - 1]
      <4>1. CASE i = n + 1
            BY <2>3, <3>2, <4>1
      <4>2. CASE i \in 1 .. n
            BY <2>3, <4>2 DEF Linked
      <4>. QED  BY <2>3, <4>1, <4>2
    <3>. QED  BY <1>1, <2>1, <2>3, <3>1, <3>3 DEF Linked
  <2>8. \A q \in Posters : PosterInv(q)'
        BY <1>1, <2>6 DEF PosterInv
  <2>9. Separate'
    <3>1. /\ elem[p] \notin free /\ elem[p] # cur
          /\ \A i \in 1 .. n : queue[i] # elem[p]
          /\ \A q \in Posters \ {p} : Owns(q) => elem[q] # elem[p]
          BY <1>2 DEF Separate
    <3>2. \A i \in 1 .. n + 1 : i = n + 1 \/ i \in 1 .. n
          BY <2>3
    <3>3. \A i \in 1 .. n + 1 : /\ queue'[i] \in lock /\ queue'[i] \notin free
                                /\ queue'[i] # cur
          BY <1>2, <2>3, <3>1, <3>2 DEF Separate
    <3>4. \A i, j \in 1 .. n + 1 : queue'[i] = queue'[j] => i = j
          BY <2>3, <3>1, <3>2 DEF Separate
    <3>5. \A q \in Posters : Owns(q)' => q # p /\ Owns(q)
          BY <2>6 DEF Owns
    <3>6. \A q \in Posters : Owns(q)'
             => \A i \in 1 .. n + 1 : queue'[i] # elem[q]
          BY <2>3, <3>1, <3>2, <3>5 DEF Separate
    <3>. QED  BY <1>1, <2>3, <3>3, <3>4, <3>5, <3>6 DEF Separate
  <2>10. Contents'
    <3>1. \A i \in 1 .. n + 1 : i = n + 1 \/ i \in 1 .. n
          BY <2>3
    <3>2. CASE lpc # "RELEASE"
      <4>1. Len(waiting) = n /\ \A i \in 1 .. n : waiting[i] = call[queue[i]]
            BY <3>2 DEF Contents
      <4>2. \A i \in 1 .. n + 1 : waiting'[i] = call[queue'[i]]
            BY <2>3, <2>4, <3>1, <4>1
      <4>. QED  BY <1>1, <2>3, <2>4, <3>2, <4>1, <4>2 DEF Contents
    <3>3. CASE lpc = "RELEASE"
      <4>1. /\ Len(waiting) = n + 1 /\ waiting[1] = call[cur]
            /\ \A i \in 1 .. n : waiting[i + 1] = call[queue[i]]
            BY <3>3 DEF Contents
      <4>2. \A i \in 1 .. n + 1 : waiting'[i + 1] = call[queue'[i]]
            BY <2>3, <2>4, <3>1, <4>1
      <4>3. waiting'[1] = call[cur]
            BY <2>3, <2>4, <4>1
      <4>. QED  BY <1>1, <2>3, <2>4, <3>3, <4>1, <4>2, <4>3 DEF Contents
    <3>. QED  BY <3>2, <3>3
  <2>11. WalkInv'
        BY <1>1, <2>1, <2>2, <2>3 DEF WalkInv
  <2>. QED  BY <1>1, <2>5, <2>7, <2>8, <2>9, <2>10, <2>11
            DEF FreeLinked, LoopInv
<1>4. CASE tail # next[elem[p]]
  <2>1. /\ UNCHANGED <<tail, queue, waiting>>
        /\ ppc' = [ppc EXCEPT ![p] = "LINK"]
        BY <1>4 DEF PushSwap, Goto
  <2>2. TypeOK'
        BY <1>1, <2>1 DEF TypeOK
  <2>3. /\ \A q \in Posters \ {p} : ppc'[q] = ppc[q]
        /\ ppc'[p] = "LINK"
        BY <2>1 DEF TypeOK
  <2>4. \A q \in Posters : PosterInv(q)'
        BY <1>1, <1>2, <2>1, <2>3 DEF PosterInv
  <2>5. Separate'
        BY <1>1, <1>2, <2>1, <2>3 DEF Separate, Owns
  <2>. QED  BY <1>1, <2>1, <2>2, <2>4, <2>5
            DEF Linked, FreeLinked, LoopInv, WalkInv, Contents
<1>. QED  BY <1>3, <1>4

\* The notification does not touch the lists.
LEMMA NotifyOwn ==
    ASSUME OwnInv, NEW p \in Posters, Check(p) \/ Notify(p) \/ Send(p)
    PROVE  OwnInv'
<1>. USE DEF OwnInv
<1>1. UNCHANGED <<tail, next, root, lock, call, seen, count, lpc, prev, cur,
                  cleared, flag, queue, free, waiting, inOrder>>
      BY DEF Check, Notify, Send, queueVars, loopVars, historyVars
<1>2. /\ ppc[p] \in {"CHECK", "CHECK2", "NOTIFY", "SEND"}
      /\ \E pc \in {"IDLE", "CHECK", "CHECK2", "NOTIFY", "SEND"} :
            ppc' = [ppc EXCEPT ![p] = pc]
      BY DEF Check, Notify, Send, Goto
<1>3. \E e \in {elem[p], Null} : elem' = [elem EXCEPT ![p] = e]
  <2>1. CASE Check(p)
        BY <2>1 DEF Check
  <2>2. CASE Notify(p) \/ Send(p)
    <3>1. elem' = elem
          BY <2>2 DEF Notify, Send
    <3>. QED  BY <3>1 DEF TypeOK
  <2>. QED  BY <2>1, <2>2
<1>4. pending' \in {0, 1} /\ events' \in Nat
      BY DEF Check, Notify, Send, TypeOK
<1>5. TypeOK'
      BY <1>1, <1>2, <1>3, <1>4 DEF TypeOK
<1>6. /\ \A q \in Posters \ {p} : ppc'[q] = ppc[q] /\ elem'[q] = elem[q]
      /\ ppc'[p] \in {"IDLE", "CHECK", "CHECK2", "NOTIFY", "SEND"}
      BY <1>2, <1>3 DEF TypeOK
<1>7. \A q \in Posters : PosterInv(q)'
      BY <1>1, <1>6 DEF PosterInv
<1>8. Separate'
      BY <1>1, <1>6 DEF Separate, Owns
<1>. QED  BY <1>1, <1>5, <1>7, <1>8
          DEF Linked, FreeLinked, LoopInv, WalkInv, Contents

-----------------------------------------------------------------------------
\* Steps of the event loop that change neither the lists nor its element.
LEMMA LoopControlOwn ==
    ASSUME OwnInv,
           Receive \/ Pop \/ Interrupted \/ ReadFlag \/ ReadTail \/ SetFlag
               \/ RunAgain \/ ClearFlag
    PROVE  OwnInv'
<1>. USE DEF OwnInv
<1>1. UNCHANGED <<tail, next, root, lock, call, ppc, elem, seen, count, cur,
                  queue, free, waiting, inOrder>>
      BY DEF Receive, Pop, Interrupted, ReadFlag, ReadTail, SetFlag,
             RunAgain, ClearFlag, queueVars, posterVars, historyVars
<1>2. /\ lpc \notin {"RELEASE", "FREE", "SWAP"}
      /\ lpc' \in {"IDLE", "POP", "WALK", "FLAG", "EMPTY", "SET", "AGAIN",
                   "CLEAR"}
      BY DEF Receive, Pop, Interrupted, ReadFlag, ReadTail, SetFlag,
             RunAgain, ClearFlag, Return
<1>3. prev' \in {prev, Null} /\ (lpc' = "WALK" => prev' = Null /\ tail # Null)
      BY DEF Receive, Pop, Interrupted, ReadFlag, ReadTail, SetFlag,
             RunAgain, ClearFlag, Return
<1>4. pending' \in {0, 1} /\ flag' \in {0, 1} /\ events' \in Nat
  <2>1. CASE Receive \/ Pop \/ Interrupted \/ ReadFlag
        BY <2>1 DEF Receive, Pop, Interrupted, ReadFlag, TypeOK
  <2>2. CASE ReadTail \/ SetFlag \/ RunAgain \/ ClearFlag
        BY <2>2 DEF ReadTail, SetFlag, RunAgain, ClearFlag, Return, TypeOK
  <2>. QED  BY <2>1, <2>2
<1>5. cleared' \in BOOLEAN
  <2>1. cleared \in BOOLEAN
        BY DEF TypeOK
  <2>. QED  BY <2>1, Zenon
            DEF Receive, Pop, Interrupted, ReadFlag, ReadTail, SetFlag,
                RunAgain, ClearFlag, Return
<1>6. TypeOK'
      BY <1>1, <1>2, <1>3, <1>4, <1>5 DEF TypeOK
<1>7. WalkInv'
      BY <1>1, <1>3 DEF WalkInv, Linked
<1>. QED  BY <1>1, <1>2, <1>6, <1>7
          DEF Linked, FreeLinked, PosterInv, LoopInv, Separate, Owns, Contents

\* Where the walk is: *px is an element of the queue.
LEMMA WalkPosition ==
    ASSUME OwnInv, lpc = "WALK"
    PROVE  /\ queue \in Seq(Elements) /\ Len(queue) \in Nat \ {0}
           /\ \E k \in 1 .. Len(queue) :
                 /\ Current = queue[k]
                 /\ prev = Null => k = Len(queue)
                 /\ prev # Null => k < Len(queue) /\ prev = queue[k + 1]
<1>1. /\ queue \in Seq(Elements) /\ queue # <<>>
      BY DEF OwnInv, TypeOK, WalkInv
<1>2. Len(queue) \in Nat \ {0}
      BY <1>1
<1>3. CASE prev = Null
      BY <1>1, <1>2, <1>3 DEF OwnInv, Linked, Current
<1>4. CASE prev # Null
  <2>1. PICK i \in 2 .. Len(queue) : prev = queue[i]
        BY <1>4 DEF OwnInv, WalkInv
  <2>2. Current = queue[i - 1]
        BY <1>2, <1>4, <2>1 DEF OwnInv, Linked, Current
  <2>3. i - 1 \in 1 .. Len(queue) /\ i - 1 < Len(queue) /\ (i - 1) + 1 = i
        BY <1>2
  <2>. QED  BY <1>1, <1>2, <1>4, <2>1, <2>2, <2>3
<1>. QED  BY <1>1, <1>2, <1>3, <1>4

\* The walk goes on; it never finds a loop.
LEMMA AdvanceOwn ==
    ASSUME OwnInv, Advance
    PROVE  OwnInv'
<1>. USE DEF OwnInv
<1>1. /\ UNCHANGED <<tail, next, root, lock, call, pending, events, ppc,
                     elem, seen, count, cur, cleared, flag, queue, free,
                     waiting, inOrder>>
      /\ lpc = "WALK" /\ next[Current] # Null
      BY DEF Advance, queueVars, posterVars, historyVars
<1>2. PICK k \in 1 .. Len(queue) : Current = queue[k]
      BY <1>1, WalkPosition
<1>3. Len(queue) \in Nat \ {0} /\ queue \in Seq(Elements)
      BY <1>1, WalkPosition
<1>4. k \in 2 .. Len(queue) /\ next[Current] = queue[k - 1]
      BY <1>1, <1>2, <1>3 DEF Linked
<1>5. next[Current] # tail
  <2>1. tail = queue[Len(queue)]
        BY <1>3 DEF Linked
  <2>. QED  BY <1>3, <1>4, <2>1 DEF Separate
<1>6. lpc' = "WALK" /\ prev' = queue[k]
      BY <1>2, <1>5 DEF Advance
<1>7. TypeOK'
  <2>1. queue[k] \in Elements
        BY <1>3
  <2>. QED  BY <1>1, <1>6, <2>1 DEF TypeOK
<1>8. WalkInv'
      BY <1>1, <1>3, <1>4, <1>6 DEF WalkInv
<1>. QED  BY <1>1, <1>6, <1>7, <1>8
          DEF Linked, FreeLinked, PosterInv, LoopInv, Separate, Owns, Contents

\* The element that is unlinked is the oldest one.
LEMMA UnlinkOwn ==
    ASSUME OwnInv, Unlink
    PROVE  OwnInv'
<1>. USE DEF OwnInv
<1>. DEFINE n == Len(queue)
<1>1. /\ UNCHANGED <<root, lock, call, pending, events, ppc, elem, seen,
                     count, cleared, flag, free, waiting, inOrder>>
      /\ lpc = "WALK" /\ next[Current] = Null /\ cur' = Current
      /\ prev' = Null /\ queue' = Tail(queue) /\ lpc' = "RELEASE"
      BY DEF Unlink, posterVars
<1>2. n \in Nat \ {0} /\ queue \in Seq(Elements)
      BY <1>1, WalkPosition
<1>3. PICK k \in 1 .. n : /\ Current = queue[k]
                          /\ prev = Null => k = n
                          /\ prev # Null => k < n /\ prev = queue[k + 1]
      BY <1>1, WalkPosition
<1>4. k = 1
  <2>1. \A i \in 1 .. n : queue[i] # Null
        BY <1>2, ElementFacts
  <2>. QED  BY <1>1, <1>2, <1>3, <2>1 DEF Linked
<1>5. /\ Len(queue') = n - 1 /\ queue' \in Seq(Elements)
      /\ \A i \in 1 .. n - 1 : queue'[i] = queue[i + 1]
      BY <1>1, <1>2
<1>6. cur' = queue[1] /\ queue[1] \in Elements /\ cur = Null
      BY <1>1, <1>2, <1>3, <1>4 DEF LoopInv
<1>7. \A i \in 1 .. n - 1 : queue'[i] # queue[1]
      BY <1>2, <1>5 DEF Separate
<1>8. /\ next' \in [Elements -> Elements \cup {Null}]
      /\ \A e \in Elements : e = prev \/ next'[e] = next[e]
      /\ tail' \in Elements \cup {Null}
      /\ prev # Null => next'[prev] = Null /\ tail' = tail
      /\ prev = Null => tail' = Null
  <2>1. CASE prev = Null
        BY <2>1 DEF Unlink, TypeOK
  <2>2. CASE prev # Null
        BY <2>2, <1>2, <1>3 DEF Unlink, TypeOK
  <2>. QED  BY <2>1, <2>2
<1>9. prev # Null => n >= 2 /\ prev = queue[2]
      BY <1>2, <1>3, <1>4
<1>10. TypeOK'
      BY <1>1, <1>5, <1>6, <1>8 DEF TypeOK
<1>11. Linked'
  <2>1. CASE prev = Null
    <3>1. n = 1 /\ queue' = <<>> /\ Len(queue') = 0
          BY <1>2, <1>3, <1>4, <1>5, <2>1
    <3>. QED  BY <1>8, <2>1, <3>1 DEF Linked
  <2>2. CASE prev # Null
    <3>1. queue' # <<>> /\ Len(queue') >= 1
          BY <1>2, <1>5, <1>9, <2>2
    <3>2. tail' = queue'[Len(queue')]
          BY <1>2, <1>5, <1>8, <1>9, <2>2 DEF Linked
    <3>3. ASSUME NEW i \in 1 .. n - 1
          PROVE  next'[queue'[i]] = IF i = 1 THEN Null ELSE queue'[i - 1]
      <4>1. CASE i = 1
            BY <1>2, <1>5, <1>8, <1>9, <2>2, <4>1
      <4>2. CASE i # 1
        <5>1. i + 1 \in 1 .. n /\ i - 1 \in 1 .. n - 1 /\ (i - 1) + 1 = i
              BY <1>2, <4>2
        <5>2. queue'[i] = queue[i + 1] /\ queue'[i - 1] = queue[i]
              BY <1>5, <5>1
        <5>3. queue[i + 1] \in Elements /\ queue[i + 1] # prev
              BY <1>2, <1>9, <2>2, <4>2, <5>1 DEF Separate
        <5>4. next[queue[i + 1]] = queue[i]
              BY <1>2, <4>2, <5>1 DEF Linked
        <5>. QED  BY <1>8, <4>2, <5>2, <5>3, <5>4
      <4>. QED  BY <4>1, <4>2
    <3>. QED  BY <1>5, <3>1, <3>2, <3>3 DEF Linked
  <2>. QED  BY <2>1, <2>2
<1>12. prev \notin free
  <2>1. CASE prev = Null
        BY <2>1, ElementFacts DEF TypeOK
  <2>2. CASE prev # Null
    <3>1. 2 \in 1 .. n /\ prev = queue[2]
          BY <1>2, <1>9, <2>2
    <3>. QED  BY <3>1 DEF Separate
  <2>. QED  BY <2>1, <2>2
<1>13. \A e \in free : next'[e] = next[e]
      BY <1>8, <1>12, ElementFacts DEF TypeOK
<1>14. FreeLinked'
      BY <1>1, <1>13 DEF FreeLinked
<1>15. \A p \in Posters : PosterInv(p)'
      BY <1>1, <1>13 DEF PosterInv
<1>16. LoopInv' /\ WalkInv'
  <2>1. 1 \in 1 .. n
        BY <1>2
  <2>2. queue[1] \in lock
        BY <2>1 DEF Separate
  <2>. QED  BY <1>1, <1>6, <2>2 DEF LoopInv, WalkInv
<1>17. Separate'
  <2>1. \A i \in 1 .. n - 1 : /\ i + 1 \in 1 .. n /\ queue'[i] = queue[i + 1]
        BY <1>2, <1>5
  <2>2. 1 \in 1 .. n
        BY <1>2
  <2>. QED  BY <1>1, <1>2, <1>5, <1>6, <1>7, <2>1, <2>2 DEF Separate, Owns
<1>18. Contents'
  <2>1. Len(waiting) = n /\ \A i \in 1 .. n : waiting[i] = call[queue[i]]
        BY <1>1 DEF Contents
  <2>2. \A i \in 1 .. n - 1 : waiting[i + 1] = call[queue'[i]]
        BY <1>2, <1>5, <2>1
  <2>3. waiting[1] = call[queue[1]] /\ (n - 1) + 1 = n
        BY <1>2, <2>1
  <2>. QED  BY <1>1, <1>5, <1>6, <2>1, <2>2, <2>3 DEF Contents
<1>. QED  BY <1>1, <1>10, <1>11, <1>14, <1>15, <1>16, <1>17, <1>18

\* The contents are read and the lock is released: the callback is the one
\* that waits longest.
LEMMA ReleaseOwn ==
    ASSUME OwnInv, Release
    PROVE  OwnInv'
<1>. USE DEF OwnInv
<1>. DEFINE n == Len(queue)
<1>1. /\ UNCHANGED <<tail, next, root, pending, events, ppc, elem, seen,
                     count, prev, cleared, flag, queue, free>>
      /\ lpc = "RELEASE"
      /\ inOrder' = (inOrder /\ waiting # <<>> /\ call[cur] = Head(waiting))
      /\ waiting' = Tail(waiting)
      /\ call' = [call EXCEPT ![cur] = Error] /\ lock' = lock \ {cur}
      /\ lpc' = (IF cur \in Pool THEN "FREE" ELSE "FLAG")
      /\ cur' = (IF cur \in Pool THEN cur ELSE Null)
      BY DEF Release, posterVars
<1>2. /\ cur \in Elements /\ cur \in lock
      /\ queue \in Seq(Elements) /\ waiting \in Seq(Calls \cup {Error})
      /\ n \in Nat /\ Len(waiting) = n + 1 /\ waiting[1] = call[cur]
      /\ \A i \in 1 .. n : waiting[i + 1] = call[queue[i]]
      BY <1>1 DEF TypeOK, LoopInv, Contents
<1>3. /\ waiting # <<>> /\ Head(waiting) = waiting[1]
      /\ Tail(waiting) \in Seq(Calls \cup {Error}) /\ Len(Tail(waiting)) = n
      /\ \A i \in 1 .. n : Tail(waiting)[i] = waiting[i + 1]
      BY <1>2
<1>4. inOrder' /\ inOrder' \in BOOLEAN
  <2>1. waiting # <<>> /\ call[cur] = Head(waiting)
        BY <1>2, <1>3
  <2>. QED  BY <1>1, <2>1, Zenon
<1>5. TypeOK'
      BY <1>1, <1>2, <1>3, <1>4, ElementFacts DEF TypeOK
<1>6. Contents'
  <2>1. \A i \in 1 .. n : queue[i] \in Elements /\ queue[i] # cur
        BY <1>2 DEF Separate
  <2>2. \A i \in 1 .. n : call'[queue[i]] = call[queue[i]]
        BY <1>1, <2>1 DEF TypeOK
  <2>3. \A i \in 1 .. n : waiting'[i] = call'[queue[i]]
        BY <1>1, <1>2, <1>3, <2>2
  <2>. QED  BY <1>1, <1>3, <2>3 DEF Contents
<1>7. \A p \in Posters : PosterInv(p)'
  <2>1. \A p \in Posters : Owns(p) => elem[p] # cur
        BY DEF Separate
  <2>. QED  BY <1>1, <2>1 DEF PosterInv, Owns
<1>8. Separate'
  <2>1. \A e \in Elements : e # Null
        BY ElementFacts
  <2>2. \A i \in 1 .. n : queue[i] \in Elements
        BY <1>2
  <2>3. Null \notin free
        BY ElementFacts DEF TypeOK
  <2>4. \A p \in Posters : Owns(p) => elem[p] \in Elements
        BY ElementFacts DEF Owns, PosterInv
  <2>. QED  BY <1>1, <2>1, <2>2, <2>3, <2>4 DEF Separate, Owns
<1>9. LoopInv' /\ WalkInv'
      BY <1>1 DEF LoopInv, WalkInv
<1>. QED  BY <1>1, <1>4, <1>5, <1>6, <1>7, <1>8, <1>9
          DEF Linked, FreeLinked

\* callback_pool_free puts the element back.
LEMMA FreeOwn ==
    ASSUME OwnInv, Free
    PROVE  OwnInv'
<1>. USE DEF OwnInv
<1>1. /\ UNCHANGED <<tail, lock, call, pending, events, ppc, elem, seen,
                     count, prev, cleared, flag, queue, waiting, inOrder>>
      /\ lpc \in {"FREE", "SWAP"}
      BY DEF Free, posterVars
<1>2. /\ cur \in Pool /\ cur \in Elements /\ cur \notin free
      /\ \A i \in 1 .. Len(queue) : queue[i] # cur /\ queue[i] \in Elements
      /\ queue \in Seq(Elements)
      BY <1>1, ElementFacts DEF LoopInv, Separate, TypeOK
<1>3. CASE lpc = "FREE"
  <2>1. /\ next' = [next EXCEPT ![cur] = root] /\ lpc' = "SWAP"
        /\ UNCHANGED <<root, cur, free>>
        BY <1>3 DEF Free
  <2>2. TypeOK'
        BY <1>1, <1>2, <2>1 DEF TypeOK
  <2>3. \A e \in Elements \ {cur} : next'[e] = next[e]
        BY <2>1 DEF TypeOK
  <2>4. \A e \in free : next'[e] = next[e]
        BY <1>2, <2>3, ElementFacts DEF TypeOK
  <2>5. Linked'
        BY <1>1, <1>2, <2>3 DEF Linked
  <2>6. FreeLinked'
        BY <2>1, <2>4 DEF FreeLinked
  <2>7. \A p \in Posters : PosterInv(p)'
        BY <1>1, <2>1, <2>4 DEF PosterInv
  <2>. QED  BY <1>1, <1>2, <1>3, <2>1, <2>2, <2>5, <2>6, <2>7
            DEF LoopInv, WalkInv, Separate, Owns, Contents
<1>4. CASE lpc = "SWAP" /\ root = next[cur]
  <2>1. /\ root' = cur /\ free' = free \cup {cur} /\ lpc' = "FLAG"
        /\ cur' = Null /\ UNCHANGED next
        BY <1>4 DEF Free
  <2>2. TypeOK'
        BY <1>1, <1>2, <2>1 DEF TypeOK
  <2>3. FreeLinked'
    <3>1. root \in free \cup {Null}
          BY DEF FreeLinked
    <3>2. \A e \in free : next[e] # root \/ next[e] = Null
          BY DEF FreeLinked
    <3>. QED  BY <1>2, <1>4, <2>1, <3>1, <3>2 DEF FreeLinked
  <2>4. \A p \in Posters : PosterInv(p)'
        BY <1>1, <2>1 DEF PosterInv
  <2>5. Separate'
    <3>1. /\ Null \notin free' /\ \A e \in Elements : e # Null
          /\ \A p \in Posters : Owns(p) => elem[p] \in Elements
          BY <1>2, <2>1, ElementFacts DEF TypeOK, Owns, PosterInv
    <3>. QED  BY <1>1, <1>2, <2>1, <3>1 DEF Separate, Owns
  <2>. QED  BY <1>1, <1>4, <2>1, <2>2, <2>3, <2>4, <2>5
            DEF Linked, LoopInv, WalkInv, Contents
<1>5. CASE lpc = "SWAP" /\ root # next[cur]
  <2>1. lpc' = "FREE" /\ UNCHANGED <<next, root, cur, free>>
        BY <1>5 DEF Free
  <2>2. TypeOK'
        BY <1>1, <2>1 DEF TypeOK
  <2>. QED  BY <1>1, <1>2, <1>5, <2>1, <2>2
            DEF Linked, FreeLinked, PosterInv, LoopInv, WalkInv, Separate,
                Owns, Contents
<1>. QED  BY <1>1, <1>3, <1>4, <1>5

\* Every step keeps the inductive invariant.
LEMMA NextOwn ==
    ASSUME OnePoolUser, OwnStorage, OwnInv, [Next]_vars
    PROVE  OwnInv'
<1>1. CASE \E p \in Posters, storage \in Static \cup {Null} :
              storage \in Storage[p] /\ Post(p, storage)
      BY <1>1, PostOwn
<1>2. CASE \E p \in Posters : Poster(p)
      BY <1>2, TakeOwn, AllocReadOwn, AllocSwapOwn, InitElementOwn,
         PoolExhaustedOwn, PushLinkOwn, PushSwapOwn, NotifyOwn
      DEF Poster
<1>3. CASE Loop
      BY <1>3, LoopControlOwn, AdvanceOwn, UnlinkOwn, ReleaseOwn, FreeOwn
      DEF Loop
<1>4. CASE UNCHANGED vars
      BY <1>4
      DEF vars, queueVars, posterVars, loopVars, historyVars, OwnInv, TypeOK,
          Linked, FreeLinked, PosterInv, LoopInv, WalkInv, Separate, Owns,
          Contents
<1>. QED  BY <1>1, <1>2, <1>3, <1>4 DEF Next, Done

\* The inductive invariant holds.
LEMMA OwnInvariant ==
    ASSUME OnePoolUser, OwnStorage
    PROVE  Spec => []OwnInv
<1>1. Init => OwnInv
      BY InitOwn
<1>2. OwnInv /\ [Next]_vars => OwnInv'
      BY NextOwn
<1>. QED  BY <1>1, <1>2, PTL DEF Spec

\* Every variable of the scheduler keeps its type.
THEOREM TypeCorrect ==
    ASSUME OnePoolUser, OwnStorage
    PROVE  Spec => []TypeOK
<1>1. OwnInv => TypeOK
      BY DEF OwnInv
<1>. QED  BY <1>1, OwnInvariant, PTL

\* Every element has one owner at a time and the lists stay intact, for a pool
\* of any size and any number of posters of which one uses the pool.
THEOREM OwnersAreExclusive ==
    ASSUME OnePoolUser, OwnStorage
    PROVE  Spec => []ExclusiveOwner
<1>1. ASSUME OwnInv, NEW e \in Elements, NEW x \in Owners(e),
             NEW y \in Owners(e)
      PROVE  x = y
      BY <1>1 DEF OwnInv, Separate, Owners, Queued
<1>2. OwnInv => ExclusiveOwner
      BY <1>1 DEF OwnInv, ExclusiveOwner
<1>. QED  BY <1>2, OwnInvariant, PTL

\* The callbacks run first in, first out, each with its own contents.
THEOREM CallbacksRunInOrder ==
    ASSUME OnePoolUser, OwnStorage
    PROVE  Spec => []RunsInOrder
<1>1. OwnInv => RunsInOrder
      BY DEF OwnInv, RunsInOrder
<1>. QED  BY <1>1, OwnInvariant, PTL
=============================================================================
