---------------------------- MODULE UcScheduler ----------------------------
(***************************************************************************)
(* The scheduler of the update client (arm_uc_scheduler.c) on its atomic   *)
(* queue (atomic-queue.c): threads and interrupt handlers post callbacks   *)
(* without a lock, and the event loop runs them one by one.                *)
(*                                                                         *)
(* An element is linked by its `next` field in the queue (from the newest, *)
(* `tail`, to the oldest) or in the free list of the pool (`root`).  Every *)
(* compare-and-swap is one step, and so is every other access that another *)
(* thread can see.  ARM_UC_PostErrorCallbackCtx has no callers.            *)
(***************************************************************************)
EXTENDS Integers, Sequences

CONSTANTS
    Posters,        \* threads and interrupt handlers that post callbacks
    Static,         \* statically allocated elements
    Storage,        \* the elements that each poster offers; Null: from the pool
    PoolUsers,      \* posters that may need the pool
    PoolSize,       \* ARM_UC_SCHEDULER_STORAGE_POOL_SIZE
    Null,           \* no element
    Exhausted,      \* callback_pool_exhausted_error_callback
    MaxPosts        \* bound on the posts of every poster

ASSUME SchedulerAssumption ==
    /\ PoolSize \in Nat \ {0} /\ MaxPosts \in [Posters -> Nat]
    /\ Null \notin Static \cup Nat /\ Exhausted \notin Static \cup Nat
    /\ Null # Exhausted /\ Static \cap Nat = {}
    /\ Storage \in [Posters -> SUBSET (Static \cup {Null})]

VARIABLES
    tail, next,     \* the queue
    root,           \* callback_pool_root
    lock,           \* the elements that are locked
    call,           \* the callback in every element
    pending,        \* callbacks_pending
    events,         \* UPDATE_CLIENT_EVENT_PROCESS_QUEUE, not yet received
    ppc, elem, seen,        \* per poster: progress, _storage, other locals
    count,          \* history: posts made by every poster
    lpc, prev, cur, cleared, flag,  \* the event loop: progress and locals
    queue, free,    \* history: elements in the queue, oldest first; free ones
    waiting,        \* history: callbacks queued and not yet run, in their order
    inOrder         \* history: each callback that was run was the first

queueVars == <<tail, next, root, lock, call>>
posterVars == <<ppc, elem, seen, count>>
loopVars == <<lpc, prev, cur, cleared, flag>>
historyVars == <<queue, free, waiting, inOrder>>
vars == <<queueVars, pending, events, posterVars, loopVars, historyVars>>

\* Elements of the pool are numbered as in callback_pool_storage.
Pool == 1 .. PoolSize
Elements == Pool \cup Static \cup {Exhausted}

\* A post is named by who makes it and which of its posts it is.
Calls == Posters \X Nat
Error == <<"error", 0>>

\* ARM_UC_SchedulerInit.
Init ==
    /\ tail = Null /\ root = 1
    /\ next = [e \in Elements |->
                 IF e \in 1 .. PoolSize - 1 THEN e + 1 ELSE Null]
    /\ lock = Pool          \* POOL_WATERMARK
    /\ call = [e \in Elements |-> Error]
    /\ pending = 0 /\ events = 0
    /\ ppc = [p \in Posters |-> "IDLE"]
    /\ elem = [p \in Posters |-> Null]
    /\ seen = [p \in Posters |-> Null]
    /\ count = [p \in Posters |-> 0]
    /\ lpc = "IDLE" /\ prev = Null /\ cur = Null
    /\ cleared = FALSE /\ flag = 0
    /\ queue = <<>> /\ free = Pool /\ waiting = <<>> /\ inOrder = TRUE

-----------------------------------------------------------------------------
(* ARM_UC_PostCallbackCtx.                                                 *)

Goto(p, pc) == ppc' = [ppc EXCEPT ![p] = pc]

\* A poster that does not use the pool has one callback in flight at a time.
Post(p, storage) ==
    /\ ppc[p] = "IDLE" /\ count[p] < MaxPosts[p]
    /\ p \in PoolUsers \/ storage \notin lock \cup {Null}
    /\ count' = [count EXCEPT ![p] = @ + 1]
    /\ elem' = [elem EXCEPT ![p] = storage]
    /\ Goto(p, IF storage = Null THEN "ALLOC" ELSE "TAKE")
    /\ UNCHANGED <<queueVars, pending, events, seen, loopVars, historyVars>>

\* Mutant of Take: the lock of a static element is not looked at.
Take_Unchecked(p) ==
    /\ ppc[p] = "TAKE"
    /\ lock' = lock \cup {elem[p]}
    /\ call' = [call EXCEPT ![elem[p]] = <<p, count[p]>>]
    /\ Goto(p, "LINK")
    /\ UNCHANGED <<elem, tail, next, root, pending, events, seen, count,
                   loopVars, historyVars>>

\* aq_element_take; an element in use is replaced by one of the pool.
Take(p) ==
    /\ ppc[p] = "TAKE"
    /\ \/ /\ elem[p] \notin lock
          /\ lock' = lock \cup {elem[p]}
          /\ call' = [call EXCEPT ![elem[p]] = <<p, count[p]>>]
          /\ Goto(p, "LINK")
          /\ UNCHANGED elem
       \/ /\ elem[p] \in lock
          /\ elem' = [elem EXCEPT ![p] = Null]
          /\ Goto(p, "ALLOC")
          /\ UNCHANGED <<lock, call>>
    /\ UNCHANGED <<tail, next, root, pending, events, seen, count, loopVars,
                   historyVars>>

\* callback_pool_alloc: the root is read, ...
AllocRoot(p) ==
    /\ ppc[p] = "ALLOC"
    /\ elem' = [elem EXCEPT ![p] = root]
    /\ Goto(p, IF root = Null THEN "EXHAUSTED" ELSE "NEXT")
    /\ UNCHANGED <<queueVars, pending, events, seen, count, loopVars,
                   historyVars>>

\* ... then its successor, ...
AllocNext(p) ==
    /\ ppc[p] = "NEXT"
    /\ seen' = [seen EXCEPT ![p] = next[elem[p]]]
    /\ Goto(p, "SWAP")
    /\ UNCHANGED <<queueVars, pending, events, elem, count, loopVars,
                   historyVars>>

\* ... which becomes the root if the root has not changed.
AllocSwap(p) ==
    /\ ppc[p] = "SWAP"
    /\ \/ /\ root = elem[p]
          /\ root' = seen[p]
          /\ free' = free \ {elem[p]}
          /\ Goto(p, "INIT")
          /\ UNCHANGED elem
       \/ /\ root # elem[p]
          /\ elem' = [elem EXCEPT ![p] = Null]
          /\ Goto(p, "ALLOC")
          /\ UNCHANGED <<root, free>>
    /\ seen' = [seen EXCEPT ![p] = Null]
    /\ UNCHANGED <<tail, next, lock, call, pending, events, count, loopVars,
                   queue, waiting, inOrder>>

\* The element is initialised, taken and filled: "This thread is guaranteed
\* to exclusively own _storage here".
InitElement(p) ==
    /\ ppc[p] = "INIT"
    /\ next' = [next EXCEPT ![elem[p]] = Null]
    /\ lock' = lock \cup {elem[p]}
    /\ call' = [call EXCEPT ![elem[p]] = <<p, count[p]>>]
    /\ Goto(p, "LINK")
    /\ UNCHANGED <<tail, root, pending, events, elem, seen, count, loopVars,
                   historyVars>>

\* The pool is empty: the scheduler's error callback is queued instead, unless
\* it already is.
PoolExhausted(p) ==
    /\ ppc[p] = "EXHAUSTED"
    /\ \/ /\ Exhausted \notin lock
          /\ lock' = lock \cup {Exhausted}
          /\ call' = [call EXCEPT ![Exhausted] = Error]
          /\ elem' = [elem EXCEPT ![p] = Exhausted]
          /\ Goto(p, "LINK")
       \/ /\ Exhausted \in lock
          /\ Goto(p, "IDLE")
          /\ UNCHANGED <<lock, call, elem>>
    /\ UNCHANGED <<tail, next, root, pending, events, seen, count, loopVars,
                   historyVars>>

\* aq_push_tail.
PushLink(p) ==
    /\ ppc[p] = "LINK"
    /\ next' = [next EXCEPT ![elem[p]] = tail]
    /\ Goto(p, "PUSH")
    /\ UNCHANGED <<tail, root, lock, call, pending, events, elem, seen,
                   count, loopVars, historyVars>>

PushSwap(p) ==
    /\ ppc[p] = "PUSH"
    /\ \/ /\ tail = next[elem[p]]
          /\ tail' = elem[p]
          /\ queue' = Append(queue, elem[p])
          /\ waiting' = Append(waiting, call[elem[p]])
          /\ Goto(p, "CHECK")
       \/ /\ tail # next[elem[p]]
          /\ Goto(p, "LINK")
          /\ UNCHANGED <<tail, queue, waiting>>
    /\ UNCHANGED <<next, root, lock, call, pending, events, elem, seen,
                   count, loopVars, free, inOrder>>

\* The loop that notifies: the flag is read, then the tail ...
Check(p) ==
    /\ \/ /\ ppc[p] = "CHECK"
          /\ Goto(p, IF pending = 0 THEN "CHECK2" ELSE "IDLE")
       \/ /\ ppc[p] = "CHECK2"
          /\ Goto(p, IF tail # Null THEN "NOTIFY" ELSE "IDLE")
    /\ elem' = [elem EXCEPT ![p] = IF ppc'[p] = "IDLE" THEN Null ELSE @]
    /\ UNCHANGED <<queueVars, pending, events, seen, count, loopVars,
                   historyVars>>

\* Mutant of Notify: the flag is counted up instead.
Notify_Increments(p) ==
    /\ ppc[p] = "NOTIFY"
    /\ pending' = pending + 1 /\ Goto(p, "SEND")
    /\ UNCHANGED <<queueVars, events, elem, seen, count, loopVars,
                   historyVars>>

\* ... and who sets the flag sends the event.
Notify(p) ==
    /\ ppc[p] = "NOTIFY"
    /\ \/ pending = 0 /\ pending' = 1 /\ Goto(p, "SEND")
       \/ pending = 1 /\ UNCHANGED pending /\ Goto(p, "CHECK")
    /\ UNCHANGED <<queueVars, events, elem, seen, count, loopVars,
                   historyVars>>

\* arm_uc_notificationHandler, that is UpdateClient::schedule_event.
Send(p) ==
    /\ ppc[p] = "SEND"
    /\ events' = events + 1
    /\ Goto(p, "CHECK")
    /\ UNCHANGED <<queueVars, pending, elem, seen, count, loopVars,
                   historyVars>>

Poster(p) ==
    \/ Take(p) \/ AllocRoot(p) \/ AllocNext(p) \/ AllocSwap(p)
    \/ InitElement(p) \/ PoolExhausted(p)
    \/ PushLink(p) \/ PushSwap(p) \/ Check(p) \/ Notify(p) \/ Send(p)

-----------------------------------------------------------------------------
(* UpdateClient::event_handler and ARM_UC_ProcessElement.                  *)

Receive ==
    /\ lpc = "IDLE" /\ events > 0
    /\ events' = events - 1
    /\ lpc' = "POP"
    /\ UNCHANGED <<queueVars, pending, posterVars, prev, cur, cleared, flag,
                   historyVars>>

\* aq_pop_head: px points to q->tail ...
Pop ==
    /\ lpc = "POP"
    /\ lpc' = IF tail = Null THEN "FLAG" ELSE "WALK"
    /\ prev' = Null
    /\ UNCHANGED <<queueVars, pending, events, posterVars, cur, cleared, flag,
                   historyVars>>

\* ... or to the next field of the element the walk has come to: *px.
Current == IF prev = Null THEN tail ELSE next[prev]

\* Mutant of Unlink: the newest element is taken.
Unlink_Newest ==
    /\ lpc = "WALK" /\ tail # Null
    /\ cur' = tail
    /\ tail' = next[tail]
    /\ prev' = Null
    /\ queue' = Tail(queue)
    /\ lpc' = "RELEASE"
    /\ UNCHANGED <<next, root, lock, call, pending, events, posterVars,
                   cleared, flag, free, waiting, inOrder>>

\* The oldest element is unlinked.
Unlink ==
    /\ lpc = "WALK" /\ Current # Null /\ next[Current] = Null
    /\ cur' = Current
    /\ \/ prev = Null /\ tail' = Null /\ UNCHANGED next
       \/ /\ prev # Null
          /\ next' = [next EXCEPT ![prev] = Null]
          /\ UNCHANGED tail
    /\ prev' = Null
    /\ queue' = Tail(queue)
    /\ lpc' = "RELEASE"
    /\ UNCHANGED <<root, lock, call, pending, events, posterVars, cleared,
                   flag, free, waiting, inOrder>>

\* The walk goes on to the next older element, unless it finds a loop.
Advance ==
    /\ lpc = "WALK" /\ Current # Null /\ next[Current] # Null
    /\ prev' = IF next[Current] = tail THEN Null ELSE Current
    /\ lpc' = IF next[Current] = tail THEN "FLAG" ELSE "WALK"
    /\ UNCHANGED <<queueVars, pending, events, posterVars, cur, cleared, flag,
                   historyVars>>

\* *px is gone, or the exclusive store that would unlink the element fails
\* because another thread ran: from the beginning.
Interrupted ==
    /\ lpc = "WALK" /\ (Current # Null => next[Current] = Null)
    /\ lpc' = "POP"
    /\ prev' = Null
    /\ UNCHANGED <<queueVars, pending, events, posterVars, cur, cleared, flag,
                   historyVars>>

\* The contents are copied out, then the lock is released (the callback is
\* run after callback_pool_free; nothing in between depends on it).
Release ==
    /\ lpc = "RELEASE"
    /\ inOrder' = (inOrder /\ waiting # <<>> /\ call[cur] = Head(waiting))
    /\ waiting' = Tail(waiting)
    /\ call' = [call EXCEPT ![cur] = Error]
    /\ lock' = lock \ {cur}
    /\ lpc' = IF cur \in Pool THEN "FREE" ELSE "FLAG"
    /\ cur' = IF cur \in Pool THEN cur ELSE Null
    /\ UNCHANGED <<tail, next, root, pending, events, posterVars, prev,
                   cleared, flag, queue, free>>

\* callback_pool_free.
Free ==
    /\ \/ /\ lpc = "FREE"
          /\ next' = [next EXCEPT ![cur] = root]
          /\ lpc' = "SWAP"
          /\ UNCHANGED <<root, cur, free>>
       \/ /\ lpc = "SWAP" /\ root = next[cur]
          /\ root' = cur
          /\ free' = free \cup {cur}
          /\ lpc' = "FLAG" /\ cur' = Null
          /\ UNCHANGED next
       \/ /\ lpc = "SWAP" /\ root # next[cur]
          /\ lpc' = "FREE"
          /\ UNCHANGED <<next, root, cur, free>>
    /\ UNCHANGED <<tail, lock, call, pending, events, posterVars, prev,
                   cleared, flag, queue, waiting, inOrder>>

\* try_clear_callbacks_pending: the flag is read, then the tail.
ReadFlag ==
    /\ lpc = "FLAG"
    /\ flag' = pending
    /\ lpc' = "EMPTY"
    /\ UNCHANGED <<queueVars, pending, events, posterVars, prev, cur,
                   cleared, historyVars>>

\* ARM_UC_ProcessElement returns; if there is more to do the event is sent
\* again.
Return(again) ==
    /\ events' = IF again THEN events + 1 ELSE events
    /\ lpc' = "IDLE" /\ cleared' = FALSE /\ flag' = 0
    /\ UNCHANGED pending

\* Mutant of ReadTail: the event is not sent again in case 2.
ReadTail_Stops ==
    /\ lpc = "EMPTY"
    /\ \/ (flag = 1) = (tail # Null) /\ Return(FALSE)
       \/ /\ (flag = 0) = (tail # Null)
          /\ lpc' = IF flag = 0 THEN "SET" ELSE "CLEAR"
          /\ UNCHANGED <<events, pending, cleared, flag>>
    /\ UNCHANGED <<queueVars, posterVars, prev, cur, historyVars>>

\* Cases 1 and 2 return, 3 and 4 go on with a compare-and-swap.
ReadTail ==
    /\ lpc = "EMPTY"
    /\ \/ flag = 0 /\ tail = Null /\ Return(FALSE)
       \/ flag = 1 /\ tail # Null /\ Return(~cleared)
       \/ /\ (flag = 0) = (tail # Null)
          /\ lpc' = IF flag = 0 THEN "SET" ELSE "CLEAR"
          /\ UNCHANGED <<events, pending, cleared, flag>>
    /\ UNCHANGED <<queueVars, posterVars, prev, cur, historyVars>>

\* Case 3: the flag is set, or somebody else was faster.
SetFlag ==
    /\ lpc = "SET"
    /\ \/ /\ pending = 0 /\ pending' = 1
          /\ lpc' = "AGAIN"
       \/ /\ pending = 1 /\ UNCHANGED pending
          /\ lpc' = "FLAG"
    /\ UNCHANGED <<queueVars, events, posterVars, prev, cur, cleared, flag,
                   historyVars>>

RunAgain ==
    /\ lpc = "AGAIN"
    /\ Return(TRUE)
    /\ UNCHANGED <<queueVars, posterVars, prev, cur, historyVars>>

\* Mutant of ClearFlag: the queue is not looked at again.
ClearFlag_Returns ==
    /\ lpc = "CLEAR"
    /\ pending' = 0
    /\ lpc' = "IDLE" /\ cleared' = FALSE /\ flag' = 0
    /\ UNCHANGED <<queueVars, events, posterVars, prev, cur, historyVars>>

\* Case 4: the flag is cleared, and everything is looked at again.
ClearFlag ==
    /\ lpc = "CLEAR"
    /\ pending' = 0
    /\ cleared' = TRUE
    /\ lpc' = "FLAG"
    /\ UNCHANGED <<queueVars, events, posterVars, prev, cur, flag,
                   historyVars>>

Loop ==
    \/ Receive \/ Pop \/ Unlink \/ Advance \/ Interrupted \/ Release \/ Free
    \/ ReadFlag \/ ReadTail \/ SetFlag \/ RunAgain \/ ClearFlag

-----------------------------------------------------------------------------
\* All posts are made and run.
Done == UNCHANGED vars /\ lpc = "IDLE" /\ events = 0
            /\ \A p \in Posters : ppc[p] = "IDLE" /\ count[p] = MaxPosts[p]

Next ==
    \/ \E p \in Posters, storage \in Static \cup {Null} :
          storage \in Storage[p] /\ Post(p, storage)
    \/ \E p \in Posters : Poster(p)
    \/ Loop
    \/ Done

\* Threads that are in the scheduler go on, and so does the event loop; its
\* exclusive store is not interrupted for ever.
Fairness ==
    /\ WF_vars(Loop)
    /\ SF_vars(Unlink)
    /\ \A p \in Posters : WF_vars(Poster(p))

Spec == Init /\ [][Next]_vars /\ Fairness

-----------------------------------------------------------------------------
TypeOK ==
    /\ {tail, root, prev, cur} \subseteq Elements \cup {Null}
    /\ next \in [Elements -> Elements \cup {Null}]
    /\ lock \subseteq Elements
    /\ call \in [Elements -> Calls \cup {Error}]
    /\ pending \in {0, 1} /\ flag \in {0, 1} /\ cleared \in BOOLEAN
    /\ events \in Nat
    /\ ppc \in [Posters -> {"IDLE", "TAKE", "ALLOC", "NEXT", "SWAP", "INIT",
                            "EXHAUSTED", "LINK", "PUSH", "CHECK", "CHECK2",
                            "NOTIFY", "SEND"}]
    /\ elem \in [Posters -> Elements \cup {Null}]
    /\ seen \in [Posters -> Elements \cup {Null}]
    /\ count \in [Posters -> Nat]
    /\ lpc \in {"IDLE", "POP", "WALK", "RELEASE", "FREE", "SWAP", "FLAG",
                "EMPTY", "SET", "AGAIN", "CLEAR"}
    /\ queue \in Seq(Elements) /\ free \subseteq Pool
    /\ waiting \in Seq(Calls \cup {Error}) /\ inOrder \in BOOLEAN

\* Somebody will look at the queue: the event loop is at work, an event is on
\* its way to it, or a poster has yet to look at the flag or to send the event.
AtWork ==
    \/ events > 0 \/ lpc # "IDLE"
    \/ \E p \in Posters : ppc[p] \in {"CHECK", "CHECK2", "NOTIFY", "SEND"}

\* No wake-up is lost: while a callback is queued somebody will look at the
\* queue; and callbacks_pending is never left set with nobody at work, which
\* would keep every later poster from sending an event.
NoLostWakeup == tail # Null \/ pending = 1 => AtWork

\* At most one thread takes elements from the pool, and the elements that the
\* others offer are their own.  Two threads in callback_pool_alloc may get the
\* same element: the root can be the same again with another successor.
OnePoolUser == \A p, q \in PoolUsers : p = q

OwnStorage ==
    \A p \in Posters \ PoolUsers : \A q \in Posters \ {p} :
        Storage[p] \cap Storage[q] \subseteq {Null}

\* The queue is linked from tail to the oldest element.
Linked ==
    /\ tail = IF queue = <<>> THEN Null ELSE queue[Len(queue)]
    /\ \A i \in 1 .. Len(queue) :
          next[queue[i]] = IF i = 1 THEN Null ELSE queue[i - 1]

\* The free elements are linked from root.
FreeLinked ==
    /\ root \in free \cup {Null}
    /\ \A e \in free : next[e] \in (free \ {root}) \cup {Null}
    /\ \A e, f \in free : next[e] = next[f] /\ next[e] # Null => e = f

Queued == {queue[i] : i \in 1 .. Len(queue)}

\* A poster that works on its element.
Owns(p) == ppc[p] \in {"INIT", "LINK", "PUSH"}

\* Who holds an element: the free list, the queue, the event loop or posters.
Owners(e) ==
    (IF e \in free THEN {"pool"} ELSE {})
    \cup (IF e \in Queued THEN {"queue"} ELSE {})
    \cup (IF e = cur THEN {"loop"} ELSE {})
    \cup {p \in Posters : e = elem[p] /\ Owns(p)}

\* "This thread is guaranteed to exclusively own _storage here": no element is
\* in two places at a time, although the pool is shared without a lock; and
\* neither list is ever cut or joined to the other (OnePoolUser, OwnStorage).
ExclusiveOwner ==
    /\ Linked /\ FreeLinked
    /\ \A e \in Elements : \A x, y \in Owners(e) : x = y

\* "Callbacks are executed FIFO": in the order in which they were queued, each
\* with the contents its poster gave it, none twice (OnePoolUser, OwnStorage).
RunsInOrder == inOrder

\* Every callback that was queued runs (posters stop at MaxPosts).
EveryPostRuns == waiting # <<>> ~> waiting = <<>>
=============================================================================
