----------------------------- MODULE SotpStore -----------------------------
(***************************************************************************)
(* What the store in internal flash promises to the callers of sotp_set:   *)
(* every call takes effect at once and for good, at some time between the  *)
(* call and its return, or - if it fails or the power does - perhaps not   *)
(* at all.  Nothing is promised once the store is not sound.               *)
(***************************************************************************)
CONSTANTS Types, Values, Writers

VARIABLES
    items,      \* the value of every type, or "none"
    calls,      \* per writer: the state of its call and the item
    sound       \* the flash has not failed in an item write or an erasure

vars == <<items, calls, sound>>

Free == {"NEW", "OK", "ERROR"}

Init ==
    /\ items = [t \in Types |-> "none"]
    /\ \A w \in Writers : calls[w].status = "NEW"
    /\ sound = TRUE

Call(w) ==
    /\ calls[w].status \in Free
    /\ calls'[w].status = "BUSY"
    /\ UNCHANGED items

\* The item replaces the one of its type.
Apply(w) ==
    /\ calls[w].status = "BUSY"
    /\ calls' = [calls EXCEPT ![w].status = "DONE"]
    /\ items' = [items EXCEPT ![calls[w].arg.type] = calls[w].arg.value]

Succeed(w) ==
    /\ calls[w].status = "DONE"
    /\ calls'[w].status = "OK"
    /\ UNCHANGED items

Fail(w) ==
    /\ calls[w].status \in {"BUSY", "DONE"}
    /\ calls'[w].status = "ERROR"
    /\ UNCHANGED items

\* The power fails: no call is left, and every item is.
Crash ==
    /\ \A w \in Writers : calls'[w].status = "NEW"
    /\ UNCHANGED items

Next ==
    \/ \E w \in Writers :
          /\ Call(w) \/ Apply(w) \/ Succeed(w) \/ Fail(w)
          /\ \A u \in Writers \ {w} : calls'[u] = calls[u]
          /\ UNCHANGED sound
    \/ Crash /\ UNCHANGED sound
    \/ ~sound'

Spec == Init /\ [][Next]_vars
=============================================================================
