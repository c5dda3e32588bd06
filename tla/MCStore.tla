------------------------------- MODULE MCStore -------------------------------
(* ConfigStore for TLC: one period, one plain field, two versions.         *)
EXTENDS ConfigStore

\* One bit each: the period is below or at the minimum.
Widths == [period |-> 2, flag |-> 2]

Shipped == [version |-> 1, store_node_registered |-> TRUE,
            node_registered |-> TRUE,
            field |-> [period |-> 1, flag |-> 0]]

\* Another flag, another version, a registration that is not kept, and a
\* period below the minimum.
Written == {[Shipped EXCEPT !.field.flag = 1],
            [Shipped EXCEPT !.version = 2],
            [Shipped EXCEPT !.store_node_registered = FALSE],
            [Shipped EXCEPT !.field.period = 0]}
=============================================================================
