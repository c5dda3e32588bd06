---------------------------- MODULE MCScheduler ----------------------------
(* Instances of UcScheduler for TLC.                                       *)
EXTENDS UcScheduler, TLC

CONSTANTS p1, p2, s1, s2

\* The first poster has an element of its own and uses the pool, the second
\* one has an element of its own only.
MCStorage == p1 :> {Null, s1} @@ p2 :> {s2}

MCPosts == p1 :> 4 @@ p2 :> 1
=============================================================================
