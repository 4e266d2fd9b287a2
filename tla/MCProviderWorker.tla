-------------------------- MODULE MCProviderWorker --------------------------
(* Instances of ProviderWorker: two event loops, so that a loop can die    *)
(* while the lane is reserved for one of its tasks.                        *)
EXTENDS ProviderWorker

CONSTANTS c1, c2, i1, i2, i3, k1, l1, l2

MCLoopOf == [t \in Tasks |-> IF t \in {c1, i2} THEN l1 ELSE l2]

(* The tasks that arrive in one behaviour: a barrier with two calls, one  *)
(* of which hangs, or with that call and a close, or two more barriers.   *)
Casts == {{c1, c2, i1}, {c1, i1, k1}, {i1, i2, i3}}
OneCast == \E cast \in Casts : \A t \in Tasks \ cast : pc'[t] = "idle"
=============================================================================
