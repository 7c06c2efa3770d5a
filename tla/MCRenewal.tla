----------------------------- MODULE MCRenewal -----------------------------
(* Instances of Renewal for TLC. *)
EXTENDS Renewal, TLC

CONSTANTS t1, t2, r1, r2, a1, a2

Staggered == [t \in Tenants |-> IF t = t1 THEN 1 ELSE 2]

AllFaults == {"renew", "publish", "allocate", "ack", "crash"}
PublishFaults == {"publish"}

Symmetry == Permutations(Renewers) \cup Permutations(Allocators)
=============================================================================
