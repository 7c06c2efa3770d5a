----------------------------- MODULE MCInbound -----------------------------
(* Instances of Inbound for TLC: two messages of one sender to one tenant,  *)
(* the later one delivered in any order, and one of the same sender to      *)
(* another tenant.                                                          *)
EXTENDS Inbound, TLC

CONSTANTS h1, h2, m1, m2, m3, t1, t2, s1

SentTo == m1 :> t1 @@ m2 :> t1 @@ m3 :> t2
SentBy == m1 :> s1 @@ m2 :> s1 @@ m3 :> s1
SentAt == m1 :> 2 @@ m2 :> 1 @@ m3 :> 1

AllFaults == Steps \cup {"crash", "drop"}
=============================================================================
