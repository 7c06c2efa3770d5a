----------------------------- MODULE TokenLedger -----------------------------
(***************************************************************************)
(* What the wallet of one tenant promises: an account on which every       *)
(* credit, hold and settlement is one atomic posting under an idempotency  *)
(* key.  No loads, snapshots, versions or retries: module Wallet, which    *)
(* has all of them, is shown to implement this specification.              *)
(***************************************************************************)
EXTENDS Integers

CONSTANTS Keys,      \* idempotency keys: one ledger row each, for ever
          Rids,      \* reservation ids (uuid.New)
          NoRid,     \* external_ref of a row that names no reservation
          MaxInt,    \* math.MaxInt64, the capacity of a balance
          NoEntry    \* the value of a key that has no row

VARIABLES account,   \* gross balance and the part of it that is held
          rows       \* the ledger

vars == <<account, rows>>

Kinds == {"grant", "reserve", "commit", "release"}

\* A row of token_ledger; amount carries the sign of its kind.
Row == [kind : Kinds, amount : Int, rid : Rids \cup {NoRid}]

HasRow(k) == rows[k] # NoEntry

\* The row that opened reservation r, and the rows that closed it.
Opens(k, r) == HasRow(k) /\ rows[k].kind = "reserve" /\ rows[k].rid = r
Settles(k, r) == HasRow(k) /\ rows[k].kind \in {"commit", "release"} /\ rows[k].rid = r
IsSettled(r) == \E k \in Keys : Settles(k, r)

Init == /\ account = [balance |-> 0, reserved |-> 0]
        /\ rows = [k \in Keys |-> NoEntry]

Post(k, kind, amount, r) ==
  /\ ~HasRow(k)
  /\ rows' = [rows EXCEPT ![k] = [kind |-> kind, amount |-> amount, rid |-> r]]

\* A credit never wraps the balance.
Credit(k, a) ==
  /\ Post(k, "grant", a, NoRid)
  /\ a > 0 /\ account.balance + a <= MaxInt
  /\ account' = [balance |-> account.balance + a, reserved |-> account.reserved]

\* A hold takes only what no other hold has taken.
Hold(k, a, r) ==
  /\ Post(k, "reserve", -a, r)
  /\ a > 0 /\ account.balance - account.reserved >= a
  /\ \A j \in Keys : HasRow(j) => rows[j].rid # r
  /\ account' = [balance |-> account.balance, reserved |-> account.reserved + a]

\* A settlement closes an open hold, debiting at most what was held; what is
\* not debited becomes available again in the same step.
Debit(k, a, r) ==
  /\ Post(k, "commit", -a, r)
  /\ ~IsSettled(r)
  /\ \E j \in Keys :
       /\ Opens(j, r)
       /\ a > 0 /\ a <= -rows[j].amount
       /\ account' = [balance |-> account.balance - a,
                      reserved |-> account.reserved + rows[j].amount]

Refund(k, r) ==
  /\ ~HasRow(k) /\ ~IsSettled(r)
  /\ \E j \in Keys :
       /\ Opens(j, r)
       /\ Post(k, "release", -rows[j].amount, r)
       /\ account' = [balance |-> account.balance,
                      reserved |-> account.reserved + rows[j].amount]

Next == \E k \in Keys :
          \/ \E a \in 1..MaxInt : Credit(k, a)
          \/ \E a \in 1..MaxInt, r \in Rids : Hold(k, a, r) \/ Debit(k, a, r)
          \/ \E r \in Rids : Refund(k, r)

Spec == Init /\ [][Next]_vars
=============================================================================
