------------------------------- MODULE Wallet -------------------------------
(***************************************************************************)
(* The token wallet of one tenant (internal/wallet, its use-case Service   *)
(* and the Postgres adapter).                                              *)
(*                                                                         *)
(* Every repository call of the Service is a transaction of its own, so a  *)
(* call of Reserve, Commit, Release or Grant is a process that loads the   *)
(* wallet, looks its idempotency key up, looks for a settlement of its     *)
(* reservation, computes the new aggregate from the SNAPSHOT it loaded and *)
(* finally applies it under SELECT ... FOR UPDATE.  Other calls, the       *)
(* monthly allocator and the courtesy grant run between any two of those   *)
(* steps, and a process may crash, or lose its database, at every one.     *)
(***************************************************************************)
EXTENDS Integers, FiniteSets

CONSTANTS Procs,        \* concurrent calls of the wallet Service
          Keys,         \* idempotency keys
          CourtesyKey,  \* "courtesy:" + tenant id, the key of the first credit
          Rids,         \* reservation ids
          NoRid,        \* no external_ref
          Amounts,      \* token amounts callers ask for, 0 included
          MaxInt,       \* math.MaxInt64
          MaxAttempts,  \* maxAttempts of the optimistic retry loop
          NoEntry,      \* a key without a ledger row
          NoWallet      \* the tenant has no token_wallet row yet

Kinds == {"grant", "reserve", "commit", "release"}
Settling == {"commit", "release"}

\* A token_wallet row and, with the same fields, the in-memory aggregate.
TokenWallet == [balance : Nat, reserved : Nat, version : Nat]

\* A token_ledger row: the idempotency key is its index, the sign its kind's.
LedgerEntry == [kind : Kinds, amount : Int, rid : Rids \cup {NoRid}]

ASSUME WalletAssumption ==
  /\ Amounts \subseteq Nat
  /\ MaxInt \in Nat
  /\ MaxAttempts \in Nat \ {0}
  /\ CourtesyKey \in Keys
  /\ NoRid \notin Rids
  /\ NoEntry \notin LedgerEntry
  /\ NoWallet \notin TokenWallet

VARIABLES wallet,     \* the token_wallet row
          ledger,     \* [Keys -> row or NoEntry]: UNIQUE (wallet_id, idempotency_key)
          call,       \* the call each process is running
          depleted    \* balance.depleted events published, per commit key

vars == <<wallet, ledger, call, depleted>>

-----------------------------------------------------------------------------
(* The aggregate (wallet.go).  Each method answers the mutated wallet.     *)

\* Every mutation stamps the next version.
Stamp(w, balance, reserved) ==
  [balance |-> balance, reserved |-> reserved, version |-> w.version + 1]

SignedAmount(kind, a) == IF kind \in {"reserve", "commit"} THEN -a ELSE a

\* Mutation: availability forgets what is already reserved.
CanReserveGross(w, a) == w.balance >= a

CanReserve(w, a) == w.balance - w.reserved >= a

DoReserve(w, a) == Stamp(w, w.balance, w.reserved + a)

CanSettle(w, held) == w.reserved >= held

\* Mutation: the unused part of the reservation stays reserved.
DoCommitKeepsRest(w, a, held) == Stamp(w, w.balance - a, w.reserved - a)

\* Mutation: the whole reservation is debited on top of the actual amount.
DoCommitTwice(w, a, held) == Stamp(w, w.balance - a - held, w.reserved - held)

DoCommit(w, a, held) == Stamp(w, w.balance - a, w.reserved - held)

\* Mutation: Release forgets the version stamp.
DoReleaseUnstamped(w, held) == [w EXCEPT !.reserved = @ - held]

DoRelease(w, held) == Stamp(w, w.balance, w.reserved - held)

CanGrant(w, a) == a <= MaxInt - w.balance

\* Mutation: a credit forgets the version stamp.
DoGrantUnstamped(w, a) == [w EXCEPT !.balance = @ + a]

DoGrant(w, a) == Stamp(w, w.balance + a, w.reserved)

-----------------------------------------------------------------------------
(* Calls.  A request names its operation, the amount asked for, its key    *)
(* and, when it settles, the reservation handle: its id and held amount.   *)

Idle == "idle"

Request == [op : Kinds, amount : Nat, key : Keys, rid : Rids \cup {NoRid}, held : Nat]

Frame(pc, req, snap, attempt, ret) ==
  [pc |-> pc, req |-> req, snap |-> snap, attempt |-> attempt, ret |-> ret]

NoRequest == [op |-> "grant", amount |-> 0, key |-> CourtesyKey, rid |-> NoRid, held |-> 0]

\* The call returns: what it knew is gone, its result remains.  "refused" is
\* any of the sentinel errors of the domain (invalid amount, insufficient
\* funds, idempotency conflict, reservation completed, not found, retries
\* exhausted), "error" a failure of the infrastructure.
Return(p, ret) ==
  call' = [call EXCEPT ![p] = Frame(Idle, NoRequest, NoWallet, 0, ret)]

GoTo(p, pc) == call' = [call EXCEPT ![p].pc = pc]

\* Reservation handles callers can hold: Reserve returned them once, or will
\* return them again to a retry with the same key.
Handles == {k \in Keys : ledger[k] # NoEntry /\ ledger[k].kind = "reserve"}

NewRequest(op, a, k, rid, held) ==
  [op |-> op, amount |-> a, key |-> k, rid |-> rid, held |-> held]

\* Mutation: a commit may exceed its reservation.
ValidRequestUnbounded(req) == req.amount > 0

\* Argument checks made before the first repository call.
ValidRequest(req) ==
  /\ req.amount > 0
  /\ req.op = "commit" => req.amount <= req.held

Start(p, req) ==
  /\ call[p].pc = Idle
  /\ IF ValidRequest(req)
     THEN call' = [call EXCEPT ![p] = Frame("load", req, NoWallet, 0, "none")]
     ELSE Return(p, "refused")
  /\ UNCHANGED <<wallet, ledger, depleted>>

Reserve(p) == \E a \in Amounts, k \in Keys : Start(p, NewRequest("reserve", a, k, NoRid, 0))

Grant(p) == \E a \in Amounts, k \in Keys : Start(p, NewRequest("grant", a, k, NoRid, 0))

Commit(p) ==
  \E h \in Handles, a \in Amounts, k \in Keys :
    Start(p, NewRequest("commit", a, k, ledger[h].rid, -ledger[h].amount))

Release(p) ==
  \E h \in Handles, k \in Keys :
    Start(p, NewRequest("release", -ledger[h].amount, k, ledger[h].rid, -ledger[h].amount))

\* Head of the retry loop and LoadByTenant.
LoadByTenant(p) ==
  /\ call[p].pc = "load"
  /\ IF call[p].attempt >= MaxAttempts THEN Return(p, "refused")
     ELSE IF wallet = NoWallet THEN Return(p, "refused")
     ELSE call' = [call EXCEPT ![p].pc = "lookup", ![p].snap = wallet,
                               ![p].attempt = @ + 1]
  /\ UNCHANGED <<wallet, ledger, depleted>>

\* Does the row found under the request's own key record this very request?
SameRequest(e, req) ==
  /\ e.kind = req.op
  /\ e.amount = SignedAmount(req.op, req.amount)
  /\ req.op \in Settling => e.rid = req.rid

\* The domain method the request calls: when it refuses and what it makes.
Allowed(w, req) ==
  /\ req.op = "reserve" => CanReserve(w, req.amount)
  /\ req.op = "grant" => CanGrant(w, req.amount)
  /\ req.op \in Settling => CanSettle(w, req.held)

Mutated(w, req) ==
  CASE req.op = "reserve" -> DoReserve(w, req.amount)
    [] req.op = "grant" -> DoGrant(w, req.amount)
    [] req.op = "commit" -> DoCommit(w, req.amount, req.held)
    [] req.op = "release" -> DoRelease(w, req.held)

\* The method runs on the snapshot; a refusal ends the call, except that
\* Commit and Release answer "my snapshot is stale" and load again.
Mutate(p) ==
  LET req == call[p].req
      w   == call[p].snap
  IN IF Allowed(w, req)
     THEN call' = [call EXCEPT ![p].pc = "apply", ![p].snap = Mutated(w, req)]
     ELSE IF req.op \in Settling THEN GoTo(p, "load") ELSE Return(p, "refused")

\* Mutation: any row under the key counts as this request.
LookupAnyRow(p) ==
  /\ call[p].pc = "lookup"
  /\ LET req == call[p].req
     IN IF ledger[req.key] # NoEntry THEN Return(p, "ok")
        ELSE IF req.op \in Settling THEN GoTo(p, "settled")
        ELSE Mutate(p)
  /\ UNCHANGED <<wallet, ledger, depleted>>

\* Mutation: a replayed request runs the epilogue of a fresh one again.
LookupReplaysEpilogue(p) ==
  /\ call[p].pc = "lookup"
  /\ LET req == call[p].req
         e   == ledger[req.key]
     IN IF e # NoEntry
        THEN IF SameRequest(e, req) THEN GoTo(p, "applied") ELSE Return(p, "refused")
        ELSE IF req.op \in Settling THEN GoTo(p, "settled")
        ELSE Mutate(p)
  /\ UNCHANGED <<wallet, ledger, depleted>>

LookupByIdempotencyKey(p) ==
  /\ call[p].pc = "lookup"
  /\ LET req == call[p].req
         e   == ledger[req.key]
     IN IF e # NoEntry THEN Return(p, IF SameRequest(e, req) THEN "ok" ELSE "refused")
        ELSE IF req.op \in Settling THEN GoTo(p, "settled")
        ELSE Mutate(p)
  /\ UNCHANGED <<wallet, ledger, depleted>>

Completed(r) ==
  \E k \in Keys : ledger[k] # NoEntry /\ ledger[k].kind \in Settling /\ ledger[k].rid = r

LookupCompletedByExternalRef(p) ==
  /\ call[p].pc = "settled"
  /\ IF Completed(call[p].req.rid) THEN Return(p, "refused") ELSE Mutate(p)
  /\ UNCHANGED <<wallet, ledger, depleted>>

\* Reservation ids no ledger row carries: what uuid.New can return.
FreshRids == Rids \ {ledger[k].rid : k \in {j \in Keys : ledger[j] # NoEntry}}

Entry(req, rid) ==
  [kind |-> req.op, amount |-> SignedAmount(req.op, req.amount), rid |-> rid]

EntryRids(req) ==
  CASE req.op = "reserve" -> FreshRids
    [] req.op = "grant" -> {NoRid}
    [] OTHER -> {req.rid}

\* Mutation: the row is written without comparing versions.
ApplyBlind(p) ==
  /\ call[p].pc = "apply"
  /\ LET req == call[p].req
     IN IF ledger[req.key] # NoEntry
        THEN GoTo(p, "load") /\ UNCHANGED <<wallet, ledger>>
        ELSE \E rid \in EntryRids(req) :
               /\ wallet' = call[p].snap
               /\ ledger' = [ledger EXCEPT ![req.key] = Entry(req, rid)]
               /\ GoTo(p, "applied")
  /\ UNCHANGED depleted

\* One transaction: FOR UPDATE, version check, INSERT (a duplicate key aborts
\* it), UPDATE.  Both conflicts send the caller round the loop again.
ApplyWithLock(p) ==
  /\ call[p].pc = "apply"
  /\ LET req == call[p].req
         w   == call[p].snap
     IN IF wallet.version # w.version - 1 \/ ledger[req.key] # NoEntry
        THEN GoTo(p, "load") /\ UNCHANGED <<wallet, ledger>>
        ELSE \E rid \in EntryRids(req) :
               /\ wallet' = w
               /\ ledger' = [ledger EXCEPT ![req.key] = Entry(req, rid)]
               /\ GoTo(p, "applied")
  /\ UNCHANGED depleted

\* The transaction has committed.  A commit that emptied the balance is
\* announced, best effort, and the call reports success either way.
Finish(p) ==
  /\ call[p].pc = "applied"
  /\ \/ /\ call[p].req.op = "commit" /\ call[p].snap.balance = 0
        /\ depleted' = [depleted EXCEPT ![call[p].req.key] = @ + 1]
     \/ UNCHANGED depleted
  /\ Return(p, "ok")
  /\ UNCHANGED <<wallet, ledger>>

\* A database error, a cancelled context or a crash of the process.  After
\* the commit of ApplyWithLock the caller cannot tell it from a failure.
Fail(p) ==
  /\ call[p].pc # Idle
  /\ Return(p, "error")
  /\ UNCHANGED <<wallet, ledger, depleted>>

-----------------------------------------------------------------------------
(* Writers that do not go through the Service.                             *)

Credit(w, k, a) ==
  /\ wallet' = w
  /\ ledger' = [ledger EXCEPT ![k] = [kind |-> "grant", amount |-> SignedAmount("grant", a),
                                      rid |-> NoRid]]
  /\ UNCHANGED <<call, depleted>>

\* Courtesy grant at onboarding: wallet, ledger row and balance in one
\* transaction that the UNIQUE courtesy_grant row lets happen once.
IssueCourtesy ==
  /\ wallet = NoWallet
  /\ \E a \in Amounts :
       /\ a > 0 /\ a <= MaxInt
       /\ Credit([balance |-> a, reserved |-> 0, version |-> 1], CourtesyKey, a)

\* Mutation: the allocator upserts instead of skipping a known key.
AllocateUpsert ==
  /\ wallet # NoWallet
  /\ \E k \in Keys, a \in Amounts :
       a > 0 /\ CanGrant(wallet, a) /\ Credit(DoGrant(wallet, a), k, a)

\* Monthly allocator: ON CONFLICT DO NOTHING, then a relative UPDATE that
\* bumps the version; an overflowing balance aborts the transaction.
AllocateMonthlyQuota ==
  /\ wallet # NoWallet
  /\ \E k \in Keys, a \in Amounts :
       /\ a > 0 /\ ledger[k] = NoEntry /\ CanGrant(wallet, a)
       /\ Credit(DoGrant(wallet, a), k, a)

-----------------------------------------------------------------------------

Init ==
  /\ wallet = NoWallet
  /\ ledger = [k \in Keys |-> NoEntry]
  /\ call = [p \in Procs |-> Frame(Idle, NoRequest, NoWallet, 0, "none")]
  /\ depleted = [k \in Keys |-> 0]

Step(p) ==
  \/ LoadByTenant(p)
  \/ LookupByIdempotencyKey(p)
  \/ LookupCompletedByExternalRef(p)
  \/ ApplyWithLock(p)
  \/ Finish(p)

Next ==
  \/ \E p \in Procs : Reserve(p) \/ Commit(p) \/ Release(p) \/ Grant(p)
  \/ \E p \in Procs : Step(p) \/ Fail(p)
  \/ IssueCourtesy
  \/ AllocateMonthlyQuota

Spec == Init /\ [][Next]_vars
-----------------------------------------------------------------------------
(* Properties.                                                             *)

PCs == {Idle, "load", "lookup", "settled", "apply", "applied"}
Results == {"none", "ok", "refused", "error"}

CallFrame == [pc : PCs, req : Request, snap : TokenWallet \cup {NoWallet},
              attempt : Nat, ret : Results]

\* Every variable keeps its shape: rows, call frames and event counts.
TypeOK ==
  /\ wallet \in TokenWallet \cup {NoWallet}
  /\ ledger \in [Keys -> LedgerEntry \cup {NoEntry}]
  /\ call \in [Procs -> CallFrame]
  /\ depleted \in [Keys -> Nat]

\* The three invariants of TokenWallet: never overdrawn, never holding more
\* than there is, never past the int64 range, however calls interleave.
Solvent ==
  wallet # NoWallet => /\ 0 <= wallet.reserved
                       /\ wallet.reserved <= wallet.balance
                       /\ wallet.balance <= MaxInt

HasKind(k, kinds) == ledger[k] # NoEntry /\ ledger[k].kind \in kinds

\* A reservation is committed or released once, by one call, even when a
\* commit and a release of it, under different keys, pass every lookup
\* together (ErrReservationCompleted is checked outside the lock).
AtMostOneSettlement ==
  \A j, k \in Keys :
    HasKind(j, Settling) /\ HasKind(k, Settling) /\ ledger[j].rid = ledger[k].rid => j = k

\* Every settlement closes a reservation the ledger knows, and never charges
\* more than that reservation held; a release returns exactly what it held.
SettlementsAreBacked ==
  \A k \in Keys : HasKind(k, Settling) =>
    \E j \in Keys : /\ HasKind(j, {"reserve"}) /\ ledger[j].rid = ledger[k].rid
                   /\ IF ledger[k].kind = "commit" THEN -ledger[k].amount <= -ledger[j].amount
                                                   ELSE ledger[k].amount = -ledger[j].amount

\* The version stamp protects what was read outside the lock: a call that is
\* about to apply on an unchanged version still has its key free and its
\* reservation open, so the UNIQUE index is never what stops it.
VersionGuardsLookups ==
  \A p \in Procs :
    call[p].pc = "apply" /\ wallet.version = call[p].snap.version - 1 =>
      /\ ledger[call[p].req.key] = NoEntry
      /\ call[p].req.op \in Settling => ~Completed(call[p].req.rid)

\* A call goes round the retry loop only because another writer got through:
\* the n-th attempt has seen the wallet at version n at least.
RetryPaidByProgress ==
  \A p \in Procs :
    /\ call[p].attempt > 0 => wallet # NoWallet /\ call[p].attempt <= wallet.version
    /\ call[p].pc = "load" /\ call[p].attempt > 0 => call[p].attempt < wallet.version

\* Commit and Release never answer "stale snapshot" from the aggregate: while
\* their reservation is open the loaded wallet holds at least its amount.
OpenReservationIsHeld ==
  \A p \in Procs :
    call[p].pc = "settled" /\ ~Completed(call[p].req.rid) =>
      CanSettle(call[p].snap, call[p].req.held)

\* The balance.depleted event of one commit is published at most once, also
\* when the commit is retried with its key after a crash.
DepletionAnnouncedAtMostOnce == \A k \in Keys : depleted[k] <= 1

Returns(p) == call[p].pc # Idle /\ call'[p].pc = Idle

\* Success is durable: a call reports success only when the ledger row of its
\* own request, and of no other request under that key, is committed.
SuccessIsRecorded ==
  [][\A p \in Procs : Returns(p) /\ call'[p].ret = "ok" =>
        /\ ledger'[call[p].req.key] # NoEntry
        /\ SameRequest(ledger'[call[p].req.key], call[p].req)]_vars

\* What row k, once written, adds to the balance and to the held amount.
BalanceDelta(e) == IF e.kind \in {"grant", "commit"} THEN e.amount ELSE 0

\* The row changes only together with one new ledger row, which accounts for
\* the whole change of the balance; committed rows never change.
LedgerMirrorsWallet ==
  [][/\ \A k \in Keys : ledger[k] # NoEntry => ledger'[k] = ledger[k]
     /\ wallet' # wallet =>
          \E k \in Keys :
            /\ ledger[k] = NoEntry /\ ledger'[k] # NoEntry
            /\ \A j \in Keys \ {k} : ledger'[j] = ledger[j]
            /\ wallet'.balance =
                 (IF wallet = NoWallet THEN 0 ELSE wallet.balance) + BalanceDelta(ledger'[k])
     /\ ledger' # ledger => wallet' # wallet]_vars

Account == IF wallet = NoWallet THEN [balance |-> 0, reserved |-> 0]
           ELSE [balance |-> wallet.balance, reserved |-> wallet.reserved]

Abstract == INSTANCE TokenLedger WITH account <- Account, rows <- ledger

\* Every run of the concurrent Service is a run of the atomic token ledger.
ImplementsTokenLedger == Abstract!Spec
=============================================================================
