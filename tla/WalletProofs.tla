---------------------------- MODULE WalletProofs ----------------------------
(***************************************************************************)
(* Theorems about the token wallet, for every number of concurrent calls,  *)
(* keys, amounts, reservation ids and retries.                             *)
(***************************************************************************)
EXTENDS WalletInduction, TLAPS

\* A step that changes only what process p knows keeps the invariant when it
\* keeps p's own part of it and does not enter the epilogue.
LEMMA LocalStep ==
  ASSUME IndInv, TypeOK', NEW p \in Procs,
         wallet' = wallet, ledger' = ledger, depleted' = depleted,
         \A q \in Procs \ {p} : call'[q] = call[q],
         call'[p].pc # "applied",
         CallOK(p)'
  PROVE  IndInv'
<1>1. \A q \in Procs : CallOK(q)'
  <2> TAKE q \in Procs
  <2>1. CASE q = p
    BY Zenon, <2>1
  <2>2. CASE q # p
    <3>1. call'[q] = call[q] /\ CallOK(q)
      BY <2>2 DEF IndInv
    <3> QED
      BY ZenonT(60), <3>1 DEF CallOK, Loaded, Pending, HandleOK, HasKind, Completed, Allowed, Mutated
  <2> QED BY <2>1, <2>2
<1>2. EpiloguesApart'
  BY DEF IndInv, EpiloguesApart
<1>3. Solvent' /\ LedgerOK' /\ AtMostOneSettlement' /\ SettlementsAreBacked'
      /\ DepletionAnnouncedAtMostOnce'
  BY DEF IndInv, Solvent, LedgerOK, AtMostOneSettlement, SettlementsAreBacked, HasKind,
         DepletionAnnouncedAtMostOnce
<1> QED BY <1>1, <1>2, <1>3 DEF IndInv

\* The empty wallet, ledger and calls satisfy the invariant.
LEMMA InitInv == Init => IndInv
<1> SUFFICES ASSUME Init PROVE IndInv OBVIOUS
<1> USE WalletAssumption DEF Init
<1>1. NoRequest \in Request
  BY DEF NoRequest, Request, Kinds
<1>2. TypeOK
  BY <1>1 DEF TypeOK, CallFrame, Frame, PCs, Results, Idle
<1>3. Solvent /\ LedgerOK /\ AtMostOneSettlement /\ SettlementsAreBacked
      /\ DepletionAnnouncedAtMostOnce
  BY DEF Solvent, LedgerOK, AtMostOneSettlement, SettlementsAreBacked, HasKind,
         DepletionAnnouncedAtMostOnce
<1>4. \A p \in Procs : CallOK(p)
  BY DEF CallOK, Frame, Idle
<1>5. EpiloguesApart
  BY DEF EpiloguesApart, Frame, Idle
<1> QED BY <1>2, <1>3, <1>4, <1>5 DEF IndInv

\* Returning empties the frame.
LEMMA ReturnStep ==
  ASSUME IndInv, NEW p \in Procs, NEW ret \in Results, Return(p, ret),
         wallet' = wallet, ledger' = ledger, depleted' = depleted
  PROVE  IndInv'
<1>1. NoRequest \in Request
  BY WalletAssumption DEF NoRequest, Request, Kinds
<1>2. TypeOK'
  BY <1>1 DEF IndInv, TypeOK, Return, CallFrame, Frame, PCs, Idle
<1>3. call'[p].pc = Idle /\ \A q \in Procs \ {p} : call'[q] = call[q]
  BY DEF IndInv, TypeOK, Return, Frame
<1>4. CallOK(p)'
  BY <1>3 DEF CallOK, Idle
<1> QED BY <1>2, <1>3, <1>4, LocalStep DEF Idle

\* Going back to the head of the loop keeps only the request.
LEMMA LoopStep ==
  ASSUME IndInv, NEW p \in Procs, call[p].pc # Idle, GoTo(p, "load"),
         wallet' = wallet, ledger' = ledger, depleted' = depleted
  PROVE  IndInv'
<1>1. TypeOK'
  BY DEF IndInv, TypeOK, GoTo, CallFrame, PCs
<1>2. /\ call'[p].pc = "load" /\ call'[p].req = call[p].req
      /\ \A q \in Procs \ {p} : call'[q] = call[q]
  BY DEF IndInv, TypeOK, GoTo, CallFrame
<1>3. CallOK(p)'
  BY <1>2 DEF IndInv, CallOK, Idle, HandleOK, HasKind
<1> QED BY <1>1, <1>2, <1>3, LocalStep

\* A request that passes, or fails, its argument checks keeps the invariant.
LEMMA StartStep ==
  ASSUME IndInv, NEW p \in Procs, NEW req \in Request, HandleOK(req), Start(p, req)
  PROVE  IndInv'
<1>0. wallet' = wallet /\ ledger' = ledger /\ depleted' = depleted
  BY DEF Start
<1>1. CASE Return(p, "refused")
  BY <1>0, <1>1, ReturnStep DEF Results
<1>2. CASE /\ ValidRequest(req)
           /\ call' = [call EXCEPT ![p] = Frame("load", req, NoWallet, 0, "none")]
  <2>1. TypeOK'
    BY <1>0, <1>2 DEF IndInv, TypeOK, CallFrame, Frame, PCs, Results
  <2>2. /\ call'[p].pc = "load" /\ call'[p].req = req
        /\ \A q \in Procs \ {p} : call'[q] = call[q]
    BY <1>2 DEF IndInv, TypeOK, Frame
  <2>3. CallOK(p)'
    BY <1>0, <1>2, <2>2 DEF CallOK, HandleOK, HasKind
  <2> QED BY <1>0, <2>1, <2>2, <2>3, LocalStep
<1> QED BY <1>1, <1>2 DEF Start

\* The requests callers make: of a new operation, or on a reservation handle.
LEMMA CallsStep ==
  ASSUME IndInv, NEW p \in Procs, Reserve(p) \/ Commit(p) \/ Release(p) \/ Grant(p)
  PROVE  IndInv'
<1>1. ASSUME NEW op \in {"reserve", "grant"}, NEW a \in Amounts, NEW k \in Keys,
             Start(p, NewRequest(op, a, k, NoRid, 0))
      PROVE  IndInv'
  <2>1. NewRequest(op, a, k, NoRid, 0) \in Request
    BY WalletAssumption DEF NewRequest, Request, Kinds
  <2>2. HandleOK(NewRequest(op, a, k, NoRid, 0))
    BY DEF HandleOK, NewRequest, Settling
  <2> QED BY <1>1, <2>1, <2>2, StartStep
<1>2. ASSUME NEW h \in Handles, NEW op \in Settling, NEW a \in Nat, NEW k \in Keys,
             op = "release" => a = -ledger[h].amount,
             Start(p, NewRequest(op, a, k, ledger[h].rid, -ledger[h].amount))
      PROVE  IndInv'
  <2>1. /\ h \in Keys /\ HasKind(h, {"reserve"}) /\ ledger[h].rid \in Rids
        /\ ledger[h].amount \in Int /\ ledger[h].amount < 0
    BY DEF Handles, HasKind, IndInv, LedgerOK, TypeOK, LedgerEntry
  <2>2. -ledger[h].amount \in Nat /\ ledger[h].amount = -(-ledger[h].amount)
    BY <2>1
  <2>3. NewRequest(op, a, k, ledger[h].rid, -ledger[h].amount) \in Request
    BY <2>1, <2>2 DEF NewRequest, Request, Kinds, Settling
  <2>4. HandleOK(NewRequest(op, a, k, ledger[h].rid, -ledger[h].amount))
    BY <1>2, <2>1, <2>2 DEF HandleOK, NewRequest
  <2> QED BY <1>2, <2>3, <2>4, StartStep
<1>3. ASSUME NEW h \in Handles PROVE -ledger[h].amount \in Nat
  BY DEF Handles, HasKind, IndInv, LedgerOK, TypeOK, LedgerEntry
<1>4. CASE Reserve(p)
  BY <1>4, <1>1 DEF Reserve
<1>5. CASE Grant(p)
  BY <1>5, <1>1 DEF Grant
<1>6. CASE Commit(p)
  BY <1>6, <1>2, WalletAssumption DEF Commit, Settling
<1>7. CASE Release(p)
  BY <1>7, <1>2, <1>3 DEF Release, Settling
<1> QED BY <1>4, <1>5, <1>6, <1>7

\* Loading the row, or giving up after maxAttempts, keeps the invariant.
LEMMA LoadStep ==
  ASSUME IndInv, NEW p \in Procs, LoadByTenant(p)
  PROVE  IndInv'
<1> USE DEF LoadByTenant
<1>1. CASE Return(p, "refused")
  BY <1>1, ReturnStep DEF Results
<1>2. CASE /\ wallet # NoWallet
           /\ call' = [call EXCEPT ![p].pc = "lookup", ![p].snap = wallet, ![p].attempt = @ + 1]
  <2>1. TypeOK'
    BY <1>2 DEF IndInv, TypeOK, CallFrame, PCs
  <2>2. /\ call'[p].pc = "lookup" /\ call'[p].req = call[p].req /\ call'[p].snap = wallet
        /\ \A q \in Procs \ {p} : call'[q] = call[q]
    BY <1>2 DEF IndInv, TypeOK, CallFrame
  <2>3. Loaded(wallet)
    BY <1>2 DEF IndInv, TypeOK, Solvent, Loaded, SolventRow, TokenWallet
  <2>4. CallOK(p)'
    BY <2>2, <2>3 DEF IndInv, CallOK, HandleOK, HasKind, Loaded, Idle
  <2> QED BY <2>1, <2>2, <2>4, LocalStep
<1> QED BY <1>1, <1>2

\* The aggregate's methods keep a solvent wallet solvent and stamp it.
LEMMA MutatedRow ==
  ASSUME NEW w \in TokenWallet, SolventRow(w),
         NEW req \in Request, ValidRequest(req), Allowed(w, req)
  PROVE  /\ Mutated(w, req) \in TokenWallet
         /\ SolventRow(Mutated(w, req))
         /\ Mutated(w, req).version = w.version + 1
<1>1. /\ req.op \in Kinds /\ req.amount \in Nat /\ req.held \in Nat /\ req.amount > 0
      /\ w.balance \in Nat /\ w.reserved \in Nat /\ w.version \in Nat /\ MaxInt \in Nat
      /\ w.reserved <= w.balance /\ w.balance <= MaxInt
  BY WalletAssumption DEF Request, TokenWallet, SolventRow, ValidRequest
<1>2. CASE req.op = "reserve"
  <2>1. Mutated(w, req) = DoReserve(w, req.amount) /\ w.balance - w.reserved >= req.amount
    BY <1>2 DEF Mutated, Allowed, CanReserve
  <2> QED BY <1>1, <2>1 DEF DoReserve, Stamp, TokenWallet, SolventRow
<1>3. CASE req.op = "grant"
  <2>1. Mutated(w, req) = DoGrant(w, req.amount) /\ req.amount <= MaxInt - w.balance
    BY <1>3 DEF Mutated, Allowed, CanGrant
  <2> QED BY <1>1, <2>1 DEF DoGrant, Stamp, TokenWallet, SolventRow
<1>4. CASE req.op = "commit"
  <2>1. /\ Mutated(w, req) = DoCommit(w, req.amount, req.held)
        /\ w.reserved >= req.held /\ req.amount <= req.held
    BY <1>4 DEF Mutated, Allowed, CanSettle, ValidRequest, Settling
  <2> QED BY <1>1, <2>1 DEF DoCommit, Stamp, TokenWallet, SolventRow
<1>5. CASE req.op = "release"
  <2>1. Mutated(w, req) = DoRelease(w, req.held) /\ w.reserved >= req.held
    BY <1>5 DEF Mutated, Allowed, CanSettle, Settling
  <2> QED BY <1>1, <2>1 DEF DoRelease, Stamp, TokenWallet, SolventRow
<1> QED BY <1>1, <1>2, <1>3, <1>4, <1>5 DEF Kinds

\* Once the lookups have answered, computing the new aggregate leaves a call
\* that is pending on the row it loaded, or one that returns or loads again.
LEMMA MutateStep ==
  ASSUME IndInv, NEW p \in Procs, Mutate(p),
         wallet' = wallet, ledger' = ledger, depleted' = depleted,
         call[p].pc \in {"lookup", "settled"},
         Loaded(call[p].snap),
         call[p].snap.version = wallet.version =>
            /\ ledger[call[p].req.key] = NoEntry
            /\ call[p].req.op \in Settling => ~Completed(call[p].req.rid)
  PROVE  IndInv'
<1> DEFINE req == call[p].req
           w == call[p].snap
<1>0. /\ req \in Request /\ w \in TokenWallet /\ wallet \in TokenWallet
      /\ ValidRequest(req) /\ HandleOK(req) /\ call[p] \in CallFrame
      /\ call \in [Procs -> CallFrame]
  BY DEF IndInv, TypeOK, CallFrame, Loaded, CallOK, Idle
<1>1. CASE Return(p, "refused")
  BY <1>1, ReturnStep DEF Results
<1>2. CASE GoTo(p, "load")
  BY <1>2, LoopStep DEF Idle
<1>3. CASE /\ Allowed(w, req)
           /\ call' = [call EXCEPT ![p].pc = "apply", ![p].snap = Mutated(w, req)]
  <2>1. /\ Mutated(w, req) \in TokenWallet /\ SolventRow(Mutated(w, req))
        /\ Mutated(w, req).version = w.version + 1
    BY <1>0, <1>3, MutatedRow DEF Loaded
  <2>2. /\ call'[p].pc = "apply" /\ call'[p].req = req /\ call'[p].snap = Mutated(w, req)
        /\ \A q \in Procs \ {p} : call'[q] = call[q]
    BY <1>0, <1>3 DEF CallFrame
  <2>3. TypeOK'
    BY Zenon, <1>0, <1>3, <2>1 DEF IndInv, TypeOK, CallFrame, PCs
  <2>4. Pending(Mutated(w, req), req)
    <3>1. w.version \in Nat /\ wallet.version \in Nat
      BY <1>0 DEF TokenWallet
    <3>2. w.version <= wallet.version /\ (w.version = wallet.version => w = wallet)
      BY DEF Loaded
    <3>3. Mutated(w, req) # NoWallet
      BY <2>1, WalletAssumption
    <3> QED BY <1>3, <2>1, <3>1, <3>2, <3>3 DEF Pending, Loaded
  <2>5. CallOK(p)'
    <3>1. \A v, r : Pending(v, r) => Pending(v, r)'
      BY DEF Pending, Completed
    <3>2. \A r : HandleOK(r) => HandleOK(r)'
      BY DEF HandleOK, HasKind
    <3> QED BY <1>0, <2>2, <2>4, <3>1, <3>2 DEF CallOK, Idle
  <2> QED BY <2>2, <2>3, <2>5, LocalStep
<1> QED
  BY <1>1, <1>2, <1>3 DEF Mutate

\* Answering from the row under one's own key, or going on, keeps it.
LEMMA LookupStep ==
  ASSUME IndInv, NEW p \in Procs, LookupByIdempotencyKey(p)
  PROVE  IndInv'
<1> DEFINE req == call[p].req
<1>0. /\ wallet' = wallet /\ ledger' = ledger /\ depleted' = depleted
      /\ call[p].pc = "lookup" /\ Loaded(call[p].snap)
      /\ ValidRequest(req) /\ HandleOK(req)
  BY DEF LookupByIdempotencyKey, IndInv, CallOK, Idle
<1>1. CASE \E ret \in Results : Return(p, ret)
  BY <1>0, <1>1, ReturnStep
<1>2. CASE ledger[req.key] = NoEntry /\ req.op \in Settling /\ GoTo(p, "settled")
  <2>1. TypeOK'
    BY <1>0, <1>2 DEF IndInv, TypeOK, GoTo, CallFrame, PCs
  <2>2. /\ call'[p].pc = "settled" /\ call'[p].req = req /\ call'[p].snap = call[p].snap
        /\ \A q \in Procs \ {p} : call'[q] = call[q]
    BY <1>2 DEF IndInv, TypeOK, GoTo, CallFrame
  <2>3. CallOK(p)'
    <3>1. \A v : Loaded(v) => Loaded(v)'
      BY <1>0 DEF Loaded
    <3>2. \A r : HandleOK(r) => HandleOK(r)'
      BY <1>0 DEF HandleOK, HasKind
    <3> QED BY <1>0, <1>2, <2>2, <3>1, <3>2 DEF CallOK, Idle
  <2> QED BY <1>0, <2>1, <2>2, <2>3, LocalStep
<1>3. CASE ledger[req.key] = NoEntry /\ req.op \notin Settling /\ Mutate(p)
  BY <1>0, <1>3, MutateStep
<1> QED BY <1>1, <1>2, <1>3 DEF LookupByIdempotencyKey, Results

\* Refusing a settled reservation, or going on to settle it, keeps it.
LEMMA CompletedStep ==
  ASSUME IndInv, NEW p \in Procs, LookupCompletedByExternalRef(p)
  PROVE  IndInv'
<1>0. /\ wallet' = wallet /\ ledger' = ledger /\ depleted' = depleted
      /\ call[p].pc = "settled" /\ Loaded(call[p].snap)
      /\ call[p].snap.version = wallet.version => ledger[call[p].req.key] = NoEntry
  BY DEF LookupCompletedByExternalRef, IndInv, CallOK
<1>1. CASE Return(p, "refused")
  BY <1>0, <1>1, ReturnStep DEF Results
<1>2. CASE ~Completed(call[p].req.rid) /\ Mutate(p)
  BY <1>0, <1>2, MutateStep
<1> QED BY <1>1, <1>2 DEF LookupCompletedByExternalRef

\* A crash or a database error only empties the frame of the call.
LEMMA FailStep ==
  ASSUME IndInv, NEW p \in Procs, Fail(p)
  PROVE  IndInv'
BY ReturnStep DEF Fail, Results

\* Publishing, or failing to publish, the depletion of one's own commit.
LEMMA FinishStep ==
  ASSUME IndInv, NEW p \in Procs, Finish(p)
  PROVE  IndInv'
<1> DEFINE key == call[p].req.key
<1>0. /\ wallet' = wallet /\ ledger' = ledger /\ Return(p, "ok") /\ call[p].pc = "applied"
      /\ key \in Keys /\ ledger[key] # NoEntry /\ depleted[key] = 0
  BY DEF Finish, IndInv, CallOK, TypeOK, CallFrame, Request
<1>1. CASE depleted' = depleted
  BY <1>0, <1>1, ReturnStep DEF Results
<1>2. CASE depleted' = [depleted EXCEPT ![key] = @ + 1]
  <2>1. /\ call'[p].pc = Idle /\ \A q \in Procs \ {p} : call'[q] = call[q]
    BY <1>0 DEF IndInv, TypeOK, Return, Frame
  <2>2. TypeOK'
    <3>1. NoRequest \in Request
      BY WalletAssumption DEF NoRequest, Request, Kinds
    <3> QED BY <1>0, <1>2, <3>1 DEF IndInv, TypeOK, Return, CallFrame, Frame, PCs, Idle, Results
  <2>3. \A k \in Keys : depleted'[k] = IF k = key THEN 1 ELSE depleted[k]
    BY <1>0, <1>2 DEF IndInv, TypeOK
  <2>4. DepletionAnnouncedAtMostOnce' /\ LedgerOK'
    BY <1>0, <2>3 DEF IndInv, DepletionAnnouncedAtMostOnce, LedgerOK, HasKind
  <2>5. Solvent' /\ AtMostOneSettlement' /\ SettlementsAreBacked'
    BY <1>0 DEF IndInv, Solvent, AtMostOneSettlement, SettlementsAreBacked, HasKind
  <2>6. EpiloguesApart'
    BY <2>1 DEF IndInv, EpiloguesApart, Idle
  <2>7. ASSUME NEW q \in Procs PROVE CallOK(q)'
    <3>1. CASE q = p
      BY Zenon, <2>1, <3>1 DEF CallOK, Idle
    <3>2. CASE q # p
      <4>1. call'[q] = call[q] /\ CallOK(q)
        BY Zenon, <2>1, <3>2 DEF IndInv
      <4>2. call[q].pc = "applied" => depleted'[call[q].req.key] = 0
        BY Zenon, <1>0, <2>3, <3>2, <4>1 DEF IndInv, EpiloguesApart, CallOK, TypeOK, CallFrame, Request
      <4> QED BY <1>0, <4>1, <4>2 DEF CallOK, Loaded, Pending, HandleOK, HasKind, Completed
    <3> QED BY <3>1, <3>2
  <2> QED BY <2>2, <2>4, <2>5, <2>6, <2>7 DEF IndInv
<1> QED BY <1>1, <1>2 DEF Finish

\* Whoever writes the row, the calls of the others stay well-formed: their
\* snapshots are now older than the row, so nothing is promised about them.
LEMMA OthersUnharmed ==
  ASSUME IndInv, NEW k \in Keys, NEW e \in LedgerEntry,
         ledger[k] = NoEntry, ledger' = [ledger EXCEPT ![k] = e],
         wallet' \in TokenWallet, wallet # NoWallet => wallet'.version = wallet.version + 1,
         depleted' = depleted,
         NEW q \in Procs, call'[q] = call[q]
  PROVE  CallOK(q)'
<1> DEFINE c == call[q]
<1>0. /\ CallOK(q) /\ c \in CallFrame /\ wallet' # NoWallet
      /\ wallet # NoWallet => wallet.version \in Nat
      /\ c.snap # NoWallet => c.snap.version \in Nat
  BY WalletAssumption DEF IndInv, TypeOK, CallFrame, TokenWallet
<1>1. \A j \in Keys : ledger[j] # NoEntry => ledger'[j] = ledger[j]
  BY Zenon DEF IndInv, TypeOK
<1>2. c.pc # Idle => ValidRequest(c.req) /\ HandleOK(c.req)'
  BY Zenon, <1>0, <1>1 DEF CallOK, HandleOK, HasKind
<1>3. c.pc \in {"lookup", "settled"} => Loaded(c.snap)' /\ c.snap.version # wallet'.version
  BY SMTT(30), <1>0 DEF CallOK, Loaded, Idle
<1>4. c.pc = "apply" => Pending(c.snap, c.req)'
  BY SMTT(30), <1>0 DEF CallOK, Pending
<1>5. c.pc = "applied" => /\ ledger'[c.req.key] # NoEntry
                          /\ SameRequest(ledger'[c.req.key], c.req)
                          /\ depleted'[c.req.key] = 0
  BY <1>0, <1>1 DEF CallOK, CallFrame, Request
<1> QED
  <2>1. c.pc = "settled" => c.req.op \in Settling
    BY <1>0 DEF CallOK
  <2> QED BY Zenon, <1>2, <1>3, <1>4, <1>5, <2>1 DEF CallOK

\* Posting a row that its kind allows keeps the ledger's own invariants.
LEMMA PostedLedger ==
  ASSUME IndInv, NEW k \in Keys, NEW e \in LedgerEntry,
         ledger[k] = NoEntry, ledger' = [ledger EXCEPT ![k] = e],
         wallet' # NoWallet, depleted' = depleted,
         e.kind = "grant" => e.rid = NoRid,
         e.kind = "reserve" => /\ e.rid \in Rids /\ e.amount < 0
                               /\ \A j \in Keys : ledger[j] # NoEntry => ledger[j].rid # e.rid,
         e.kind \in Settling =>
           /\ ~Completed(e.rid)
           /\ \E h \in Keys : /\ HasKind(h, {"reserve"}) /\ ledger[h].rid = e.rid
                              /\ IF e.kind = "commit" THEN -e.amount <= -ledger[h].amount
                                                      ELSE e.amount = -ledger[h].amount
  PROVE  LedgerOK' /\ AtMostOneSettlement' /\ SettlementsAreBacked'
         /\ DepletionAnnouncedAtMostOnce'
<1>1. /\ ledger'[k] = e /\ e # NoEntry
      /\ \A j \in Keys \ {k} : ledger'[j] = ledger[j]
      /\ \A j \in Keys : ledger[j] # NoEntry => ledger'[j] = ledger[j]
  BY WalletAssumption DEF IndInv, TypeOK
<1>2. LedgerOK'
  BY <1>1 DEF IndInv, LedgerOK, HasKind
<1>3. AtMostOneSettlement'
  BY <1>1 DEF IndInv, AtMostOneSettlement, HasKind, Completed
<1>4. SettlementsAreBacked'
  <2> SUFFICES ASSUME NEW j \in Keys, HasKind(j, Settling)'
               PROVE  \E h \in Keys :
                        /\ HasKind(h, {"reserve"})' /\ ledger'[h].rid = ledger'[j].rid
                        /\ IF ledger'[j].kind = "commit"
                           THEN -ledger'[j].amount <= -ledger'[h].amount
                           ELSE ledger'[j].amount = -ledger'[h].amount
    BY DEF SettlementsAreBacked
  <2>1. CASE j = k
    BY <1>1, <2>1 DEF HasKind
  <2>2. CASE j # k
    BY <1>1, <2>2 DEF HasKind, IndInv, SettlementsAreBacked
  <2> QED BY <2>1, <2>2
<1>5. DepletionAnnouncedAtMostOnce'
  BY DEF IndInv, DepletionAnnouncedAtMostOnce
<1> QED BY <1>2, <1>3, <1>4, <1>5

\* The row and the ledger change together, under an unchanged version.
LEMMA ApplyStep ==
  ASSUME IndInv, NEW p \in Procs, ApplyWithLock(p)
  PROVE  IndInv'
<1> DEFINE req == call[p].req
           w == call[p].snap
<1>0. /\ call[p].pc = "apply" /\ depleted' = depleted
      /\ ValidRequest(req) /\ HandleOK(req) /\ Pending(w, req)
      /\ call[p] \in CallFrame /\ req \in Request
  BY DEF ApplyWithLock, IndInv, CallOK, Idle, TypeOK, CallFrame
<1>1. CASE GoTo(p, "load") /\ wallet' = wallet /\ ledger' = ledger
  BY <1>0, <1>1, LoopStep DEF Idle
<1>2. ASSUME wallet.version = w.version - 1, ledger[req.key] = NoEntry,
             NEW rid \in EntryRids(req),
             wallet' = w, ledger' = [ledger EXCEPT ![req.key] = Entry(req, rid)],
             GoTo(p, "applied")
      PROVE  IndInv'
  <2> DEFINE e == Entry(req, rid)
             k == req.key
  <2>1. /\ k \in Keys /\ req.op \in Kinds /\ req.amount \in Nat /\ req.held \in Nat
        /\ w \in TokenWallet /\ wallet \in TokenWallet /\ w # NoWallet
        /\ w.version \in Nat /\ wallet.version \in Nat
    BY SMTT(30), <1>0 DEF Request, CallFrame, Pending, IndInv, TypeOK, TokenWallet
  <2>2. /\ req.op \in Settling => ~Completed(req.rid)
        /\ SolventRow(w)
        /\ wallet'.version = wallet.version + 1
    BY <1>0, <1>2, <2>1 DEF Pending
  <2>3. /\ req.op = "reserve" => rid \in Rids
        /\ req.op = "reserve" => \A j \in Keys : ledger[j] # NoEntry => ledger[j].rid # rid
        /\ req.op = "grant" => rid = NoRid
        /\ req.op \in Settling => rid = req.rid /\ rid \in Rids
    BY Zenon, <1>0, <1>2, <2>1 DEF EntryRids, FreshRids, HandleOK, Settling, Kinds
  <2>4. /\ e \in LedgerEntry /\ e.kind = req.op /\ e.rid = rid
        /\ e.amount = IF req.op \in {"reserve", "commit"} THEN -req.amount ELSE req.amount
    BY SMTT(30), <2>1, <2>3 DEF Entry, LedgerEntry, SignedAmount, Kinds, Settling
  <2>5. e.kind \in Settling =>
           /\ ~Completed(e.rid)
           /\ \E h \in Keys : /\ HasKind(h, {"reserve"}) /\ ledger[h].rid = e.rid
                              /\ IF e.kind = "commit" THEN -e.amount <= -ledger[h].amount
                                                      ELSE e.amount = -ledger[h].amount
    BY SMTT(30), <1>0, <2>1, <2>2, <2>3, <2>4 DEF HandleOK, ValidRequest, Settling
  <2>6. e.kind = "reserve" => /\ e.rid \in Rids /\ e.amount < 0
                              /\ \A j \in Keys : ledger[j] # NoEntry => ledger[j].rid # e.rid
    BY SMTT(30), <1>0, <2>1, <2>3, <2>4 DEF ValidRequest
  <2>7. LedgerOK' /\ AtMostOneSettlement' /\ SettlementsAreBacked'
        /\ DepletionAnnouncedAtMostOnce'
    <3>1. (e.kind = "grant" => e.rid = NoRid) /\ wallet' # NoWallet
      BY <1>2, <2>1, <2>3, <2>4
    <3> HIDE DEF e, k
    <3>2. ledger[k] = NoEntry /\ ledger' = [ledger EXCEPT ![k] = e]
      BY <1>2 DEF e, k
    <3> QED BY ZenonT(60), <1>0, <2>1, <2>4, <2>5, <2>6, <3>1, <3>2, PostedLedger
  <2>8. /\ call'[p].pc = "applied" /\ call'[p].req = req
        /\ \A q \in Procs \ {p} : call'[q] = call[q]
    BY <1>0, <1>2 DEF IndInv, TypeOK, GoTo, CallFrame
  <2>9. \A j \in Keys : ledger'[j] = IF j = k THEN e ELSE ledger[j]
    BY <1>2, <2>1 DEF IndInv, TypeOK
  <2>10. TypeOK' /\ Solvent'
    <3>1. ledger' \in [Keys -> LedgerEntry \cup {NoEntry}]
      BY <1>2, <2>1, <2>4 DEF IndInv, TypeOK
    <3>2. call' \in [Procs -> CallFrame]
      BY <1>2 DEF IndInv, TypeOK, GoTo, CallFrame, PCs
    <3> QED BY <1>0, <1>2, <2>1, <2>2, <3>1, <3>2 DEF IndInv, TypeOK, Solvent, SolventRow
  <2>11. ASSUME NEW q \in Procs PROVE CallOK(q)'
    <3>1. CASE q # p
      <4>1. call'[q] = call[q]
        BY <2>8, <3>1
      <4> HIDE DEF e, k
      <4>2. ledger[k] = NoEntry /\ ledger' = [ledger EXCEPT ![k] = e] /\ wallet' \in TokenWallet
        BY <1>2, <2>1 DEF e, k
      <4> QED BY ZenonT(60), <1>0, <2>1, <2>2, <2>4, <4>1, <4>2, OthersUnharmed
    <3>2. CASE q = p
      <4>1. HandleOK(req) => \A r : r = req => HandleOK(r)'
        BY <1>2, <2>9 DEF HandleOK, HasKind
      <4>2. ledger'[k] = e /\ e # NoEntry
        BY Zenon, <2>1, <2>4, <2>9, WalletAssumption
      <4>3. SameRequest(e, req)
        BY <2>1, <2>3, <2>4 DEF SameRequest, SignedAmount
      <4>4. depleted[k] = 0
        BY <1>2, <2>1 DEF IndInv, LedgerOK, TypeOK
      <4> QED BY <1>0, <2>8, <3>2, <4>1, <4>2, <4>3, <4>4 DEF CallOK
    <3> QED BY Zenon, <3>1, <3>2
  <2>12. EpiloguesApart'
    <3>1. \A q \in Procs \ {p} : call[q].pc = "applied" => call[q].req.key # k
      BY <1>2 DEF IndInv, CallOK
    <3> QED BY <2>8, <3>1 DEF IndInv, EpiloguesApart
  <2> QED BY <2>7, <2>10, <2>11, <2>12 DEF IndInv
<1> QED BY <1>1, <1>2 DEF ApplyWithLock

\* The writers outside the Service post a grant and stamp the row, too.
LEMMA CreditStep ==
  ASSUME IndInv, NEW k \in Keys, NEW a \in Nat, NEW w \in TokenWallet,
         ledger[k] = NoEntry, SolventRow(w),
         wallet # NoWallet => w.version = wallet.version + 1,
         Credit(w, k, a)
  PROVE  IndInv'
<1> DEFINE e == [kind |-> "grant", amount |-> a, rid |-> NoRid]
<1>1. e \in LedgerEntry /\ e.kind = "grant" /\ e.rid = NoRid
  BY DEF LedgerEntry, Kinds
<1>2. /\ wallet' = w /\ ledger' = [ledger EXCEPT ![k] = e] /\ call' = call
      /\ depleted' = depleted /\ wallet' # NoWallet
  BY WalletAssumption DEF Credit, SignedAmount
<1>3. LedgerOK' /\ AtMostOneSettlement' /\ SettlementsAreBacked' /\ DepletionAnnouncedAtMostOnce'
  <2> HIDE DEF e
  <2> QED BY Zenon, <1>1, <1>2, PostedLedger DEF Settling
<1>4. \A q \in Procs : CallOK(q)'
  <2> HIDE DEF e
  <2> QED BY Zenon, <1>1, <1>2, OthersUnharmed
<1>5. TypeOK' /\ Solvent' /\ EpiloguesApart'
  BY <1>1, <1>2 DEF IndInv, TypeOK, Solvent, SolventRow, EpiloguesApart
<1> QED BY <1>3, <1>4, <1>5 DEF IndInv

\* The courtesy grant creates the wallet with its first ledger row.
LEMMA CourtesyStep ==
  ASSUME IndInv, IssueCourtesy
  PROVE  IndInv'
<1>1. PICK a \in Amounts :
        /\ a > 0 /\ a <= MaxInt
        /\ Credit([balance |-> a, reserved |-> 0, version |-> 1], CourtesyKey, a)
  BY DEF IssueCourtesy
<1> DEFINE w == [balance |-> a, reserved |-> 0, version |-> 1]
<1>2. a \in Nat /\ CourtesyKey \in Keys /\ ledger[CourtesyKey] = NoEntry /\ wallet = NoWallet
  BY WalletAssumption DEF IssueCourtesy, IndInv, LedgerOK
<1>3. w \in TokenWallet /\ SolventRow(w)
  BY <1>1, <1>2 DEF TokenWallet, SolventRow
<1> QED BY <1>1, <1>2, <1>3, CreditStep

\* The monthly allocator credits the row as it finds it.
LEMMA AllocateStep ==
  ASSUME IndInv, AllocateMonthlyQuota
  PROVE  IndInv'
<1>1. PICK k \in Keys, a \in Amounts :
        /\ a > 0 /\ ledger[k] = NoEntry /\ CanGrant(wallet, a)
        /\ Credit(DoGrant(wallet, a), k, a)
  BY DEF AllocateMonthlyQuota
<1>2. /\ a \in Nat /\ MaxInt \in Nat /\ wallet \in TokenWallet
      /\ wallet.balance \in Nat /\ wallet.reserved \in Nat /\ wallet.version \in Nat
      /\ wallet.reserved <= wallet.balance
  BY WalletAssumption DEF AllocateMonthlyQuota, IndInv, TypeOK, TokenWallet, Solvent
<1>3. /\ DoGrant(wallet, a) \in TokenWallet /\ SolventRow(DoGrant(wallet, a))
      /\ DoGrant(wallet, a).version = wallet.version + 1
  BY <1>1, <1>2 DEF DoGrant, Stamp, CanGrant, TokenWallet, SolventRow
<1> QED BY <1>1, <1>2, <1>3, CreditStep

\* Every step of the wallet system keeps the invariant.
LEMMA NextInv ==
  ASSUME IndInv, [Next]_vars
  PROVE  IndInv'
<1>1. CASE UNCHANGED vars
  <2>1. UNCHANGED wallet /\ UNCHANGED ledger /\ UNCHANGED call /\ UNCHANGED depleted
    BY <1>1 DEF vars
  <2>2. TypeOK' /\ Solvent'
    BY SMTT(30), <2>1 DEF IndInv, TypeOK, Solvent
  <2>3. LedgerOK' /\ AtMostOneSettlement'
    BY <2>1 DEF IndInv, LedgerOK, AtMostOneSettlement, HasKind
  <2>4. SettlementsAreBacked' /\ DepletionAnnouncedAtMostOnce' /\ EpiloguesApart'
    BY Zenon, <2>1 DEF IndInv, SettlementsAreBacked, DepletionAnnouncedAtMostOnce, EpiloguesApart, HasKind
  <2>5. ASSUME NEW p \in Procs PROVE CallOK(p)'
    <3>1. CallOK(p)
      BY DEF IndInv
    <3> QED BY Zenon, <2>1, <3>1 DEF CallOK, Loaded, Pending, HandleOK, HasKind, Completed
  <2> QED BY <2>2, <2>3, <2>4, <2>5 DEF IndInv
<1>2. ASSUME NEW p \in Procs, Step(p) PROVE IndInv'
  BY <1>2, LoadStep, LookupStep, CompletedStep, ApplyStep, FinishStep DEF Step
<1> QED BY <1>1, <1>2, CallsStep, FailStep, CourtesyStep, AllocateStep DEF Next

\* The inductive invariant holds in every reachable state of the wallet.
THEOREM Invariance == Spec => []IndInv
<1>1. Init => IndInv
  BY InitInv
<1>2. IndInv /\ [Next]_vars => IndInv'
  BY NextInv
<1> QED BY <1>1, <1>2, PTL DEF Spec

\* The wallet row, the ledger, the calls and the event counts keep their types.
THEOREM TypeCorrect == Spec => []TypeOK
<1>1. IndInv => TypeOK
  BY DEF IndInv
<1> QED BY <1>1, Invariance, PTL

\* Whatever the calls, retries, crashes and the writers outside the Service do,
\* the wallet never holds more than its balance, nor leaves 0..MaxInt.
THEOREM AlwaysSolvent == Spec => []Solvent
<1>1. IndInv => Solvent
  BY DEF IndInv
<1> QED BY <1>1, Invariance, PTL

\* No reservation is both committed and released, or either of them twice.
THEOREM SettledOnce == Spec => []AtMostOneSettlement
<1>1. IndInv => AtMostOneSettlement
  BY DEF IndInv
<1> QED BY <1>1, Invariance, PTL

\* No settlement charges more than its reservation held.
THEOREM ChargesAreBacked == Spec => []SettlementsAreBacked
<1>1. IndInv => SettlementsAreBacked
  BY Zenon DEF IndInv
<1> QED BY <1>1, Invariance, PTL

\* The version check makes the lookups done outside the lock as good as done
\* inside it: the UNIQUE index never rejects a row of the Service.
THEOREM LookupsGuarded == Spec => []VersionGuardsLookups
<1>1. IndInv => VersionGuardsLookups
  <2> SUFFICES ASSUME IndInv, NEW p \in Procs, call[p].pc = "apply",
                      wallet.version = call[p].snap.version - 1
               PROVE  /\ ledger[call[p].req.key] = NoEntry
                      /\ call[p].req.op \in Settling => ~Completed(call[p].req.rid)
    BY DEF VersionGuardsLookups
  <2> QED BY ZenonT(60) DEF IndInv, CallOK, Pending
<1> QED BY <1>1, Invariance, PTL

\* A commit's depletion is announced at most once, retries included.
THEOREM AnnouncedOnce == Spec => []DepletionAnnouncedAtMostOnce
<1>1. IndInv => DepletionAnnouncedAtMostOnce
  BY DEF IndInv
<1> QED BY <1>1, Invariance, PTL

\* A call that reports success has its own row in the ledger.
THEOREM SuccessRecorded == Spec => SuccessIsRecorded
<1> DEFINE Good == \A p \in Procs : Returns(p) /\ call'[p].ret = "ok" =>
                      /\ ledger'[call[p].req.key] # NoEntry
                      /\ SameRequest(ledger'[call[p].req.key], call[p].req)
<1>1. ASSUME IndInv, [Next]_vars PROVE Good
  <2> SUFFICES ASSUME NEW p \in Procs, Returns(p), call'[p].ret = "ok"
               PROVE  /\ ledger'[call[p].req.key] # NoEntry
                      /\ SameRequest(ledger'[call[p].req.key], call[p].req)
    OBVIOUS
  <2>0. call \in [Procs -> CallFrame] /\ call[p].pc # Idle /\ call'[p].pc = Idle
    BY Zenon, <1>1 DEF IndInv, TypeOK, Returns
  <2>1. CASE Finish(p)
    BY Zenon, <1>1, <2>1 DEF Finish, IndInv, CallOK
  <2>2. CASE LookupByIdempotencyKey(p)
    <3>1. ledger[call[p].req.key] # NoEntry /\ SameRequest(ledger[call[p].req.key], call[p].req)
      BY SMTT(30), <2>0, <2>2 DEF LookupByIdempotencyKey, Return, Frame, GoTo, Mutate, Idle, CallFrame
    <3> QED BY <2>2, <3>1 DEF LookupByIdempotencyKey
  <2>3. ASSUME NEW q \in Procs, q # p,
               Reserve(q) \/ Commit(q) \/ Release(q) \/ Grant(q) \/ Step(q) \/ Fail(q)
        PROVE  call'[p] = call[p]
    BY Zenon, <2>0, <2>3 DEF Reserve, Commit, Release, Grant, Start, Step, Fail, LoadByTenant, Finish,
       LookupByIdempotencyKey, LookupCompletedByExternalRef, ApplyWithLock, Mutate, Return, GoTo
  <2>4. ~(Reserve(p) \/ Commit(p) \/ Release(p) \/ Grant(p))
    BY <2>0 DEF Reserve, Commit, Release, Grant, Start
  <2>5. ~(LoadByTenant(p) \/ Fail(p))
    BY <2>0 DEF LoadByTenant, Fail, Return, Frame, Idle, CallFrame
  <2>6. ~LookupCompletedByExternalRef(p)
    BY <2>0 DEF LookupCompletedByExternalRef, Mutate, GoTo, Return, Frame, Idle, CallFrame
  <2>7. ~ApplyWithLock(p)
    BY <2>0 DEF ApplyWithLock, GoTo, Idle, CallFrame
  <2>8. ~(IssueCourtesy \/ AllocateMonthlyQuota \/ UNCHANGED vars)
    BY <2>0 DEF IssueCourtesy, AllocateMonthlyQuota, Credit, vars
  <2> QED BY <1>1, <2>0, <2>1, <2>2, <2>3, <2>4, <2>5, <2>6, <2>7, <2>8 DEF Next, Step
<1>2. IndInv /\ [Next]_vars => [Good]_vars
  BY Zenon, <1>1
<1> QED BY <1>2, Invariance, PTL DEF Spec, SuccessIsRecorded

\* What an apply that got past the version check does to row and ledger.
LEMMA AppliedRow ==
  ASSUME IndInv, NEW p \in Procs, ApplyWithLock(p), ~UNCHANGED <<wallet, ledger>>
  PROVE  \E rid \in EntryRids(call[p].req) :
           /\ call[p].pc = "apply" /\ wallet # NoWallet
           /\ call[p].req \in Request /\ ValidRequest(call[p].req) /\ HandleOK(call[p].req)
           /\ ledger[call[p].req.key] = NoEntry
           /\ call[p].req.op \in Settling => ~Completed(call[p].req.rid)
           /\ Allowed(wallet, call[p].req)
           /\ wallet' = Mutated(wallet, call[p].req)
           /\ ledger' = [ledger EXCEPT ![call[p].req.key] = Entry(call[p].req, rid)]
<1>1. /\ call[p].pc = "apply" /\ Pending(call[p].snap, call[p].req)
      /\ call[p].req \in Request /\ ValidRequest(call[p].req) /\ HandleOK(call[p].req)
  BY DEF ApplyWithLock, IndInv, CallOK, TypeOK, CallFrame, Idle
<1>2. PICK rid \in EntryRids(call[p].req) :
        /\ wallet.version = call[p].snap.version - 1
        /\ wallet' = call[p].snap
        /\ ledger' = [ledger EXCEPT ![call[p].req.key] = Entry(call[p].req, rid)]
  BY DEF ApplyWithLock
<1> QED BY ZenonT(60), <1>1, <1>2 DEF Pending

\* The step is a posting of the atomic ledger: row k appears and the account
\* moves as the row says.
LEMMA ApplyPosts ==
  ASSUME IndInv, NEW p \in Procs, ApplyWithLock(p), ~UNCHANGED <<wallet, ledger>>
  PROVE  Abstract!Next
<1> DEFINE req == call[p].req
<1>1. PICK rid \in EntryRids(req) :
           /\ wallet # NoWallet
           /\ req \in Request /\ ValidRequest(req) /\ HandleOK(req)
           /\ ledger[req.key] = NoEntry
           /\ req.op \in Settling => ~Completed(req.rid)
           /\ Allowed(wallet, req)
           /\ wallet' = Mutated(wallet, req)
           /\ ledger' = [ledger EXCEPT ![req.key] = Entry(req, rid)]
  BY AppliedRow
<1>2. /\ wallet \in TokenWallet /\ wallet.balance \in Nat /\ wallet.reserved \in Nat
      /\ wallet.balance <= MaxInt /\ MaxInt \in Nat /\ wallet.reserved <= wallet.balance
      /\ req.key \in Keys /\ req.op \in Kinds /\ req.amount \in Nat /\ req.held \in Nat
      /\ req.amount > 0
  BY Zenon, <1>1, WalletAssumption DEF IndInv, TypeOK, TokenWallet, Solvent, Request, ValidRequest
<1>3. /\ Account.balance = wallet.balance /\ Account.reserved = wallet.reserved
  BY Zenon, <1>1 DEF Account
<1>4. Mutated(wallet, req) \in TokenWallet
  BY <1>1, <1>2, MutatedRow DEF IndInv, Solvent, SolventRow
<1>5. Account' = [balance |-> wallet'.balance, reserved |-> wallet'.reserved]
  BY ZenonT(60), <1>1, <1>4, WalletAssumption DEF Account
<1>6. CASE req.op = "grant"
  <2>1. /\ wallet'.balance = wallet.balance + req.amount /\ wallet'.reserved = wallet.reserved
        /\ wallet.balance + req.amount <= MaxInt
    BY <1>1, <1>2, <1>6 DEF Mutated, DoGrant, Stamp, Allowed, CanGrant
  <2>2. Entry(req, rid) = [kind |-> "grant", amount |-> req.amount, rid |-> NoRid]
    BY Zenon, <1>6 DEF Entry, SignedAmount, EntryRids
  <2>3. Abstract!Credit(req.key, req.amount)
    BY SMTT(30), <1>1, <1>2, <1>3, <1>5, <2>1, <2>2 DEF Abstract!Credit, Abstract!Post, Abstract!HasRow
  <2>4. req.amount \in 1..MaxInt
    BY SMTT(30), <1>2, <2>1
  <2> QED BY <1>2, <2>3, <2>4 DEF Abstract!Next
<1>7. CASE req.op = "reserve"
  <2>1. /\ wallet'.balance = wallet.balance /\ wallet'.reserved = wallet.reserved + req.amount
        /\ wallet.balance - wallet.reserved >= req.amount
    BY <1>1, <1>2, <1>7 DEF Mutated, DoReserve, Stamp, Allowed, CanReserve
  <2>2. /\ Entry(req, rid) = [kind |-> "reserve", amount |-> -req.amount, rid |-> rid]
        /\ rid \in Rids /\ \A j \in Keys : ledger[j] # NoEntry => ledger[j].rid # rid
    BY Zenon, <1>7 DEF Entry, SignedAmount, EntryRids, FreshRids
  <2>3. Abstract!Hold(req.key, req.amount, rid)
    BY ZenonT(60), <1>1, <1>2, <1>3, <1>5, <2>1, <2>2 DEF Abstract!Hold, Abstract!Post, Abstract!HasRow
  <2>4. req.amount \in 1..MaxInt
    BY <1>2, <2>1
  <2> QED BY <1>2, <2>2, <2>3, <2>4 DEF Abstract!Next
<1>8. ASSUME req.op \in Settling
      PROVE  \E h \in Keys : /\ Abstract!Opens(h, req.rid) /\ ledger[h].amount = -req.held
                            /\ req.rid \in Rids /\ rid = req.rid /\ ~Abstract!IsSettled(req.rid)
  <2>1. rid = req.rid
    BY Zenon, <1>8 DEF EntryRids, Settling
  <2>2. ~Abstract!IsSettled(req.rid)
    BY Zenon, <1>1, <1>8 DEF Abstract!IsSettled, Abstract!Settles, Abstract!HasRow, Completed, Settling
  <2>3. PICK h \in Keys : /\ HasKind(h, {"reserve"})
                          /\ ledger[h].rid = req.rid /\ ledger[h].amount = -req.held
    BY Zenon, <1>1, <1>8 DEF HandleOK
  <2>4. Abstract!Opens(h, req.rid)
    BY SMTT(30), <2>3 DEF HasKind, Abstract!Opens, Abstract!HasRow
  <2>5. req.rid \in Rids
    BY <1>1, <1>8 DEF HandleOK
  <2> QED BY <2>1, <2>2, <2>3, <2>4, <2>5
<1>9. CASE req.op = "commit"
  <2>1. PICK h \in Keys : /\ Abstract!Opens(h, req.rid) /\ ledger[h].amount = -req.held
                          /\ req.rid \in Rids /\ rid = req.rid /\ ~Abstract!IsSettled(req.rid)
    BY <1>8, <1>9 DEF Settling
  <2>2. /\ wallet'.balance = wallet.balance - req.amount
        /\ wallet'.reserved = wallet.reserved + ledger[h].amount
        /\ req.amount <= -ledger[h].amount /\ req.amount <= MaxInt
    BY <1>1, <1>2, <1>9, <2>1 DEF Mutated, DoCommit, Stamp, Allowed, CanSettle, Settling, ValidRequest
  <2>3. Entry(req, rid) = [kind |-> "commit", amount |-> -req.amount, rid |-> req.rid]
    BY Zenon, <1>9, <2>1 DEF Entry, SignedAmount
  <2>4. Abstract!Debit(req.key, req.amount, req.rid)
    BY ZenonT(60), <1>1, <1>2, <1>3, <1>5, <2>1, <2>2, <2>3 DEF Abstract!Debit, Abstract!Post, Abstract!HasRow
  <2>5. req.amount <= MaxInt
    BY <2>2
  <2>6. req.amount \in 1..MaxInt
    BY <1>2, <2>5
  <2>7. req.key \in Keys /\ req.rid \in Rids
    BY <1>2, <2>1
  <2> HIDE DEF req
  <2> QED BY Zenon, <2>4, <2>6, <2>7 DEF Abstract!Next
<1>10. CASE req.op = "release"
  <2>1. PICK h \in Keys : /\ Abstract!Opens(h, req.rid) /\ ledger[h].amount = -req.held
                          /\ req.rid \in Rids /\ rid = req.rid /\ ~Abstract!IsSettled(req.rid)
    BY Zenon, <1>8, <1>10 DEF Settling
  <2>2. /\ wallet'.balance = wallet.balance
        /\ wallet'.reserved = wallet.reserved + ledger[h].amount
        /\ req.amount = -ledger[h].amount
    BY SMTT(30), <1>1, <1>2, <1>10, <2>1 DEF Mutated, DoRelease, Stamp, Allowed, CanSettle, Settling, HandleOK
  <2>3. Entry(req, rid) = [kind |-> "release", amount |-> -ledger[h].amount, rid |-> req.rid]
    BY Zenon, <1>10, <2>1, <2>2 DEF Entry, SignedAmount
  <2>4. Abstract!Refund(req.key, req.rid)
    BY ZenonT(60), <1>1, <1>2, <1>3, <1>5, <2>1, <2>2, <2>3 DEF Abstract!Refund, Abstract!Post, Abstract!HasRow
  <2>5. req.key \in Keys /\ req.rid \in Rids
    BY Zenon, <1>2, <2>1
  <2> HIDE DEF req
  <2> QED BY Zenon, <2>4, <2>5 DEF Abstract!Next
<1> QED BY <1>2, <1>6, <1>7, <1>9, <1>10 DEF Kinds

\* A credit from outside the Service is a credit of the atomic ledger.
LEMMA CreditPosts ==
  ASSUME IndInv, NEW k \in Keys, NEW a \in Nat, a > 0, ledger[k] = NoEntry,
         NEW w \in TokenWallet, Credit(w, k, a),
         w.balance = Account.balance + a, w.reserved = Account.reserved, w.balance <= MaxInt
  PROVE  Abstract!Next
<1>1. /\ wallet' = w /\ w # NoWallet
      /\ ledger' = [ledger EXCEPT ![k] = [kind |-> "grant", amount |-> a, rid |-> NoRid]]
  BY Zenon, WalletAssumption DEF Credit, SignedAmount
<1>2. Account' = [balance |-> w.balance, reserved |-> w.reserved]
  BY Zenon, <1>1 DEF Account
<1>3. Abstract!Credit(k, a)
  BY Zenon, <1>1, <1>2 DEF Abstract!Credit, Abstract!Post, Abstract!HasRow
<1>4. Account.balance \in Nat
  BY DEF Account, IndInv, TypeOK, TokenWallet
<1>5. a \in 1..MaxInt
  BY <1>4, WalletAssumption
<1> QED BY <1>3, <1>5 DEF Abstract!Next

\* Every step is a posting of the atomic ledger or leaves it alone.
LEMMA NextPosts ==
  ASSUME IndInv, [Next]_vars
  PROVE  [Abstract!Next]_(Abstract!vars)
<1>0. UNCHANGED <<wallet, ledger>> => UNCHANGED Abstract!vars
  BY DEF Abstract!vars, Account
<1>1. ASSUME NEW p \in Procs, ApplyWithLock(p), ~UNCHANGED <<wallet, ledger>>
      PROVE  Abstract!Next
  BY <1>1, ApplyPosts
<1>2. CASE IssueCourtesy
  <2>1. PICK a \in Amounts :
          /\ a > 0 /\ a <= MaxInt
          /\ Credit([balance |-> a, reserved |-> 0, version |-> 1], CourtesyKey, a)
    BY SMTT(30), <1>2 DEF IssueCourtesy
  <2>2. /\ a \in Nat /\ CourtesyKey \in Keys /\ ledger[CourtesyKey] = NoEntry
        /\ Account.balance = 0 /\ Account.reserved = 0
    BY <1>2, WalletAssumption DEF IssueCourtesy, IndInv, LedgerOK, Account
  <2>3. [balance |-> a, reserved |-> 0, version |-> 1] \in TokenWallet
    BY <2>2 DEF TokenWallet
  <2> QED BY <2>1, <2>2, <2>3, CreditPosts
<1>3. CASE AllocateMonthlyQuota
  <2>1. PICK k \in Keys, a \in Amounts :
          /\ a > 0 /\ ledger[k] = NoEntry /\ CanGrant(wallet, a)
          /\ Credit(DoGrant(wallet, a), k, a)
    BY Zenon, <1>3 DEF AllocateMonthlyQuota
  <2>2. /\ a \in Nat /\ MaxInt \in Nat /\ wallet \in TokenWallet
        /\ wallet.balance \in Nat /\ wallet.reserved \in Nat /\ wallet.version \in Nat
        /\ Account.balance = wallet.balance /\ Account.reserved = wallet.reserved
    BY Zenon, <1>3, WalletAssumption DEF AllocateMonthlyQuota, IndInv, TypeOK, TokenWallet, Account
  <2>3. /\ DoGrant(wallet, a) \in TokenWallet
        /\ DoGrant(wallet, a).balance = wallet.balance + a
        /\ DoGrant(wallet, a).reserved = wallet.reserved
        /\ DoGrant(wallet, a).balance <= MaxInt
    BY <2>1, <2>2 DEF DoGrant, Stamp, CanGrant, TokenWallet
  <2> QED BY <2>1, <2>2, <2>3, CreditPosts
<1>4. ASSUME NEW p \in Procs,
             Reserve(p) \/ Commit(p) \/ Release(p) \/ Grant(p) \/ Fail(p) \/ LoadByTenant(p)
               \/ LookupByIdempotencyKey(p) \/ LookupCompletedByExternalRef(p) \/ Finish(p)
      PROVE  UNCHANGED <<wallet, ledger>>
  BY <1>4 DEF Reserve, Commit, Release, Grant, Start, Fail, LoadByTenant,
              LookupByIdempotencyKey, LookupCompletedByExternalRef, Finish
<1>5. CASE UNCHANGED vars
  BY <1>0, <1>5 DEF vars
<1> QED BY <1>0, <1>1, <1>2, <1>3, <1>4, <1>5 DEF Next, Step

\* The concurrent, optimistic, crash-prone Service implements the atomic
\* ledger: every behaviour of it is a behaviour of TokenLedger.
THEOREM Refinement == Spec => ImplementsTokenLedger
<1>1. Init => Abstract!Init
  BY DEF Init, Abstract!Init, Account
<1>2. IndInv /\ [Next]_vars => [Abstract!Next]_(Abstract!vars)
  BY NextPosts
<1> QED BY <1>1, <1>2, Invariance, PTL DEF Spec, ImplementsTokenLedger, Abstract!Spec

\* The row never moves without the one ledger row that explains the move.
THEOREM RowExplained == Spec => LedgerMirrorsWallet
<1> DEFINE Explained ==
     /\ \A k \in Keys : ledger[k] # NoEntry => ledger'[k] = ledger[k]
     /\ wallet' # wallet =>
          \E k \in Keys :
            /\ ledger[k] = NoEntry /\ ledger'[k] # NoEntry
            /\ \A j \in Keys \ {k} : ledger'[j] = ledger[j]
            /\ wallet'.balance =
                 (IF wallet = NoWallet THEN 0 ELSE wallet.balance) + BalanceDelta(ledger'[k])
     /\ ledger' # ledger => wallet' # wallet
<1>1. ASSUME NEW k \in Keys, NEW e \in LedgerEntry, IndInv, ledger[k] = NoEntry,
             ledger' = [ledger EXCEPT ![k] = e], wallet' # wallet,
             wallet'.balance = (IF wallet = NoWallet THEN 0 ELSE wallet.balance) + BalanceDelta(e)
      PROVE  Explained
  <2>1. ledger'[k] = e /\ e # NoEntry /\ \A j \in Keys \ {k} : ledger'[j] = ledger[j]
    BY Zenon, <1>1, WalletAssumption DEF IndInv, TypeOK
  <2> QED BY <1>1, <2>1
<1>2. ASSUME IndInv, NEW k \in Keys, NEW a \in Nat, ledger[k] = NoEntry, NEW w \in TokenWallet,
             w # wallet, Credit(w, k, a),
             w.balance = (IF wallet = NoWallet THEN 0 ELSE wallet.balance) + a
      PROVE  Explained
  <2> DEFINE e == [kind |-> "grant", amount |-> a, rid |-> NoRid]
  <2>1. /\ e \in LedgerEntry /\ BalanceDelta(e) = a
        /\ wallet' = w /\ ledger' = [ledger EXCEPT ![k] = e]
    BY <1>2 DEF LedgerEntry, Kinds, BalanceDelta, Credit, SignedAmount
  <2> HIDE DEF e
  <2> QED BY Zenon, <1>1, <1>2, <2>1
<1>3. ASSUME IndInv, NEW p \in Procs, ApplyWithLock(p), ~UNCHANGED <<wallet, ledger>>
      PROVE  Explained
  <2> DEFINE req == call[p].req
  <2>1. PICK rid \in EntryRids(req) :
           /\ wallet # NoWallet
           /\ req \in Request /\ ValidRequest(req) /\ HandleOK(req)
           /\ ledger[req.key] = NoEntry
           /\ Allowed(wallet, req)
           /\ wallet' = Mutated(wallet, req)
           /\ ledger' = [ledger EXCEPT ![req.key] = Entry(req, rid)]
    BY Zenon, <1>3, AppliedRow
  <2>2. /\ req.key \in Keys /\ req.op \in Kinds /\ req.amount \in Nat /\ req.held \in Nat
        /\ wallet \in TokenWallet /\ SolventRow(wallet)
        /\ wallet.balance \in Nat /\ wallet.version \in Nat
    BY SMTT(30), <1>3, <2>1 DEF Request, IndInv, TypeOK, TokenWallet, Solvent, SolventRow
  <2>3. Mutated(wallet, req).version = wallet.version + 1
    BY <2>1, <2>2, MutatedRow
  <2>4. rid \in Rids \cup {NoRid}
    BY <2>1, <2>2 DEF EntryRids, FreshRids, Request, Kinds
  <2>5. Entry(req, rid) \in LedgerEntry
    BY <2>2, <2>4 DEF Entry, LedgerEntry, SignedAmount
  <2>6. Mutated(wallet, req).balance = wallet.balance + BalanceDelta(Entry(req, rid))
    BY SMTT(30), <2>2 DEF Mutated, DoReserve, DoGrant, DoCommit, DoRelease, Stamp, BalanceDelta, Entry,
                SignedAmount, Kinds
  <2>7. /\ wallet' # wallet
        /\ wallet'.balance = (IF wallet = NoWallet THEN 0 ELSE wallet.balance)
                             + BalanceDelta(Entry(req, rid))
    BY SMTT(30), <2>1, <2>2, <2>3, <2>6
  <2> HIDE DEF req, Explained
  <2> QED BY ZenonT(60), <1>1, <1>3, <2>1, <2>2, <2>5, <2>7
<1>4. ASSUME IndInv, IssueCourtesy PROVE Explained
  <2>1. PICK a \in Amounts :
          a > 0 /\ Credit([balance |-> a, reserved |-> 0, version |-> 1], CourtesyKey, a)
    BY Zenon, <1>4 DEF IssueCourtesy
  <2>2. a \in Nat /\ CourtesyKey \in Keys /\ ledger[CourtesyKey] = NoEntry /\ wallet = NoWallet
    BY Zenon, <1>4, WalletAssumption DEF IssueCourtesy, IndInv, LedgerOK
  <2>3. [balance |-> a, reserved |-> 0, version |-> 1] \in TokenWallet
    BY <2>2 DEF TokenWallet
  <2> QED BY <1>2, <1>4, <2>1, <2>2, <2>3, WalletAssumption
<1>5. ASSUME IndInv, AllocateMonthlyQuota PROVE Explained
  <2>1. PICK k \in Keys, a \in Amounts :
          a > 0 /\ ledger[k] = NoEntry /\ Credit(DoGrant(wallet, a), k, a)
    BY <1>5 DEF AllocateMonthlyQuota
  <2>2. /\ a \in Nat /\ wallet \in TokenWallet /\ wallet # NoWallet
        /\ wallet.balance \in Nat /\ wallet.reserved \in Nat /\ wallet.version \in Nat
    BY <1>5, WalletAssumption DEF AllocateMonthlyQuota, IndInv, TypeOK, TokenWallet
  <2>3. /\ DoGrant(wallet, a) \in TokenWallet /\ DoGrant(wallet, a) # wallet
        /\ DoGrant(wallet, a).balance = wallet.balance + a
    BY <2>2 DEF DoGrant, Stamp, TokenWallet
  <2> QED BY <1>2, <1>5, <2>1, <2>2, <2>3
<1>6. ASSUME NEW p \in Procs,
             Reserve(p) \/ Commit(p) \/ Release(p) \/ Grant(p) \/ Fail(p) \/ LoadByTenant(p)
               \/ LookupByIdempotencyKey(p) \/ LookupCompletedByExternalRef(p) \/ Finish(p)
      PROVE  UNCHANGED <<wallet, ledger>>
  BY <1>6 DEF Reserve, Commit, Release, Grant, Start, Fail, LoadByTenant,
              LookupByIdempotencyKey, LookupCompletedByExternalRef, Finish
<1>7. UNCHANGED <<wallet, ledger>> => Explained
  OBVIOUS
<1>8. IndInv /\ [Next]_vars => [Explained]_vars
  <2> HIDE DEF Explained
  <2> QED BY <1>3, <1>4, <1>5, <1>6, <1>7 DEF Next, Step
<1> QED BY <1>8, Invariance, PTL DEF Spec, LedgerMirrorsWallet
=============================================================================
