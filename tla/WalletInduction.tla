--------------------------- MODULE WalletInduction ---------------------------
(***************************************************************************)
(* The inductive invariant behind the theorems of WalletProofs.            *)
(*                                                                         *)
(* Every write of the wallet row adds one to its version, so a snapshot    *)
(* that still has the row's version IS the row, and whatever was looked up *)
(* after it was loaded still holds.  The invariant says so at each step of *)
(* a call; a write by anybody else makes all of it vacuous for the others. *)
(***************************************************************************)
EXTENDS Wallet

SolventRow(w) == 0 <= w.reserved /\ w.reserved <= w.balance /\ w.balance <= MaxInt

\* What the ledger looks like, whoever wrote it.
LedgerOK ==
  /\ wallet = NoWallet => \A k \in Keys : ledger[k] = NoEntry
  /\ \A k \in Keys : HasKind(k, {"reserve"}) => ledger[k].rid \in Rids /\ ledger[k].amount < 0
  /\ \A k \in Keys : HasKind(k, {"grant"}) => ledger[k].rid = NoRid
  /\ \A j, k \in Keys :
       HasKind(j, {"reserve"}) /\ HasKind(k, {"reserve"}) /\ ledger[j].rid = ledger[k].rid => j = k
  /\ \A k \in Keys : depleted[k] > 0 => ledger[k] # NoEntry

\* A settling request carries the handle of a reservation in the ledger.
HandleOK(req) ==
  req.op \in Settling =>
    /\ req.rid \in Rids
    /\ \E h \in Keys : /\ HasKind(h, {"reserve"})
                       /\ ledger[h].rid = req.rid /\ ledger[h].amount = -req.held
    /\ req.op = "release" => req.amount = req.held

Loaded(snap) ==
  /\ wallet # NoWallet /\ snap # NoWallet
  /\ SolventRow(snap)
  /\ snap.version <= wallet.version
  /\ snap.version = wallet.version => snap = wallet

Pending(snap, req) ==
  /\ wallet # NoWallet /\ snap # NoWallet
  /\ SolventRow(snap)
  /\ snap.version - 1 <= wallet.version
  /\ snap.version - 1 = wallet.version =>
       /\ Allowed(wallet, req)
       /\ snap = Mutated(wallet, req)
       /\ ledger[req.key] = NoEntry
       /\ req.op \in Settling => ~Completed(req.rid)

CallOK(p) ==
  LET c == call[p] IN
  /\ c.pc # Idle => ValidRequest(c.req) /\ HandleOK(c.req)
  /\ c.pc = "lookup" => Loaded(c.snap)
  /\ c.pc = "settled" => /\ Loaded(c.snap)
                         /\ c.req.op \in Settling
                         /\ c.snap.version = wallet.version => ledger[c.req.key] = NoEntry
  /\ c.pc = "apply" => Pending(c.snap, c.req)
  /\ c.pc = "applied" => /\ ledger[c.req.key] # NoEntry
                         /\ SameRequest(ledger[c.req.key], c.req)
                         /\ depleted[c.req.key] = 0

\* Two calls are never in the epilogue of the same posting.
EpiloguesApart ==
  \A p, q \in Procs :
    call[p].pc = "applied" /\ call[q].pc = "applied" /\ call[p].req.key = call[q].req.key => p = q

\* Everything the wallet theorems rest on: the safety properties together with
\* what each step of a call may rely on about the row it loaded.
IndInv ==
  /\ TypeOK
  /\ Solvent
  /\ LedgerOK
  /\ AtMostOneSettlement
  /\ SettlementsAreBacked
  /\ DepletionAnnouncedAtMostOnce
  /\ \A p \in Procs : CallOK(p)
  /\ EpiloguesApart
=============================================================================
