------------------------------ MODULE MCWallet ------------------------------
(* Model of Wallet for TLC: small sets and the sums over the ledger.       *)
EXTENDS WalletInduction, FiniteSetsExt, TLC

SumOver(ks, Value(_)) == MapThenSumSet(Value, ks)

\* The wallet row is the sum of its ledger: grants minus commits make the
\* balance, the reservations nobody settled make the held amount.
LedgerBalances ==
  wallet # NoWallet =>
    /\ wallet.balance = SumOver({k \in Keys : HasKind(k, {"grant", "commit"})},
                                LAMBDA k : ledger[k].amount)
    /\ wallet.reserved = SumOver({k \in Handles : ~Completed(ledger[k].rid)},
                                 LAMBDA k : -ledger[k].amount)

Symmetry == Permutations(Procs) \cup Permutations(Keys \ {CourtesyKey}) \cup Permutations(Rids)
=============================================================================
