SPECIFICATION Spec
CONSTANTS
  Procs = {p1, p2}
  CourtesyKey = kc
  Keys = {kc, k1, k2, k3}
  Rids = {r1, r2}
  NoRid = NoRid
  Amounts = {1, 2}
  MaxInt = 2
  MaxAttempts = 2
  NoEntry = NoEntry
  NoWallet = NoWallet
SYMMETRY Symmetry
INVARIANTS
  TypeOK
  Solvent
  AtMostOneSettlement
  SettlementsAreBacked
  VersionGuardsLookups
  RetryPaidByProgress
  OpenReservationIsHeld
  DepletionAnnouncedAtMostOnce
  LedgerBalances
  IndInv
PROPERTIES
  SuccessIsRecorded
  LedgerMirrorsWallet
  ImplementsTokenLedger
CHECK_DEADLOCK FALSE
