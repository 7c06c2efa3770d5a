# Verification of the CRM's stateful core

TLA+ models of the parts of this repository where money, messages and sanctions
depend on the order of concurrent steps: the token wallet, PIX payments,
dunning, subscription renewal, master grants and inbound messages. TLC checks
each model on small instances; TLAPS proves the wallet's safety and its
refinement of an atomic ledger, and the PIX deduplication, for every size.

The source is the reference. Every definition that models code is listed in
`PROJECT.json` under `map` with the lines it translates. Paths below are
relative to `src/`.

## 1. The system and its parts

The program is a multi-tenant CRM: one HTTP server (`cmd/server`) and a few
workers around PostgreSQL, NATS JetStream and Redis. The use cases are plain Go;
**every repository call is a transaction of its own**, and this is where nearly
all the hard behaviour comes from: a use case loads in one transaction, decides
in memory and writes in another, while HTTP requests, consumers and cron ticks
do the same on the same rows, and the process may stop between any two of them.

| Part | State | Operations | Interacts with | Hard behaviour |
|---|---|---|---|---|
| Token wallet (`internal/wallet`) | wallet row, token ledger | Reserve, Commit, Release, Grant, courtesy, monthly credit | AI assist, grants, allocator | optimistic retries, idempotency keys, crash after commit |
| PIX (`internal/billing/pix`) | charges, webhook event log | Apply | PSP webhook | duplicate and early notifications, compensation |
| Dunning (`internal/billing/dunning`, `internal/worker/dunning`) | dunning row per subscription | Tick, MarkPaid, Escalate, ApplyOverride | invoices, grants, plan changes | stale listing, reprieves, bounded batch |
| Renewal (`internal/worker/billing`, `internal/worker/wallet`) | subscription, invoices, stream | Tick, publish, allocate | wallet, dunning, grants | at-least-once delivery, lost event, two renewers |
| Master grants (`internal/web/master`, `internal/wallet/usecase`) | grants, requests | Issue, Apply, Consume, Revoke, Approve | wallet, subscription | effect and bookkeeping in two transactions, caps |
| Inbound messages (`internal/adapter/channels`, `internal/inbox`) | dedup ledger, contacts, threads, messages | Execute, Close, Reopen | funnel engine | redelivery, insert races, failure after the claim |
| Outbound and delivery status | messages, sent-key ledger | Send, HandleStatus | carrier | ambiguous answers, status reordering |
| Leadership | assignment ledger, cached lead | Assign, Unassign, Reset | inbox | ledger and cache in two transactions |
| Webhook intake | idempotency rows, raw events | Handle, reconcile | NATS | dedup row before the event row |
| AI assist | summaries, reservations | Summarize, Invalidate | wallet, LLM | reservation left open, retry after release |
| Funnel engine | transitions, applications | Handle, Move | inbox | action before its record |
| Media scan | verdict on a message | Handle | NATS, object store | verdict stored, announcement lost |
| Low-balance alerter | in-memory dedup | Handle | NATS, Slack | check then act, restart |
| Custom domains, slug reservations | domain rows, reservations | Enroll, Verify, Delete, tick | DNS | stale listing, cap check then insert |
| WhatsApp sessions (`internal/wasession`) | session map | Start, Stop, Emit, supervise | device library | late events of an old device |
| Login, second factor | lockouts, sessions, codes | Login, Enroll, Consume, Regenerate | Redis | lockout check then act, two code sets |
| LGPD retention | deletion requests | Tick | contacts | purge and mark in two transactions |
| The rest: pages, role matrix, AI policy cascade, catalog, branding, tenancy cache, campaigns, rate limits, tools | | | | single-row writes, pure functions or rendering |

`PROJECT.json` lists all of them with their files, and under `hazards` the
places where they are most exposed; section 6 lists the others met in the survey.

## 2. Modules

| Module | Models |
|---|---|
| `TokenLedger` | abstract: an account on which every credit, hold and settlement is one atomic posting under a key |
| `Wallet` | the wallet `Service` step by step, the Postgres lock, the monthly allocator, the courtesy grant |
| `WalletInduction` | the inductive invariant of `Wallet` |
| `WalletProofs` | theorems about `Wallet`, including the refinement |
| `PixReconciler`, `PixProofs` | the Inter webhook receiver and `Reconciler.Apply`; its theorem |
| `Dunning` | the tick, the aggregate, invoices, grants and plan changes |
| `Renewal` | renewer, stream, allocator, free-period extension, plan change |
| `MasterGrants` | issue with caps, apply, revoke, four-eyes requests |
| `Inbound` | carrier webhook, `ReceiveInbound.Execute`, contact upsert, close and reopen |
| `MC*` | instances for TLC; only constants and symmetry sets |

Operators named as variants of an operation, with a comment saying what they do
differently (`RecordUpsert`, `RefindFails`, ...), are deliberate errors. No
specification uses them. They document which mistake each property detects.

### Wallet
A process in `call` is one call of Reserve, Commit, Release or Grant. It loads
the row, looks its key up, looks for a settlement of its reservation, computes
the new aggregate **from the snapshot** and applies it under
`SELECT ... FOR UPDATE`; on a version or key conflict it starts over, at most
`MaxAttempts` times. `depleted` counts the `balance.depleted` events. A process
may crash at every step. The monthly allocator and the courtesy grant write the
row in one transaction, outside the aggregate.

### PixReconciler
`handler` is a request going through the events of its body: rate limit, Record
(dedup), then either Peek (a duplicate) or GetByExternalID, Save, or Forget when
the charge does not exist. The PSP (`notice`) delivers an event until it gets a
200, in batches of its choice. `EventTypes` is what the Inter parser emits.
The TTL sweep has no caller and is left out.

### Dunning
A tick lists the oldest rows of active subscriptions, then evaluates them one at
a time against the invoice it listed and the override it looks up then; invoices
are issued and settled, grants made and revoked, the plan changed (`Assign`
cancels the subscription: `closed`) and days pass between any two of its steps.
`ActiveFor` reads "months" from a grant's payload (`DecodeMonths`); every grant
the program writes holds "period_days" instead, so none is ever found and
`ApplyOverride`, though modelled, is not reached. The `dunning_reprieve` run is
about that. No production code provisions dunning rows: `Init`, one current row
per subscription, is external. `OnPaymentConfirmed` and `ClearOverride` have no
caller in production code and are left out.

### Renewal
RenewSubscription (one transaction: the active row locked, the invoice under its
unique index, the period advanced if nobody else has moved it), publication with
retries, redelivery up to `MaxDeliver`, the idempotent credit, the free-period
grant that loads and later saves the same subscription row, and the plan change,
which cancels a tenant's row and inserts another. A subscription is a tenant and
a number, since a tenant has one row per plan change. Months have `Month` days:
`AddDate` is not modelled. `Handle` also acknowledges and drops a delivery that
has no message id or cannot be decoded; the renewer always sends both, so these
two branches are left out. The assembled server wires a no-op publisher into the
renewer (`cmd/server/billing_renewer_wire.go`); the model is of the renewer with
a real one.

### MasterGrants
IssueGrant with its per-grant and per-window caps, the effect (top-up or free
period), Consume, Revoke, and the request that two masters must share. A grant
row keeps its payload as the one key and number it holds, because the writers
disagree: a direct grant stores tokens under "amount", an approved request under
"tokens", and both the cap and the applier read "amount". Tokens of approved
requests therefore count for nothing towards the cap, although the comment on
`encodePayload` says its shape "mirrors master_grant.payload"; `OvershootIsBounded`
is stated over the grants that masters issue alone.

### Inbound
Nine steps of `Execute`, one per database call and one for the announcement,
with a failure or a crash possible at each; the answer to the carrier is 200
whatever Execute returns. A message is a model value with a tenant, a sender and
a timestamp. `publisher`, chosen at the start, says whether the composition root
wired an inbound publisher (it does so for WhatsApp, Messenger and Instagram when
NATS is configured). Every composition root builds the use case with
`NewReceiveInbound`, without the leadership ports, so `attributeInitialLead`
returns at once and is left out; the comment on that constructor
(`receive_inbound.go:130-133`) asks for the other one. The campaign link and the
channel instance of a new thread are best effort, annotate rows only, and are
left out, as is the parsing of the carrier's JSON.

## 3. Runs

| Run | Instance | Shows |
|---|---|---|
| `wallet` | 2 calls, 4 keys, 2 reservations, amounts 1..2, `MaxInt` 2 | solvent, settled once, backed, books balance, success is recorded, depletion announced once, **implements `TokenLedger`**; the inductive invariant holds |
| `pix` | 2 requests, 2 charges, batches of up to 2, 1 fault | one request applies an event; a due payment is applied or reported as stuck |
| `pix_race` (violation) | 1 charge that arrives late, no faults | a duplicate is acknowledged and the first request then takes the dedup row back |
| `dunning` | 1 subscription, 4 days, 2 invoices, 1 grant, 1 fault | sanctions are explained, a cancelled subscription's row is left alone, payment recovers, debt cancels |
| `dunning_starvation` (violation) | 2 subscriptions, batch of 1 | a row behind unchanged ones is never evaluated |
| `dunning_reprieve` (violation) | 1 subscription, 1 grant, no faults | a tick escalates in the middle of a granted free period |
| `renewal` | 2 tenants, 2 renewers, 1 allocator, batch of 1, 1 fault, 1 free period, 1 plan change | credited once per invoice, each day on one invoice row, cancelled is final, due is renewed, published is credited |
| `renewal_lost` (violation) | 1 subscription, all publications fail | the renewed period never gets its quota |
| `grants` | 2 masters, 2 concurrent issues, 3 grants, 2 requests, 1 fault | a consumed grant took effect once, over-cap needs four eyes, direct grants overshoot the cap by at most one grant |
| `grants_revoked` (violation) | 1 issuer, Consume fails | a revoked grant has transferred something |
| `inbound` | 2 handlers, 3 messages of one sender to 2 tenants, 2 deliveries each, with and without a publisher, 1 fault, 2 close/reopen | one row per message, in the right thread; last_message_at is the latest; what is announced is stored; without a fault every delivery is served |
| `inbound_lost` (violation) | same | after a failure behind the claim, retries are duplicates and nothing is stored |

A *violation* run states what a comment or document of the repository says and
TLC shows a behaviour of the code that does otherwise; `findings` quotes the
line. `renewal` states its billing properties for behaviours without a
free-period grant, because a grant saved over a concurrent renewal moves the
period back. `pix` states `PaidOrAlerted` for behaviours in which the rows of
all charges exist: an unknown charge in a batch fails the whole request and
starves the payments behind it. It also leaves out failures of `Forget` and of
the peek: their loss is accepted in the comments of `reconciler.go`.

**Bounds.** Two actors suffice for each race here: every conflict is between one
step that reads and one that writes. Where a third party matters (the allocator
against two calls, an operator against two handlers) it is an action of its own.
Two amounts and `MaxInt` 2 reach overdraft, exact fit and overflow. Batches of
one with two rows reach the full batch in `renewal` and in `dunning_starvation`; the
`dunning` run has one subscription and so never a full batch that leaves a row out.
In `renewal` only one tenant (`Managed`) sees grants and plan changes, the two
tenants' periods end a day apart, and there is one allocator, so redelivery is
explored but not two pods at once. A bound of one fault allows any single
failing call or crash at any point; two independent failures are only explored
where `MaxFaults` is 2 (`renewal_lost`). Symmetry is used for safety only.

**Fairness.** Weak fairness on the steps of a request or tick that is already
running: the Go scheduler and the drivers' deadlines give no less. In
`PixReconciler` the PSP is strongly fair about an unacknowledged event, as it
retries on anything but 200. In `Renewal` the broker delivers a queued message
and workers tick; in `Dunning` the cron ticks and days pass. Carriers,
operators, masters and callers of the wallet owe nothing. Deadlock checking is
off where the environment may simply have nothing left to do.

## 4. Proofs

`WalletProofs` proves, for any numbers of calls, keys, reservations and amounts,
and any `MaxInt`: `TypeOK`, `Solvent`, `AtMostOneSettlement`,
`SettlementsAreBacked`, `VersionGuardsLookups`, `DepletionAnnouncedAtMostOnce`,
`SuccessIsRecorded`, `LedgerMirrorsWallet` and `ImplementsTokenLedger` (safety
refinement by the mapping row -> account, ledger -> rows). The only assumption
is `WalletAssumption` (amounts are naturals, null values differ from rows).

None of these is inductive by itself: an applying call relies on a snapshot and
on lookups made in earlier transactions. `IndInv` (module `WalletInduction`)
adds what makes that sound. Every write of the row adds one to its version, so a
snapshot that still carries the row's version *is* the row, and whatever was
looked up since it was loaded still holds; a write by anybody else makes all of
this vacuous for the others. `IndInv` is an invariant of the `wallet` run. The
proof has one lemma per kind of step (local steps, load, lookup, mutate, apply,
finish, the single-transaction credits).

`PixProofs` proves `OneApplierPerEvent` for any number of requests, events and
faults. Its clause that a request past Record holds the dedup row makes it
inductive together with `TypeOK`: Record refuses a second holder, and only the
holder deletes the row.

Checked by TLC only: all liveness (fairness is outside the prover's reach),
`LedgerBalances` and `OpenReservationIsHeld` (sums over the ledger need induction
over data), `RetryPaidByProgress`, and all of `Dunning`, `Renewal`,
`MasterGrants` and `Inbound`.

## 5. Not modelled, and the plan

Only a part of the repository is modelled: the six parts above, about 4,400
source lines of its roughly 130,000. Pages, form parsing, the role matrix,
branding and the like are rendering or pure functions and stay out. Next, in
this order:

1. `Outbound` (dispatch with its in-memory key ledger, delivery status) and
   `Leadership`, sharing the inbox tables with `Inbound`;
2. `MediaScan`, `WebhookIntake`, `FunnelEngine`, `WalletAlerter`: consumers of
   at-least-once streams whose record and effect are two steps;
3. `Summarize`, composed with `TokenLedger`: reservations around a model call;
4. `CustomDomain` with slug reservations, `WaSession`, `Login`, `RecoveryCodes`,
   `Retention`.

Theorems to come: `CreditedOncePerInvoice` (Renewal), `StoredOnce` (Inbound),
`ConsumedTookEffect` and `OverCapIsFourEyes` (MasterGrants).

## 6. Further hazards met in the survey

No property covers these yet; they are where the planned modules start.
Paths are under `internal/`.

| Where | What can go wrong |
|---|---|
| `billing/pix/reconciler.go:94` | taking the dedup row back fails, or the lookup behind the alert does, and the payment is neither applied nor reported |
| `adapter/db/postgres/pix/repository.go:137` | two events of different types save different terminal statuses; the Inter parser emits paid events only |
| `worker/dunning/worker.go:282` | an invoice is settled between the listing and the save that cancels for it |
| `wallet/usecase/apply_master_grant.go:193` | two free-period grants read the same period end and one extension is lost |
| `adapter/db/postgres/master/grant_request_repository.go:240` | an approved request creates its grant and nothing ever applies it |
| `inbox/usecase/receive_inbound.go:358` | a thread is closed between the lookup and the insert and the message lands in a closed thread |
| `contacts/usecase/upsert_contact_by_channel.go:136` | the sender's identity is a contact of another tenant: the message is claimed and given up |
| `inbox/usecase/update_message_status.go:98` | a status arrives before the carrier id is stored, is closed as unknown and never applied |
| `inbox/usecase/assign_conversation.go:177` | two assignments interleave and the cached lead is not the latest of the ledger |
| `webhook/service.go:311` | the event is stored and its publication lost; only the reconciler can send it |
| `aiassist/usecase/summarize.go:555` | the process dies during the model call and the reservation stays open |
| `aiassist/usecase/summarize.go:607` | the tokens are spent and the summary is not saved |
| `funnel/engine/engine.go:143` | two deliveries of one message both find the rule unapplied |
| `media/worker/worker.go:180` | the worker dies between the infected verdict and the quarantine |
| `worker/wallet_alerter/alerter.go:185` | two deliveries of one alert both find it unseen |
| `worker/customdomain_verifier/worker.go:365` | a domain listed as pending is marked failed after it was verified by hand |
| `customdomain/enrollment/usecase.go:216` | two enrolments both pass the hard cap before either row exists |
| `customdomain/management/usecase.go:302` | the domain is deleted and its slug reservation fails |
| `slugreservation/service.go:125` | the reservation is released and the audit entry fails |
| `wasession/manager.go:125` | two starts of one session open two devices; the second check must stop one |
| `iam/login.go:294` | a login that passed the lockout check clears a lockout written meanwhile |
| `iam/mfa/service.go:336` | the code is consumed and the re-enrolment mark fails |
| `iam/mfa/service.go:408` | two regenerations leave two sets of codes active |
| `worker/lgpd_retention/worker.go:144` | the contact is purged and the request not closed, so it is purged again |
