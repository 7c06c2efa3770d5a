------------------------------- MODULE Dunning -------------------------------
(***************************************************************************)
(* Dunning: the state machine of a past-due subscription                   *)
(* (internal/billing/dunning) and the DunningTick worker that drives it    *)
(* (internal/worker/dunning) over the Postgres projection.                 *)
(*                                                                         *)
(* A tick lists candidate rows, each with its oldest pending invoice, and  *)
(* then evaluates them one by one: the row is changed in memory and saved  *)
(* as a whole.  Payments, new invoices, plan changes, free-period grants   *)
(* and their revocations happen between the listing and those saves.       *)
(*                                                                         *)
(* Time is counted in days; an invoice is named by the day it fell due.    *)
(***************************************************************************)
EXTENDS Integers, FiniteSets, FiniteSetsExt

CONSTANTS Subs,         \* subscriptions with a dunning row
          WarnDays, OutboundBlockDays, ReadonlyDays, CancelDays,  \* Policy
          BatchSize,    \* rows a tick lists
          MonthDays,    \* days of a month
          FreeDays,     \* the free periods a master may grant, in days
          MaxDay,       \* bound: the last day of the clock
          MaxInvoices,  \* bound: invoices per subscription
          MaxGrants,    \* bound: live free-period grants per subscription
          MaxFaults,    \* bound: failing database calls
          None          \* no invoice, no override

\* Policy.Validate.
ASSUME PolicyAssumption ==
  /\ {WarnDays, OutboundBlockDays, ReadonlyDays, CancelDays} \subseteq Nat \ {0}
  /\ WarnDays < OutboundBlockDays
  /\ OutboundBlockDays < ReadonlyDays
  /\ ReadonlyDays < CancelDays
  /\ {BatchSize, MonthDays} \subseteq Nat \ {0} /\ FreeDays \subseteq Nat \ {0}
  /\ {MaxDay, MaxInvoices, MaxGrants, MaxFaults} \subseteq Nat
  /\ None \notin Int

VARIABLES now,       \* the day
          row,       \* subscription_dunning_states, one row per subscription
          closed,    \* the day the subscription was cancelled, None while active
          pending,   \* due days of the pending invoices
          issued,    \* invoices so far
          grants,    \* unrevoked free_subscription_period grants
          tick,      \* what the running tick has in memory
          faults     \* failed calls so far

vars == <<now, row, closed, pending, issued, grants, tick, faults>>

States == {"current", "warn", "suspended_outbound", "suspended_full", "cancelled"}

Severity(s) ==
  CASE s = "current" -> 0 [] s = "warn" -> 1 [] s = "suspended_outbound" -> 2
    [] s = "suspended_full" -> 3 [] s = "cancelled" -> 4

Row(state, entered, last, until) ==
  [state |-> state, entered |-> entered, last |-> last, until |-> until]

-----------------------------------------------------------------------------
(* The aggregate.                                                          *)

\* Mutation: the last threshold is exclusive.
StateForDaysExclusive(days) ==
  CASE days > CancelDays -> "cancelled"
    [] days >= ReadonlyDays /\ days <= CancelDays -> "suspended_full"
    [] days >= OutboundBlockDays /\ days < ReadonlyDays -> "suspended_outbound"
    [] days >= WarnDays /\ days < OutboundBlockDays -> "warn"
    [] days < WarnDays -> "current"

StateForDaysPastDue(days) ==
  CASE days >= CancelDays -> "cancelled"
    [] days >= ReadonlyDays /\ days < CancelDays -> "suspended_full"
    [] days >= OutboundBlockDays /\ days < ReadonlyDays -> "suspended_outbound"
    [] days >= WarnDays /\ days < OutboundBlockDays -> "warn"
    [] days < WarnDays -> "current"

daysSince(due, t) == IF t > due THEN t - due ELSE 0

\* Mutation: the state entered is dated one day ahead.
MarkPaidNextDay(r, t) == Row("current", t + 1, None, None)

\* Mutation: everything is reset but the state.
MarkPaidKeepsState(r, t) == [r EXCEPT !.entered = t, !.last = None, !.until = None]

\* From any state but cancelled, which every caller here has ruled out.
MarkPaid(r, t) == Row("current", t, None, None)

\* Mutation: the row keeps the day it entered its former state.
EscalateUnstamped(r, t, due, until) ==
  LET target == StateForDaysPastDue(daysSince(due, t))
  IN IF (until # None /\ until > t) \/ Severity(target) <= Severity(r.state)
     THEN r ELSE Row(target, r.entered, due, r.until)

\* Upwards only; a live override pauses it.
Escalate(r, t, due, until) ==
  LET target == StateForDaysPastDue(daysSince(due, t))
  IN IF (until # None /\ until > t) \/ Severity(target) <= Severity(r.state)
     THEN r ELSE Row(target, t, due, r.until)

ApplyOverride(r, until, t) ==
  IF r.state = "current" THEN [r EXCEPT !.until = until] ELSE Row("current", t, None, until)

-----------------------------------------------------------------------------
(* The worker.                                                             *)

Idle == [pc |-> "idle", at |-> 0, list |-> {}, sub |-> None, new |-> None]

\* The first BatchSize of some rows, oldest entered_state_at first.
FirstRows(live) ==
  LET size == IF Cardinality(live) < BatchSize THEN Cardinality(live) ELSE BatchSize
  IN {L \in kSubset(size, live) : \A s \in L, u \in live \ L : row[s].entered <= row[u].entered}

\* Mutation: the query does not look at the subscription's status.
ListingsAnyStatus == FirstRows({s \in Subs : row[s].state # "cancelled"})

\* What the query may return: rows not cancelled, of active subscriptions.
Listings == FirstRows({s \in Subs : row[s].state # "cancelled" /\ closed[s] = None})

OldestPending(s) == IF pending[s] = {} THEN None ELSE Min(pending[s])

ListCandidates ==
  /\ tick.pc = "idle"
  /\ \E L \in Listings :
       tick' = [Idle EXCEPT !.pc = "evaluate", !.at = now,
                            !.list = {<<s, row[s], OldestPending(s)>> : s \in L}]
  /\ UNCHANGED <<now, row, pending, issued, grants, closed, faults>>

\* The "months" of a payload, 0 when it has none that is valid.
DecodeMonths(payload) ==
  IF "months" \in DOMAIN payload /\ payload.months \in 1..120 THEN payload.months ELSE 0

\* Until when the newest unrevoked grant with months lasts that has not run
\* out; a grant without months is passed over.
ActiveFor(s, t) ==
  LET Until(g) == g.created + DecodeMonths(g.payload) * MonthDays
      live == {g \in grants[s] : DecodeMonths(g.payload) > 0 /\ Until(g) > t}
  IN IF live = {} THEN None
     ELSE Until(CHOOSE g \in live : \A h \in live : h.created <= g.created)

needsOverrideRefresh(r, until, t) == until > t /\ r.until # until

\* What evaluate makes of a row it has loaded, its invoice and the override.
Evaluated(r, due, until, t) ==
  IF until # None /\ needsOverrideRefresh(r, until, t) THEN ApplyOverride(r, until, t)
  ELSE IF due = None THEN IF r.state = "current" THEN r ELSE MarkPaid(r, t)
  ELSE Escalate(r, t, due, until)

\* One candidate: look its override up (a failing lookup counts as none) and
\* compute the new row.  An unchanged row is not saved.
Evaluate ==
  /\ tick.pc = "evaluate"
  /\ \E c \in tick.list, failed \in BOOLEAN :
       LET s     == c[1]
           until == IF failed THEN None ELSE ActiveFor(s, tick.at)
           new   == Evaluated(c[2], c[3], until, tick.at)
       IN /\ failed => faults < MaxFaults
          /\ faults' = IF failed THEN faults + 1 ELSE faults
          /\ tick' = IF new = c[2]
                     THEN [tick EXCEPT !.list = @ \ {c}]
                     ELSE [tick EXCEPT !.pc = "save", !.list = @ \ {c}, !.sub = s, !.new = new]
  /\ UNCHANGED <<now, row, pending, issued, grants, closed>>

\* The whole row is upserted.
Save ==
  /\ tick.pc = "save"
  /\ row' = [row EXCEPT ![tick.sub] = tick.new]
  /\ tick' = [tick EXCEPT !.pc = "evaluate", !.sub = None, !.new = None]
  /\ UNCHANGED <<now, closed, pending, issued, grants, faults>>

\* A failing save is logged and the next candidate evaluated.
FailSave ==
  /\ tick.pc = "save" /\ faults < MaxFaults
  /\ faults' = faults + 1
  /\ tick' = [tick EXCEPT !.pc = "evaluate", !.sub = None, !.new = None]
  /\ UNCHANGED <<now, row, pending, issued, grants, closed>>

EndTick ==
  /\ tick.pc = "evaluate" /\ tick.list = {}
  /\ tick' = Idle
  /\ UNCHANGED <<now, row, pending, issued, grants, closed, faults>>

-----------------------------------------------------------------------------
(* The world around the worker.                                            *)

PassDay ==
  /\ now < MaxDay
  /\ now' = now + 1
  /\ UNCHANGED <<row, pending, issued, grants, tick, closed, faults>>

\* The renewer inserts the invoice of a new period of an active subscription.
IssueInvoice(s) ==
  /\ closed[s] = None /\ issued[s] < MaxInvoices /\ now \notin pending[s]
  /\ issued' = [issued EXCEPT ![s] = @ + 1]
  /\ pending' = [pending EXCEPT ![s] = @ \cup {now}]
  /\ UNCHANGED <<now, row, grants, tick, closed, faults>>

\* Invoice.MarkPaid or CancelByMaster: the invoice is no longer pending.
SettleInvoice(s, due) ==
  /\ due \in pending[s]
  /\ pending' = [pending EXCEPT ![s] = @ \ {due}]
  /\ UNCHANGED <<now, row, issued, grants, tick, closed, faults>>

\* Assign: a plan change cancels the tenant's active subscription.
CancelSubscription(s) ==
  /\ closed[s] = None
  /\ closed' = [closed EXCEPT ![s] = now]
  /\ UNCHANGED <<now, row, pending, issued, grants, tick, faults>>

\* A master grants a free subscription period, directly or by approving a
\* request: both write {"period_days": N}.
GrantPeriod(s, days) ==
  /\ Cardinality(grants[s]) < MaxGrants
  /\ \A g \in grants[s] : g.created # now
  /\ grants' = [grants EXCEPT ![s] =
                  @ \cup {[created |-> now, payload |-> [period_days |-> days]]}]
  /\ UNCHANGED <<now, row, pending, issued, tick, closed, faults>>

RevokeGrant(s, g) ==
  /\ g \in grants[s]
  /\ grants' = [grants EXCEPT ![s] = @ \ {g}]
  /\ UNCHANGED <<now, row, pending, issued, tick, closed, faults>>

-----------------------------------------------------------------------------

Init ==
  /\ now = 0
  /\ row = [s \in Subs |-> Row("current", 0, None, None)]
  /\ closed = [s \in Subs |-> None]
  /\ pending = [s \in Subs |-> {}]
  /\ issued = [s \in Subs |-> 0]
  /\ grants = [s \in Subs |-> {}]
  /\ tick = Idle
  /\ faults = 0

Tick == ListCandidates \/ Evaluate \/ Save \/ EndTick

Next ==
  \/ Tick
  \/ FailSave
  \/ PassDay
  \/ \E s \in Subs :
       \/ IssueInvoice(s)
       \/ \E d \in pending[s] : SettleInvoice(s, d)
       \/ CancelSubscription(s)
       \/ \E d \in FreeDays : GrantPeriod(s, d)
       \/ \E g \in grants[s] : RevokeGrant(s, g)

Spec == Init /\ [][Next]_vars

\* The ticker fires again and again, and days pass.
FairSpec == Spec /\ WF_vars(Tick) /\ WF_vars(PassDay)

-----------------------------------------------------------------------------
(* Properties.                                                             *)

Days == 0..MaxDay
RowType == [state : States, entered : Days, last : Days \cup {None}, until : Days \cup {None}]

\* Every variable keeps its shape, and no state is entered in the future.
TypeOK ==
  /\ now \in Days /\ faults \in 0..MaxFaults
  /\ row \in [Subs -> RowType] /\ \A s \in Subs : row[s].entered <= now
  /\ closed \in [Subs -> Days \cup {None}] /\ pending \in [Subs -> SUBSET Days]
  /\ issued \in [Subs -> 0..MaxInvoices]
  /\ \A s \in Subs : grants[s] \subseteq [created : Days, payload : [period_days : FreeDays]]
  /\ tick.pc \in {"idle", "evaluate", "save"} /\ tick.at <= now
  /\ tick.pc = "save" => tick.sub \in Subs /\ tick.new \in RowType

\* Every sanction can be justified from the row itself: a row that is not
\* current names the invoice, and its state is the one the policy gives for
\* that invoice on the day the state was entered.
SanctionExplained ==
  \A s \in Subs : row[s].state # "current" =>
    /\ row[s].last # None
    /\ row[s].state = StateForDaysPastDue(daysSince(row[s].last, row[s].entered))

\* Once a plan change has cancelled a subscription, its dunning row is left
\* alone, but for a tick that had listed it before (ListCandidates, evaluate).
CancelledIsLeftAlone ==
  [][\A s \in Subs : row'[s] # row[s] /\ closed[s] # None => tick.at <= closed[s]]_vars

\* A subscription whose debts are settled for good comes to rest at current,
\* unless its row or the subscription was cancelled (evaluate, MarkPaid).
PaidRecovers ==
  \A s \in Subs :
    <>[](pending[s] = {} /\ closed[s] = None) => <>[](row[s].state \in {"current", "cancelled"})

\* An invoice that is never settled is escalated to the end while the
\* subscription is active: "the tick re-evaluates every non-cancelled row
\* every cadence" (ListCandidates, StateForDaysPastDue).
UnpaidIsCancelled ==
  \A s \in Subs, d \in Days :
    d + CancelDays <= MaxDay =>
      (<>[](d \in pending[s] /\ closed[s] = None) => <>(row[s].state = "cancelled"))

\* A free subscription period pauses escalation: no tick that began in the
\* days a live grant covers escalates the row.  (A grant made or revoked
\* while the tick runs, and a failing lookup, may go either way.)
ReprieveRespected ==
  [][\A s \in Subs :
       Severity(row'[s].state) > Severity(row[s].state) /\ faults = 0 =>
         \A g \in grants[s] :
           g.created < tick.at => g.created + g.payload.period_days <= tick.at]_vars
=============================================================================
