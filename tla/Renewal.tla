------------------------------ MODULE Renewal ------------------------------
(***************************************************************************)
(* Subscription renewal and the monthly quota it earns: the renewer worker *)
(* (internal/worker/billing) and its Postgres store, the JetStream stream  *)
(* it publishes subscription.renewed on, the wallet allocator              *)
(* (internal/worker/wallet), and the two others who write the subscription *)
(* row: the free-period master grant and the master's plan change.         *)
(*                                                                         *)
(* Time is counted in days.  A renewal is one transaction; the publication *)
(* after it, the delivery, the credit and the ack are separate steps, so a *)
(* fault may fall between any two of them.                                 *)
(***************************************************************************)
EXTENDS Naturals, FiniteSets, FiniteSetsExt

CONSTANTS Tenants,
          Renewers,           \* renewer workers (one per server replica)
          Allocators,         \* allocator workers (one per pod)
          Month,              \* days a renewal adds
          Base,               \* each tenant's first current_period_end
          BatchSize,          \* rows a tick lists
          PublishMaxRetries,  \* publication attempts per renewal
          MaxDeliver,         \* deliveries of a message before it is dropped
          Faults,             \* the calls that may fail
          MaxFaults,          \* bound: failures per behaviour
          Managed,            \* bound: tenants whose subscription a master changes
          MaxExtensions,      \* bound: free-period grants per behaviour
          MaxAssigns,         \* bound: plan changes per behaviour
          MaxNow              \* bound: the last day

ASSUME RenewalAssumption ==
  /\ Month \in Nat \ {0} /\ Base \in [Tenants -> Nat] /\ BatchSize \in Nat \ {0}
  /\ PublishMaxRetries \in Nat \ {0} /\ MaxDeliver \in Nat \ {0}
  /\ Faults \subseteq {"renew", "publish", "allocate", "ack", "crash"}
  /\ Managed \subseteq Tenants
  /\ MaxFaults \in Nat /\ MaxExtensions \in Nat /\ MaxAssigns \in Nat /\ MaxNow \in Nat

Days == 0..MaxNow

\* A tenant's subscription rows: the first one and those of plan changes.
Subs == Tenants \X (0..MaxAssigns)
Tenant(s) == s[1]

\* A renewal is known by its subscription and its period's first day: the
\* invoice row, the Nats-Msg-Id and the ledger's idempotency key are all that.
Renewals == Subs \X Days

VARIABLES now,        \* the clock
          sub,        \* subscription: status, current_period_end, and the first such
          invoice,    \* how many invoice rows a period has
          renewer,    \* the tick each renewer is in
          message,    \* the stream: none, queued, acked or dead
          delivered,  \* deliveries of each message so far
          allocator,  \* the delivery each allocator is handling
          credited,   \* monthly_alloc ledger rows, with their balance update
          extender,   \* the free-period grant being applied
          extensions, \* free-period grants so far
          faults      \* failures so far

row == <<sub, invoice>>
broker == <<message, delivered>>
grant == <<extender, extensions>>
vars == <<now, row, renewer, broker, allocator, credited, grant, faults>>

-----------------------------------------------------------------------------
(* The renewer.                                                            *)

Tick(pc, due, item, tries) == [pc |-> pc, due |-> due, item |-> item, tries |-> tries]
NotTicking == Tick("idle", {}, <<>>, 0)

\* The listed rows still to renew, the oldest end first.
Oldest(due) == {d \in due : \A e \in due : d[2] <= e[2]}

\* Mutation: the loop runs once more after its last row.
NextPastEnd(r, due) == renewer' = [renewer EXCEPT ![r] = Tick("renew", due, <<>>, 0)]

\* The tick goes on with its next row, or ends.
NextDue(r, due) ==
  renewer' = [renewer EXCEPT ![r] = IF due = {} THEN NotTicking ELSE Tick("renew", due, <<>>, 0)]

Active(s) == sub[s].status = "active"

\* Mutation: a period that ends today is not due yet.
DueTomorrow == {<<s, sub[s].end>> : s \in {s \in Subs : Active(s) /\ sub[s].end < now}}

\* Active subscriptions whose period has ended.
Due == {<<s, sub[s].end>> : s \in {s \in Subs : Active(s) /\ sub[s].end <= now}}

ListDueSubscriptions(r) ==
  /\ renewer[r].pc = "idle"
  /\ Due # {}
  /\ \E due \in SUBSET Due :
       /\ Cardinality(due) = IF Cardinality(Due) < BatchSize THEN Cardinality(Due) ELSE BatchSize
       /\ \A d \in due, e \in Due \ due : d[2] <= e[2]
       /\ NextDue(r, due)
  /\ UNCHANGED <<now, row, broker, allocator, credited, grant, faults>>

\* The partial unique index of invoice: (tenant_id, period_start).
Invoiced(t, start) == \E m \in Renewals : Tenant(m[1]) = t /\ m[2] = start /\ invoice[m] > 0

\* The invoice and the advance of one row, and on to the publication.
Renewed(r, d) ==
  /\ invoice' = [invoice EXCEPT ![d] = @ + 1]
  /\ sub' = [sub EXCEPT ![d[1]].end = d[2] + Month]
  /\ renewer' = [renewer EXCEPT ![r] = Tick("publish", renewer[r].due \ {d}, d, 0)]

\* Mutation: neither the index nor the optimistic advance stops a second one.
RenewTwice(r) ==
  /\ renewer[r].pc = "renew"
  /\ \E d \in Oldest(renewer[r].due) :
       IF Active(d[1]) THEN Renewed(r, d) ELSE NextDue(r, renewer[r].due \ {d}) /\ UNCHANGED row
  /\ UNCHANGED <<now, broker, allocator, credited, grant, faults>>

\* Mutation: the locked row's status is not looked at.
RenewAnyStatus(r) ==
  /\ renewer[r].pc = "renew"
  /\ \E d \in Oldest(renewer[r].due) :
       IF ~Invoiced(Tenant(d[1]), d[2]) /\ sub[d[1]].end = d[2]
       THEN Renewed(r, d)
       ELSE NextDue(r, renewer[r].due \ {d}) /\ UNCHANGED row
  /\ UNCHANGED <<now, broker, allocator, credited, grant, faults>>

\* One transaction: the row is locked, if it is still active; the invoice of
\* the period that starts where the listed one ended is inserted, unless it
\* exists; the period advances, unless somebody else has moved it.  Any
\* refusal rolls everything back and skips the row.
RenewSubscription(r) ==
  /\ renewer[r].pc = "renew"
  /\ \E d \in Oldest(renewer[r].due) :
       IF Active(d[1]) /\ ~Invoiced(Tenant(d[1]), d[2]) /\ sub[d[1]].end = d[2]
       THEN Renewed(r, d)
       ELSE NextDue(r, renewer[r].due \ {d}) /\ UNCHANGED row
  /\ UNCHANGED <<now, broker, allocator, credited, grant, faults>>

Fail(f) == f \in Faults /\ faults < MaxFaults /\ faults' = faults + 1

\* The transaction fails: the row is skipped until the next tick.
FailRenew(r) ==
  /\ renewer[r].pc = "renew"
  /\ Fail("renew")
  /\ \E d \in Oldest(renewer[r].due) : NextDue(r, renewer[r].due \ {d})
  /\ UNCHANGED <<now, row, broker, allocator, credited, grant>>

\* The stream keeps one message per Nats-Msg-Id.
Stored(m) == message' = [message EXCEPT ![m] = IF @ = "none" THEN "queued" ELSE @]

Publish(r) ==
  /\ renewer[r].pc = "publish"
  /\ Stored(renewer[r].item)
  /\ NextDue(r, renewer[r].due)
  /\ UNCHANGED <<now, row, delivered, allocator, credited, grant, faults>>

\* An attempt that reports an error, though the stream may have the message:
\* it is tried again until the attempts run out, and then given up for good.
FailPublish(r) ==
  /\ renewer[r].pc = "publish"
  /\ Fail("publish")
  /\ Stored(renewer[r].item) \/ UNCHANGED message
  /\ IF renewer[r].tries + 1 = PublishMaxRetries
     THEN NextDue(r, renewer[r].due)
     ELSE renewer' = [renewer EXCEPT ![r].tries = @ + 1]
  /\ UNCHANGED <<now, row, delivered, allocator, credited, grant>>

\* The process stops, or is told to while it waits for the next attempt.
StopRenewer(r) ==
  /\ renewer[r].pc # "idle"
  /\ Fail("crash")
  /\ renewer' = [renewer EXCEPT ![r] = NotTicking]
  /\ UNCHANGED <<now, row, broker, allocator, credited, grant>>

-----------------------------------------------------------------------------
(* The stream and the allocator.                                           *)

Idle == <<"idle", <<>>>>
Handling(a) == allocator[a][2]

\* A message is delivered again once AckWait is over, also to another pod
\* and while an earlier delivery is still being handled.
Deliver(a, m) ==
  /\ allocator[a] = Idle
  /\ message[m] = "queued" /\ delivered[m] < MaxDeliver
  /\ delivered' = [delivered EXCEPT ![m] = @ + 1]
  /\ allocator' = [allocator EXCEPT ![a] = <<"allocate", m>>]
  /\ UNCHANGED <<now, row, renewer, message, credited, grant, faults>>

\* After its last delivery an unacknowledged message leaves the queue.
DeadLetter(m) ==
  /\ message[m] = "queued" /\ delivered[m] = MaxDeliver
  /\ message' = [message EXCEPT ![m] = "dead"]
  /\ UNCHANGED <<now, row, renewer, delivered, allocator, credited, grant, faults>>

\* Mutation: the conflict on the idempotency key goes unnoticed.
AllocateTwice(a) ==
  /\ allocator[a][1] = "allocate"
  /\ credited' = [credited EXCEPT ![Handling(a)] = @ + 1]
  /\ allocator' = [allocator EXCEPT ![a] = <<"ack", Handling(a)>>]
  /\ UNCHANGED <<now, row, renewer, broker, grant, faults>>

\* One transaction: the ledger row, unless one has the message id as its key,
\* and the balance.
AllocateMonthlyQuota(a) ==
  /\ allocator[a][1] = "allocate"
  /\ credited' = [credited EXCEPT ![Handling(a)] = IF @ = 0 THEN 1 ELSE @]
  /\ allocator' = [allocator EXCEPT ![a] = <<"ack", Handling(a)>>]
  /\ UNCHANGED <<now, row, renewer, broker, grant, faults>>

Ack(a) ==
  /\ allocator[a][1] = "ack"
  /\ message' = [message EXCEPT ![Handling(a)] = IF @ = "queued" THEN "acked" ELSE @]
  /\ allocator' = [allocator EXCEPT ![a] = Idle]
  /\ UNCHANGED <<now, row, renewer, delivered, credited, grant, faults>>

\* Mutation: a refused delivery is acknowledged.
UnackedDropped(a) ==
  /\ \/ allocator[a][1] = "allocate" /\ Fail("allocate")
     \/ allocator[a][1] = "ack" /\ Fail("ack")
     \/ allocator[a] # Idle /\ Fail("crash")
  /\ allocator' = [allocator EXCEPT ![a] = Idle]
  /\ message' = [message EXCEPT ![Handling(a)] = "acked"]
  /\ UNCHANGED <<now, row, renewer, delivered, credited, grant>>

\* The plan lookup or the transaction fails and the delivery is refused, the
\* ack is lost (its error is ignored), or the pod stops.
Unacked(a) ==
  /\ \/ allocator[a][1] = "allocate" /\ Fail("allocate")
     \/ allocator[a][1] = "ack" /\ Fail("ack")
     \/ allocator[a] # Idle /\ Fail("crash")
  /\ allocator' = [allocator EXCEPT ![a] = Idle]
  /\ UNCHANGED <<now, row, renewer, broker, credited, grant>>

-----------------------------------------------------------------------------
(* The free-period grant (applyFreePeriod): it reads the row in one        *)
(* transaction and writes all of it back in another.  The plan change      *)
(* (Assign) cancels the active row and inserts one for the new plan.       *)

GetByTenant(s) ==
  /\ Active(s)
  /\ extender = <<>> /\ extensions < MaxExtensions
  /\ \E days \in 1..Month : extender' = <<s, sub[s].end + days>>
  /\ extensions' = extensions + 1
  /\ UNCHANGED <<now, row, renewer, broker, allocator, credited, faults>>

\* The status that was read is written too; the index on a tenant's active
\* subscription refuses it when another one has become active.
SaveSubscription ==
  /\ extender # <<>>
  /\ LET s == extender[1]
     IN IF \E o \in Subs \ {s} : Tenant(o) = Tenant(s) /\ Active(o)
        THEN UNCHANGED sub
        ELSE sub' = [sub EXCEPT ![s].status = "active", ![s].end = extender[2]]
  /\ extender' = <<>>
  /\ UNCHANGED <<now, invoice, renewer, broker, allocator, credited, extensions, faults>>

Existing == {s \in Subs : sub[s].status # "none"}

Assign(t) ==
  /\ Cardinality(Existing) < Cardinality(Tenants) + MaxAssigns
  /\ LET new == <<t, Cardinality({s \in Existing : Tenant(s) = t})>>
     IN sub' = [s \in Subs |->
          IF s = new THEN [status |-> "active", first |-> now + Month, end |-> now + Month]
          ELSE IF Tenant(s) = t /\ Active(s) THEN [sub[s] EXCEPT !.status = "cancelled"]
          ELSE sub[s]]
  /\ UNCHANGED <<now, invoice, renewer, broker, allocator, credited, grant, faults>>

PassDay ==
  /\ now < MaxNow
  /\ now' = now + 1
  /\ UNCHANGED <<row, renewer, broker, allocator, credited, grant, faults>>

-----------------------------------------------------------------------------
Init ==
  /\ now = 0
  /\ sub = [s \in Subs |-> IF s[2] = 0 THEN [status |-> "active", first |-> Base[s[1]], end |-> Base[s[1]]]
                           ELSE [status |-> "none", first |-> 0, end |-> 0]]
  /\ invoice = [m \in Renewals |-> 0]
  /\ renewer = [r \in Renewers |-> NotTicking]
  /\ message = [m \in Renewals |-> "none"]
  /\ delivered = [m \in Renewals |-> 0]
  /\ allocator = [a \in Allocators |-> Idle]
  /\ credited = [m \in Renewals |-> 0]
  /\ extender = <<>> /\ extensions = 0
  /\ faults = 0

RenewerStep(r) == ListDueSubscriptions(r) \/ RenewSubscription(r) \/ Publish(r)
AllocatorStep(a) == AllocateMonthlyQuota(a) \/ Ack(a)

Next ==
  \/ \E r \in Renewers : RenewerStep(r) \/ FailRenew(r) \/ FailPublish(r) \/ StopRenewer(r)
  \/ \E a \in Allocators : AllocatorStep(a) \/ Unacked(a)
  \/ \E a \in Allocators, m \in Renewals : Deliver(a, m)
  \/ \E m \in Renewals : DeadLetter(m)
  \/ \E s \in Subs : Tenant(s) \in Managed /\ GetByTenant(s)
  \/ SaveSubscription
  \/ \E t \in Managed : Assign(t)
  \/ PassDay

Spec == Init /\ [][Next]_vars

\* The ticker keeps the renewers going, the allocators' loop takes what the
\* channel gives it, and the broker delivers what is queued.
Fairness ==
  /\ \A r \in Renewers : WF_vars(RenewerStep(r))
  /\ \A a \in Allocators : WF_vars(AllocatorStep(a))
  /\ WF_vars(\E a \in Allocators, m \in Renewals : Deliver(a, m))

FairSpec == Spec /\ Fairness

-----------------------------------------------------------------------------
(* Properties.                                                             *)

\* The state keeps its shape, a tick that goes on has a row to renew, and no
\* message is delivered more than MaxDeliver times (Tick, Subscribe).
TypeOK ==
  /\ now \in Days /\ invoice \in [Renewals -> Nat]
  /\ sub \in [Subs -> [status : {"none", "active", "cancelled"}, first : Nat, end : Nat]]
  /\ \A r \in Renewers : /\ renewer[r].pc \in {"idle", "renew", "publish"}
                         /\ renewer[r].due \subseteq Renewals
                         /\ renewer[r].pc = "renew" => renewer[r].due # {}
                         /\ renewer[r].item \in Renewals \cup {<<>>}
                         /\ renewer[r].tries \in 0..(PublishMaxRetries - 1)
  /\ message \in [Renewals -> {"none", "queued", "acked", "dead"}]
  /\ delivered \in [Renewals -> 0..MaxDeliver]
  /\ allocator \in [Allocators -> {Idle} \cup ({"allocate", "ack"} \X Renewals)]
  /\ credited \in [Renewals -> Nat]
  /\ extender \in {<<>>} \cup (Subs \X Nat) /\ extensions \in 0..MaxExtensions
  /\ faults \in 0..MaxFaults

\* A quota is credited once per invoiced period, whatever is renewed, sent,
\* delivered or acknowledged twice; an acknowledged renewal has its credit
\* (AllocateMonthlyQuota, Allocator.Handle).
CreditedOncePerInvoice ==
  \A m \in Renewals : /\ credited[m] <= 1
                      /\ credited[m] = 1 => invoice[m] > 0
                      /\ message[m] = "acked" => credited[m] = 1

\* "internal/billing writes one invoice row per subscription period": as long
\* as no free period is granted, the days a subscription has run past its
\* first period are each on exactly one invoice row, however many renewers
\* listed them, and no invoice goes beyond the current period
\* (RenewSubscription).
EveryDayBilledOnce ==
  extensions = 0 =>
    \A s \in Existing : \A d \in sub[s].first..(MaxNow + 2 * Month) :
      MapThenSumSet(LAMBDA k : invoice[<<s, k>>], {k \in Days : k <= d /\ d < k + Month})
        = IF d < sub[s].end THEN 1 ELSE 0

\* What a plan change has cancelled stays so: the subscription is not billed,
\* extended or revived by a renewer that had listed it or a grant that had
\* read it before (RenewSubscription, SaveSubscription, Assign).
CancelledIsFinal ==
  [][\A s \in Subs : sub[s].status = "cancelled" =>
       sub'[s] = sub[s] /\ \A d \in Days : invoice'[<<s, d>>] = invoice[<<s, d>>]]_vars

\* As long as no free period is granted, no active subscription stays due,
\* also behind others in a batch that is too small for all of them (Tick,
\* ListDueSubscriptions).  The clock stops at MaxNow.
DueIsRenewed ==
  [](extensions = 0) => <>[](\A s \in Subs : Active(s) => sub[s].end > now)

\* Every published renewal gets its quota when fewer of its deliveries fail
\* than the broker makes (Allocator.Handle).
PublishedIsCredited ==
  MaxFaults < MaxDeliver => <>[](\A m \in Renewals : message[m] # "none" => credited[m] = 1)

\* Every invoiced period gets its quota (renewOne, Allocator.Handle).
RenewedIsCredited == \A m \in Renewals : invoice[m] > 0 ~> credited[m] = 1

=============================================================================
