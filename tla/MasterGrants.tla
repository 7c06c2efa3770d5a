---------------------------- MODULE MasterGrants ----------------------------
(***************************************************************************)
(* Grants a master gives to one tenant: the issue and revoke handlers      *)
(* behind WalletGrantPort (internal/web/master), the four-eyes requests    *)
(* for what is over the cap (adapter/db/postgres/master), and the applier  *)
(* (internal/wallet/usecase) that turns a grant into tokens or into a      *)
(* longer subscription period.                                             *)
(*                                                                         *)
(* IssueGrant lists, checks the cap, creates the row and applies it in one *)
(* HTTP request but in several transactions; nothing else ever applies a   *)
(* grant.  All grants are less than 365 days old, so all count.            *)
(***************************************************************************)
EXTENDS Naturals, FiniteSetsExt

CONSTANTS Masters,             \* master users
          Procs,               \* concurrent issue requests
          Grants,              \* ids of master_grant rows
          Requests,            \* ids of master_grant_request rows
          Sizes,               \* tokens or days asked for
          DayEquivalence,      \* tokens a free day counts for
          PerGrantCap,
          PerTenantWindowCap,
          Faults,              \* the calls that may fail
          MaxFaults,           \* bound: failures per behaviour
          NoOne                \* neither a master nor a grant

Kinds == {"extra_tokens", "free_subscription_period"}

ASSUME GrantsAssumption ==
  /\ Sizes \subseteq Nat \ {0} /\ DayEquivalence \in Nat
  /\ PerGrantCap \in Nat /\ PerTenantWindowCap \in Nat /\ MaxFaults \in Nat
  /\ NoOne \notin Masters \cup Grants
  /\ Faults \subseteq {"create", "get", "refresh", "load", "save", "credit", "consume"}

VARIABLES grant,    \* master_grant: kind, payload and none, pending, consumed or revoked
          request,  \* master_grant_request: state, who asked, who decided, its grant
          applied,  \* side effects each grant has had
          ledger,   \* grants with a token_ledger row
          end,      \* the subscription's current_period_end
          proc,     \* the issue request each process is handling
          faults    \* failures so far

tables == <<grant, request>>
effects == <<applied, ledger, end>>
vars == <<tables, effects, proc, faults>>

Row(state, kind, payload) == [state |-> state, kind |-> kind, payload |-> payload]
Asked(state, kind, size, creator, approver, g) ==
  [state |-> state, kind |-> kind, size |-> size,
   creator |-> creator, approver |-> approver, grant |-> g]
Issuing(pc, kind, size, g, read) ==
  [pc |-> pc, kind |-> kind, size |-> size, grant |-> g, read |-> read]

NoRow == Row("none", "extra_tokens", [key |-> "none", value |-> 0])
NoRequest == Asked("none", "extra_tokens", 0, NoOne, NoOne, NoOne)
NotIssuing == Issuing("idle", "extra_tokens", 0, NoOne, 0)

-----------------------------------------------------------------------------
(* The cap.                                                                *)

CapEquivalence(kind, amount, days) ==
  IF kind = "extra_tokens" THEN amount ELSE days * DayEquivalence

\* What a grant of some size is worth, whatever its payload looks like.
Worth(kind, size) == CapEquivalence(kind, size, size)

\* The payloads, each with its one key: the issuer's and the request store's.
buildGrantPayload(kind, size) ==
  [key |-> IF kind = "extra_tokens" THEN "amount" ELSE "period_days", value |-> size]
encodePayload(kind, size) ==
  [key |-> IF kind = "extra_tokens" THEN "tokens" ELSE "period_days", value |-> size]

\* The number under a key, 0 when the payload has no such key.
readInt64Payload(payload, key) == IF payload.key = key THEN payload.value ELSE 0

\* What a grant row counts for.
Equivalent(g) ==
  CapEquivalence(grant[g].kind, readInt64Payload(grant[g].payload, "amount"),
                 readInt64Payload(grant[g].payload, "period_days"))

\* Mutation: a grant counts only once it is consumed.
CumulativeConsumed ==
  MapThenSumSet(Equivalent, {g \in Grants : grant[g].state = "consumed"})

\* What the tenant's grants amount to, the revoked ones left out.  Tokens of
\* an approved request, which are under another key, count for nothing.
CumulativeEquivalent ==
  MapThenSumSet(Equivalent, {g \in Grants : grant[g].state \in {"pending", "consumed"}})

EnforceCap(equivalent, cumulative) ==
  equivalent <= PerGrantCap /\ cumulative + equivalent <= PerTenantWindowCap

-----------------------------------------------------------------------------
(* WalletGrantPort.IssueGrant.                                             *)

GoTo(p, pc) == proc' = [proc EXCEPT ![p].pc = pc]
Return(p) == proc' = [proc EXCEPT ![p] = NotIssuing]
Mine(p) == proc[p].grant

IssueGrant(p) ==
  /\ proc[p].pc = "idle"
  /\ \E kind \in Kinds, size \in Sizes :
       /\ EnforceCap(Worth(kind, size), CumulativeEquivalent)
       /\ proc' = [proc EXCEPT ![p] = Issuing("create", kind, size, NoOne, 0)]
  /\ UNCHANGED <<tables, effects, faults>>

Create(p) ==
  /\ proc[p].pc = "create"
  /\ \E g \in Grants :
       /\ grant[g].state = "none"
       /\ grant' = [grant EXCEPT ![g] = Row("pending", proc[p].kind, buildGrantPayload(proc[p].kind, proc[p].size))]
       /\ proc' = [proc EXCEPT ![p].pc = "get", ![p].grant = g]
  /\ UNCHANGED <<request, effects, faults>>

-----------------------------------------------------------------------------
(* ApplyMasterGrantService.Apply.                                          *)

\* Mutation: the grant is marked consumed before it is applied.
ConsumeFirst(p) ==
  /\ proc[p].pc = "get"
  /\ IF grant[Mine(p)].state # "pending"
     THEN Return(p) /\ UNCHANGED grant
     ELSE /\ grant' = [grant EXCEPT ![Mine(p)].state = "consumed"]
          /\ GoTo(p, IF proc[p].kind = "extra_tokens" THEN "credit" ELSE "load")
  /\ UNCHANGED <<request, effects, faults>>

\* Mutation: a request that finds nothing to do forgets its grant and goes on.
GetUncreated(p) ==
  /\ proc[p].pc = "get"
  /\ proc' = [proc EXCEPT ![p].pc = IF proc[p].kind = "extra_tokens" THEN "credit" ELSE "refresh",
                          ![p].grant = IF grant[Mine(p)].state = "pending" THEN @ ELSE NoOne]
  /\ UNCHANGED <<tables, effects, faults>>

\* A grant that is not pending any more is left alone.
GetByID(p) ==
  /\ proc[p].pc = "get"
  /\ IF grant[Mine(p)].state # "pending" THEN Return(p)
     ELSE GoTo(p, IF proc[p].kind = "extra_tokens" THEN "credit" ELSE "refresh")
  /\ UNCHANGED <<tables, effects, faults>>

\* applyFreePeriod reads the payload and looks again before it touches the subscription.
Refresh(p) ==
  /\ proc[p].pc = "refresh"
  /\ IF \/ readInt64Payload(grant[Mine(p)].payload, "period_days") = 0
        \/ grant[Mine(p)].state # "pending"
     THEN Return(p) ELSE GoTo(p, "load")
  /\ UNCHANGED <<tables, effects, faults>>

GetByTenant(p) ==
  /\ proc[p].pc = "load"
  /\ proc' = [proc EXCEPT ![p].pc = "save", ![p].read = end]
  /\ UNCHANGED <<tables, effects, faults>>

TookEffect(g) == applied' = [applied EXCEPT ![g] = @ + 1]

\* ExtendPeriod on the copy that was read, and an upsert of the whole row.
SaveSubscription(p) ==
  /\ proc[p].pc = "save"
  /\ end' = proc[p].read + readInt64Payload(grant[Mine(p)].payload, "period_days")
  /\ TookEffect(Mine(p))
  /\ GoTo(p, "consume")
  /\ UNCHANGED <<tables, ledger, faults>>

\* LoadByTenant, Grant and ApplyWithLock with the grant's own key.
ApplyWithLock(p) ==
  /\ proc[p].pc = "credit"
  /\ IF readInt64Payload(grant[Mine(p)].payload, "amount") = 0 \/ Mine(p) \in ledger
     THEN Return(p) /\ UNCHANGED <<applied, ledger>>
     ELSE /\ ledger' = ledger \cup {Mine(p)}
          /\ TookEffect(Mine(p))
          /\ GoTo(p, "consume")
  /\ UNCHANGED <<tables, end, faults>>

\* Only a grant that is neither consumed nor revoked; the error of another
\* one is returned, the side effect stays.
Consume(p) ==
  /\ proc[p].pc = "consume"
  /\ grant' = [grant EXCEPT ![Mine(p)].state = IF @ = "pending" THEN "consumed" ELSE @]
  /\ Return(p)
  /\ UNCHANGED <<request, effects, faults>>

\* A call fails (a stale wallet version included: the applier does not try
\* again) or the process stops: the request ends where it is.
FailCall(p) ==
  /\ proc[p].pc \in Faults /\ faults < MaxFaults
  /\ faults' = faults + 1
  /\ Return(p)
  /\ UNCHANGED <<tables, effects>>

-----------------------------------------------------------------------------
(* Revocation and the four-eyes requests.                                  *)

Revoke(g) ==
  /\ grant[g].state = "pending"
  /\ grant' = [grant EXCEPT ![g].state = "revoked"]
  /\ UNCHANGED <<request, effects, proc, faults>>

CreateGrantRequest(m, r) ==
  /\ request[r].state = "none"
  /\ \E kind \in Kinds, size \in Sizes :
       request' = [request EXCEPT ![r] = Asked("awaiting_approval", kind, size, m, NoOne, NoOne)]
  /\ UNCHANGED <<grant, effects, proc, faults>>

Decided(r, state, m, g) ==
  Asked(state, request[r].kind, request[r].size, request[r].creator, m, g)

\* Mutation: whoever asked may approve.
ApproveOwn(m, r) ==
  /\ request[r].state = "awaiting_approval"
  /\ \E g \in Grants :
       /\ grant[g].state = "none"
       /\ grant' = [grant EXCEPT ![g] = Row("pending", request[r].kind, encodePayload(request[r].kind, request[r].size))]
       /\ request' = [request EXCEPT ![r] = Decided(r, "approved", m, g)]
  /\ UNCHANGED <<effects, proc, faults>>

\* One transaction; the grant is created, in the request store's own payload,
\* and nothing applies it.
ApproveGrantRequest(m, r) ==
  /\ request[r].state = "awaiting_approval" /\ request[r].creator # m
  /\ \E g \in Grants :
       /\ grant[g].state = "none"
       /\ grant' = [grant EXCEPT ![g] = Row("pending", request[r].kind, encodePayload(request[r].kind, request[r].size))]
       /\ request' = [request EXCEPT ![r] = Decided(r, "approved", m, g)]
  /\ UNCHANGED <<effects, proc, faults>>

RejectGrantRequest(m, r) ==
  /\ request[r].state = "awaiting_approval" /\ request[r].creator # m
  /\ request' = [request EXCEPT ![r] = Decided(r, "rejected", m, NoOne)]
  /\ UNCHANGED <<grant, effects, proc, faults>>

-----------------------------------------------------------------------------
Init ==
  /\ grant = [g \in Grants |-> NoRow]
  /\ request = [r \in Requests |-> NoRequest]
  /\ applied = [g \in Grants |-> 0]
  /\ ledger = {}
  /\ end = 0
  /\ proc = [p \in Procs |-> NotIssuing]
  /\ faults = 0

Apply(p) == GetByID(p) \/ Refresh(p) \/ GetByTenant(p) \/ SaveSubscription(p)
              \/ ApplyWithLock(p) \/ Consume(p)

Next ==
  \/ \E p \in Procs : IssueGrant(p) \/ Create(p) \/ Apply(p) \/ FailCall(p)
  \/ \E g \in Grants : Revoke(g)
  \/ \E m \in Masters, r \in Requests :
       CreateGrantRequest(m, r) \/ ApproveGrantRequest(m, r) \/ RejectGrantRequest(m, r)

Spec == Init /\ [][Next]_vars

-----------------------------------------------------------------------------
(* Properties.                                                             *)

Rows == [state : {"none", "pending", "consumed", "revoked"}, kind : Kinds,
         payload : [key : {"none", "amount", "tokens", "period_days"}, value : Nat]]
Askings == [state : {"none", "awaiting_approval", "approved", "rejected"}, kind : Kinds, size : Nat,
            creator : Masters \cup {NoOne}, approver : Masters \cup {NoOne},
            grant : Grants \cup {NoOne}]
PCs == {"idle", "create", "get", "refresh", "load", "save", "credit", "consume"}
Issues == [pc : PCs, kind : Kinds, size : Nat, grant : Grants \cup {NoOne}, read : Nat]

\* The tables and the requests keep their shape, and a request that is past
\* Create has its grant.
TypeOK ==
  /\ grant \in [Grants -> Rows]
  /\ request \in [Requests -> Askings]
  /\ applied \in [Grants -> Nat] /\ ledger \subseteq Grants /\ end \in Nat
  /\ proc \in [Procs -> Issues]
  /\ \A p \in Procs : proc[p].pc \notin {"idle", "create"} => proc[p].grant \in Grants
  /\ faults \in Nat

\* "Apply runs the side-effect for grantID exactly once": a grant that is
\* marked consumed has had its effect, once, whatever failed or was revoked
\* on the way (Apply, Consume).
ConsumedTookEffect ==
  \A g \in Grants : grant[g].state = "consumed" => applied[g] = 1

\* A grant over the per-grant cap was asked for by one master and approved by
\* another, and each approved request became one grant of its own
\* (EnforceCap, ApproveGrantRequest).
OverCapIsFourEyes ==
  /\ \A g \in Grants : Worth(grant[g].kind, grant[g].payload.value) > PerGrantCap =>
       \E r \in Requests : /\ request[r].state = "approved" /\ request[r].grant = g
                           /\ NoOne \notin {request[r].creator, request[r].approver}
                           /\ request[r].creator # request[r].approver
  /\ \A q, r \in Requests : request[q].grant # NoOne /\ request[q].grant = request[r].grant => q = r

Direct == {g \in Grants : \A r \in Requests : request[r].grant # g}

\* The cap is checked before the row is created, by each request for itself:
\* however many of them run at once, and whatever has been approved besides,
\* the live grants that masters issued alone overshoot the cap by less than
\* one grant per further request (IssueGrant, cumulativeEquivalentSince).
OvershootIsBounded ==
  MapThenSumSet(Equivalent, {g \in Direct : grant[g].state \in {"pending", "consumed"}})
    <= PerTenantWindowCap + (Cardinality(Procs) - 1) * PerGrantCap

\* "a revoked grant transferred nothing" (RevokeGrant, Apply).
RevokedTransferredNothing ==
  \A g \in Grants : grant[g].state = "revoked" => applied[g] = 0
=============================================================================
