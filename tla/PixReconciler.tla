---------------------------- MODULE PixReconciler ----------------------------
(***************************************************************************)
(* PIX charges and the webhook that settles them: the Inter receiver       *)
(* (adapter/transport/http/pix), the Reconciler (internal/billing/pix) and *)
(* the two Postgres stores behind it.                                      *)
(*                                                                         *)
(* The PSP delivers at least once: until a request with the event in it is *)
(* answered 200 it may send it again, also while an earlier request is     *)
(* still being handled.  Record, GetByExternalID, Forget and Save are four *)
(* transactions, so handlers interleave and fail between them.             *)
(***************************************************************************)
EXTENDS Naturals, Sequences, FiniteSets

CONSTANTS Procs,       \* concurrent webhook requests
          Txids,       \* external ids (one per invoice)
          EventTypes,  \* normalised event types the receiver passes on
          Faults,      \* the calls that may fail
          MaxFaults,   \* bound: failures per behaviour
          MaxBatch     \* bound: pix entries per request

Terminal == {"paid", "expired", "cancelled"}

ASSUME PixAssumption ==
  /\ EventTypes \subseteq Terminal
  /\ Faults \subseteq {"throttle", "record", "peek", "get", "forget", "save", "crash"}
  /\ MaxFaults \in Nat /\ MaxBatch \in Nat

Events == Txids \X EventTypes

VARIABLES charge,   \* pix_charges.status by external id, "none" before the row
          log,      \* webhook_events: the dedup rows
          notice,   \* the PSP's side of an event: none, due, acked
          handler,  \* the request each process is handling
          alerted,  \* external ids reported as stuck_pending_suspected
          faults    \* failures so far

vars == <<charge, log, notice, handler, alerted, faults>>

Idle == "idle"

\* A request: the events still to apply, the one the loop is at first, all of
\* them, and the status the charge will be saved with.
Handling(pc, events, body, next) ==
  [pc |-> pc, events |-> events, body |-> body, next |-> next]

NotHandling == Handling(Idle, <<>>, <<>>, "none")

Event(p) == Head(handler[p].events)
Txid(p) == Event(p)[1]

GoTo(p, pc) == handler' = [handler EXCEPT ![p].pc = pc]

-----------------------------------------------------------------------------
(* The charge (pix.go): MarkPaid, Cancel and the forced expiry all leave   *)
(* pending only, are no-ops on their own status and refuse the others.     *)

ApplyEvent(status, type) ==
  IF status = "pending" THEN [next |-> type, changed |-> TRUE, ok |-> TRUE]
  ELSE [next |-> status, changed |-> FALSE, ok |-> status = type]

\* PIXCharger.Create and, later, NewCharge, AttachExternalID and Save: the
\* PSP knows the charge, and may report its payment, before the row exists.
SaveNewCharge(x) ==
  /\ charge[x] = "none"
  /\ charge' = [charge EXCEPT ![x] = "pending"]
  /\ UNCHANGED <<log, notice, handler, alerted, faults>>

\* The PSP has something to report about a charge.
Notify(e) ==
  /\ notice[e] = "none"
  /\ notice' = [notice EXCEPT ![e] = "due"]
  /\ UNCHANGED <<charge, log, handler, alerted, faults>>

-----------------------------------------------------------------------------
(* The receiver.                                                           *)

Batches == {b \in UNION {[1..n -> Events] : n \in 1..MaxBatch} :
              \A i \in DOMAIN b : notice[b[i]] = "due"}

\* An authenticated, well-formed request that carries e starts its loop.
Receive(p, e) ==
  /\ handler[p].pc = Idle
  /\ \E b \in Batches :
       /\ \E i \in DOMAIN b : b[i] = e
       /\ handler' = [handler EXCEPT ![p] = Handling("limit", b, b, "none")]
  /\ UNCHANGED <<charge, log, notice, alerted, faults>>

\* The request is answered with an error; the events stay due.
Refuse(p) ==
  /\ handler' = [handler EXCEPT ![p] = NotHandling]
  /\ UNCHANGED <<charge, log, notice, alerted>>

\* Mutation: the loop runs on past its last event.
DonePastEnd(p) ==
  /\ handler' = [handler EXCEPT ![p].pc = "limit", ![p].events = Tail(@)]
  /\ UNCHANGED notice

\* The event is done: the loop goes on, or the request is answered 200 and
\* the PSP stops sending what was in it.
Done(p) ==
  IF Len(handler[p].events) > 1
  THEN /\ handler' = [handler EXCEPT ![p].pc = "limit", ![p].events = Tail(@)]
       /\ UNCHANGED notice
  ELSE /\ handler' = [handler EXCEPT ![p] = NotHandling]
       /\ notice' = [e \in Events |-> IF \E i \in DOMAIN handler[p].body : handler[p].body[i] = e
                                      THEN "acked" ELSE notice[e]]

\* The limiter lets the event through; an error of the limiter does, too.
Limit(p) ==
  /\ handler[p].pc = "limit"
  /\ GoTo(p, "record")
  /\ UNCHANGED <<charge, log, notice, alerted, faults>>

-----------------------------------------------------------------------------
(* Reconciler.Apply.                                                       *)

\* Mutation: the conflict on the dedup row goes unnoticed.
RecordUpsert(p) ==
  /\ handler[p].pc = "record"
  /\ log' = log \cup {Event(p)}
  /\ GoTo(p, "get")
  /\ UNCHANGED <<charge, notice, alerted, faults>>

Record(p) ==
  /\ handler[p].pc = "record"
  /\ log' = log \cup {Event(p)}
  /\ GoTo(p, IF Event(p) \in log THEN "peek" ELSE "get")
  /\ UNCHANGED <<charge, notice, alerted, faults>>

\* Mutation: a duplicate is answered without looking at the charge.
PeekNothing(p) ==
  /\ handler[p].pc = "peek"
  /\ Done(p)
  /\ UNCHANGED <<charge, log, alerted, faults>>

\* A duplicate: only look whether the charge is still pending.
Peek(p) ==
  /\ handler[p].pc = "peek"
  /\ alerted' = IF charge[Txid(p)] = "pending" THEN alerted \cup {Txid(p)} ELSE alerted
  /\ Done(p)
  /\ UNCHANGED <<charge, log, faults>>

\* GetByExternalID and applyEvent.  A charge that does not exist yet makes
\* the handler take its dedup row back; a refused transition does not.
GetByExternalID(p) ==
  /\ handler[p].pc = "get"
  /\ LET a == ApplyEvent(charge[Txid(p)], Event(p)[2])
     IN IF charge[Txid(p)] = "none" THEN GoTo(p, "forget") /\ UNCHANGED notice
        ELSE IF ~a.ok
             THEN handler' = [handler EXCEPT ![p] = NotHandling] /\ UNCHANGED notice
        ELSE IF a.changed
             THEN /\ handler' = [handler EXCEPT ![p].pc = "save", ![p].next = a.next]
                  /\ UNCHANGED notice
        ELSE Done(p)
  /\ UNCHANGED <<charge, log, alerted, faults>>

Forget(p) ==
  /\ handler[p].pc = "forget"
  /\ log' = log \ {Event(p)}
  /\ handler' = [handler EXCEPT ![p] = NotHandling]
  /\ UNCHANGED <<charge, notice, alerted, faults>>

\* An upsert of the whole charge: whatever the row says by now is replaced.
Save(p) ==
  /\ handler[p].pc = "save"
  /\ charge' = [charge EXCEPT ![Txid(p)] = handler[p].next]
  /\ Done(p)
  /\ UNCHANGED <<log, alerted, faults>>

-----------------------------------------------------------------------------
(* Failures.                                                               *)

\* The step of the handler that fails, by the name of its call.
Call(p) == IF handler[p].pc = "limit" THEN "throttle" ELSE handler[p].pc

\* A failing call is answered 429 or 500, except that the peek's error is
\* swallowed and the duplicate answered as usual.
FailCall(p) ==
  /\ handler[p].pc # Idle /\ Call(p) \in Faults /\ faults < MaxFaults
  /\ faults' = faults + 1
  /\ IF handler[p].pc = "peek" THEN Done(p) /\ UNCHANGED <<charge, log, alerted>>
     ELSE Refuse(p)

\* The process dies; the PSP sees no answer.
Crash(p) ==
  /\ handler[p].pc # Idle /\ "crash" \in Faults /\ faults < MaxFaults
  /\ faults' = faults + 1
  /\ Refuse(p)

-----------------------------------------------------------------------------

Init ==
  /\ charge \in [Txids -> {"none", "pending"}]
  /\ log = {}
  /\ notice = [e \in Events |-> "none"]
  /\ handler = [p \in Procs |-> NotHandling]
  /\ alerted = {}
  /\ faults = 0

Step(p) == Limit(p) \/ Record(p) \/ Peek(p) \/ GetByExternalID(p) \/ Forget(p) \/ Save(p)

Next ==
  \/ \E x \in Txids : SaveNewCharge(x)
  \/ \E e \in Events : Notify(e)
  \/ \E p \in Procs, e \in Events : Receive(p, e)
  \/ \E p \in Procs : Step(p) \/ FailCall(p) \/ Crash(p)

Spec == Init /\ [][Next]_vars

\* A running handler takes its next step, and the PSP delivers an event again
\* and again until it is acknowledged.
FairSpec ==
  /\ Spec
  /\ \A p \in Procs : WF_vars(Step(p))
  /\ \A e \in Events : SF_vars(\E p \in Procs : Receive(p, e))

-----------------------------------------------------------------------------
(* Properties.                                                             *)

PCs == {Idle, "limit", "record", "peek", "get", "forget", "save"}
Requests == [pc : PCs, events : Seq(Events), body : Seq(Events), next : Terminal \cup {"none"}]

\* Every variable keeps its shape, and a running request has an event at hand.
TypeOK ==
  /\ charge \in [Txids -> Terminal \cup {"none", "pending"}]
  /\ log \subseteq Events
  /\ notice \in [Events -> {"none", "due", "acked"}]
  /\ handler \in [Procs -> Requests]
  /\ \A p \in Procs : handler[p].pc # Idle => handler[p].events # <<>>
  /\ alerted \subseteq Txids
  /\ faults \in Nat

Applying(p) == handler[p].pc \in {"get", "forget", "save"}

\* The dedup row is a lock: of all requests that carry an event at most one
\* is past Record with it, and the row is there while it is, so that one
\* event never transitions a charge twice (AC #1 of the reconciler).
OneApplierPerEvent ==
  \A p \in Procs : Applying(p) =>
    /\ Event(p) \in log
    /\ \A q \in Procs : Applying(q) /\ Event(q) = Event(p) => q = p

InFlight(e) ==
  \E p \in Procs : \E i \in DOMAIN handler[p].events : handler[p].events[i] = e

\* Answering a duplicate with 200 is safe: a charge whose event has been
\* acknowledged to the PSP and is in nobody's hands any more is settled.
AckedMeansApplied ==
  \A e \in Events :
    notice[e] = "acked" /\ ~InFlight(e) /\ charge[e[1]] # "none" => charge[e[1]] # "pending"

\* When the rows of all charges a request may carry exist, a due payment is in
\* the end applied or reported as stuck, whatever crashed or could not be
\* saved.  (A charge that is unknown fails the whole request, and with it the
\* payments listed behind it.)
PaidOrAlerted ==
  [](\A y \in Txids : charge[y] # "none") =>
    \A x \in Txids :
      notice[<<x, "paid">>] = "due" ~> charge[x] = "paid" \/ x \in alerted
=============================================================================
