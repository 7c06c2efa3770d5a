------------------------------ MODULE Inbound ------------------------------
(***************************************************************************)
(* The inbound message path: a carrier's webhook handler (WhatsApp), the   *)
(* ReceiveInbound use case with the contact upsert it calls, the inbox and *)
(* contact tables it writes, and the operator closing and reopening        *)
(* threads meanwhile.                                                      *)
(*                                                                         *)
(* Every database call is a transaction of its own and one step here.  The *)
(* carrier delivers a message at least once, in any order, and to several  *)
(* handlers at a time; the HTTP answer is 200 whatever Execute returns.    *)
(***************************************************************************)
EXTENDS Naturals, Sequences, FiniteSets, FiniteSetsExt

CONSTANTS Handlers,       \* webhook requests being served at a time
          Messages,       \* the carrier's message ids (wamid)
          Tenants, Senders,
          TenantOf,       \* the tenant whose number a message was sent to
          SenderOf,       \* the sender's external id
          OccurredAt,     \* the carrier's timestamp of the message
          Faults,         \* the steps that may fail
          MaxFaults,      \* bound: failures per behaviour
          MaxDeliveries,  \* bound: deliveries of one message
          MaxToggles      \* bound: closes and reopens per behaviour

ASSUME InboundAssumption ==
  /\ TenantOf \in [Messages -> Tenants] /\ SenderOf \in [Messages -> Senders]
  /\ OccurredAt \in [Messages -> Nat \ {0}]
  /\ MaxFaults \in Nat /\ MaxDeliveries \in Nat /\ MaxToggles \in Nat

VARIABLES dedup,       \* inbound_message_dedup: absent, claimed or processed
          contacts,    \* contact rows with their channel identity, oldest first
          convs,       \* conversation rows, oldest first
          rows,        \* message rows, oldest first
          publisher,   \* whether an inbound publisher is wired (NATS is configured)
          published,   \* messages announced to the funnel engine
          handler,     \* the request each handler is serving
          deliveries,  \* deliveries of each message so far
          returned,    \* calls of Execute that have returned, per message
          toggles, faults

tables == <<dedup, contacts, convs, rows>>
carrier == <<deliveries, returned>>
funnel == <<publisher, published>>
vars == <<tables, funnel, handler, carrier, toggles, faults>>

Steps == {"claim", "find", "save", "refind", "findopen", "create",
          "insert", "mark", "publish"}

NoId == 0
NoTime == 0
Request(pc, m, contact, conv) ==
  [pc |-> pc, msg |-> {m}, contact |-> contact, conv |-> conv]
Idle == [pc |-> "idle", msg |-> {}, contact |-> NoId, conv |-> NoId]

\* The message a busy handler is serving.
Msg(h) == CHOOSE m \in handler[h].msg : TRUE
Goto(h, pc, contact, conv) ==
  handler' = [handler EXCEPT ![h] = Request(pc, Msg(h), contact, conv)]

\* Execute returns, with or without an error: the request is answered 200.
Return(h) ==
  /\ handler' = [handler EXCEPT ![h] = Idle]
  /\ returned' = [returned EXCEPT ![Msg(h)] = @ + 1]
  /\ UNCHANGED deliveries

Init ==
  /\ dedup = [m \in Messages |-> "absent"]
  /\ contacts = <<>> /\ convs = <<>> /\ rows = <<>>
  /\ publisher \in BOOLEAN /\ published = {}
  /\ handler = [h \in Handlers |-> Idle]
  /\ deliveries = [m \in Messages |-> 0]
  /\ returned = [m \in Messages |-> 0]
  /\ toggles = 0 /\ faults = 0

-----------------------------------------------------------------------------
(* The carrier's POST, past the signature, timestamp, tenant, rate and     *)
(* feature gates.                                                          *)

Deliver(h, m) ==
  /\ handler[h] = Idle
  /\ deliveries[m] < MaxDeliveries
  /\ deliveries' = [deliveries EXCEPT ![m] = @ + 1]
  /\ handler' = [handler EXCEPT ![h] = Request("claim", m, NoId, NoId)]
  /\ UNCHANGED <<tables, funnel, returned, toggles, faults>>

\* A gate drops the delivery (rate limit, feature flag, tenant lookup): it is
\* answered 200 and Execute is not called.
Drop(m) ==
  /\ "drop" \in Faults /\ faults < MaxFaults
  /\ deliveries[m] < MaxDeliveries
  /\ deliveries' = [deliveries EXCEPT ![m] = @ + 1]
  /\ faults' = faults + 1
  /\ UNCHANGED <<tables, funnel, handler, returned, toggles>>

-----------------------------------------------------------------------------
(* ReceiveInbound.Execute.                                                 *)

\* The claim is an upsert: it succeeds on a row that is already there.
ClaimUpsert(h) ==
  /\ handler[h].pc = "claim"
  /\ dedup' = [dedup EXCEPT ![Msg(h)] = IF @ = "absent" THEN "claimed" ELSE @]
  /\ Goto(h, "find", NoId, NoId)
  /\ UNCHANGED <<contacts, convs, rows, funnel, carrier, toggles, faults>>

\* A duplicate is announced again before it is answered.
ClaimAnnounces(h) ==
  /\ handler[h].pc = "claim"
  /\ IF dedup[Msg(h)] = "absent"
       THEN dedup' = [dedup EXCEPT ![Msg(h)] = "claimed"] /\ Goto(h, "find", NoId, NoId)
       ELSE Goto(h, "publish", NoId, NoId) /\ UNCHANGED dedup
  /\ UNCHANGED <<contacts, convs, rows, funnel, carrier, toggles, faults>>

\* INSERT into the dedup ledger; a unique violation is a duplicate, answered
\* with no error.
Claim(h) ==
  /\ handler[h].pc = "claim"
  /\ \/ /\ dedup[Msg(h)] = "absent"
        /\ dedup' = [dedup EXCEPT ![Msg(h)] = "claimed"]
        /\ Goto(h, "find", NoId, NoId)
        /\ UNCHANGED carrier
     \/ /\ dedup[Msg(h)] # "absent"
        /\ Return(h)
        /\ UNCHANGED dedup
  /\ UNCHANGED <<contacts, convs, rows, funnel, toggles, faults>>

\* Lookup by external id alone, without the tenant scope.
IdentityAnyTenant(m) ==
  {i \in DOMAIN contacts : contacts[i].sender = SenderOf[m]}

\* The contacts the tenant's row-level security lets the lookup see.
Identity(m) ==
  {i \in DOMAIN contacts : contacts[i] = [sender |-> SenderOf[m], tenant |-> TenantOf[m]]}

FindByChannelIdentity(h) ==
  /\ handler[h].pc = "find"
  /\ LET found == Identity(Msg(h)) IN
       IF found = {} THEN Goto(h, "save", NoId, NoId)
                     ELSE Goto(h, "findopen", Max(found), NoId)
  /\ UNCHANGED <<tables, funnel, carrier, toggles, faults>>

\* INSERT of the contact and its identity; the identity is unique across all
\* tenants.
Save(h) ==
  /\ handler[h].pc = "save"
  /\ IF \E i \in DOMAIN contacts : contacts[i].sender = SenderOf[Msg(h)]
       THEN Goto(h, "refind", NoId, NoId) /\ UNCHANGED contacts
       ELSE /\ contacts' = Append(contacts, [sender |-> SenderOf[Msg(h)],
                                             tenant |-> TenantOf[Msg(h)]])
            /\ Goto(h, "findopen", Len(contacts'), NoId)
  /\ UNCHANGED <<dedup, convs, rows, funnel, carrier, toggles, faults>>

\* The loser of the insert race gives up.
RefindFails(h) ==
  /\ handler[h].pc = "refind"
  /\ Return(h)
  /\ UNCHANGED <<tables, funnel, toggles, faults>>

\* After a conflict: fetch the winner, or surface the conflict when the
\* identity belongs to another tenant.
Refind(h) ==
  /\ handler[h].pc = "refind"
  /\ LET found == Identity(Msg(h)) IN
       \/ found # {} /\ Goto(h, "findopen", Max(found), NoId) /\ UNCHANGED carrier
       \/ found = {} /\ Return(h)
  /\ UNCHANGED <<tables, funnel, toggles, faults>>

OpenConversations(contact) ==
  {c \in DOMAIN convs : convs[c].contact = contact /\ convs[c].state = "open"}

FindOpenConversation(h) ==
  /\ handler[h].pc = "findopen"
  /\ LET contact == handler[h].contact
         open == OpenConversations(contact) IN
       IF open = {} THEN Goto(h, "create", contact, NoId)
                    ELSE Goto(h, "insert", contact, Max(open))
  /\ UNCHANGED <<tables, funnel, carrier, toggles, faults>>

\* The new thread's id is not carried over to the message.
CreateForgetsId(h) ==
  /\ handler[h].pc = "create"
  /\ convs' = Append(convs, [contact |-> handler[h].contact, state |-> "open", last |-> NoTime])
  /\ Goto(h, "insert", handler[h].contact, NoId)
  /\ UNCHANGED <<dedup, contacts, rows, funnel, carrier, toggles, faults>>

\* The new thread has no leader: the composition roots build ReceiveInbound
\* without the leadership ports, and attributeInitialLead then does nothing.
CreateConversation(h) ==
  /\ handler[h].pc = "create"
  /\ convs' = Append(convs, [contact |-> handler[h].contact, state |-> "open", last |-> NoTime])
  /\ Goto(h, "insert", handler[h].contact, Len(convs'))
  /\ UNCHANGED <<dedup, contacts, rows, funnel, carrier, toggles, faults>>

\* last_message_at is set to the message's time.
BumpAlways(last, at) == at

\* GREATEST(COALESCE(last_message_at, at), at)
Bump(last, at) == Max({last, at})

SaveMessage(h) ==
  /\ handler[h].pc = "insert"
  /\ rows' = Append(rows, [msg |-> Msg(h), conv |-> handler[h].conv])
  /\ convs' = [convs EXCEPT ![handler[h].conv].last = Bump(@, OccurredAt[Msg(h)])]
  /\ Goto(h, "mark", handler[h].contact, handler[h].conv)
  /\ UNCHANGED <<dedup, contacts, funnel, carrier, toggles, faults>>

MarkProcessed(h) ==
  /\ handler[h].pc = "mark"
  /\ dedup' = [dedup EXCEPT ![Msg(h)] = "processed"]
  /\ Goto(h, "publish", handler[h].contact, handler[h].conv)
  /\ UNCHANGED <<contacts, convs, rows, funnel, carrier, toggles, faults>>

\* The announcement to the funnel engine, when a publisher is wired; an error
\* is logged and ignored.
PublishInboundMessage(h) ==
  /\ handler[h].pc = "publish"
  /\ published' = published \cup (IF publisher THEN {Msg(h)} ELSE {})
  /\ Return(h)
  /\ UNCHANGED <<tables, publisher, toggles, faults>>

-----------------------------------------------------------------------------
(* Failures.                                                               *)

\* The step's transaction fails or the delivery's deadline passes: Execute
\* returns the error (a failed publication is swallowed, to the same effect).
Fail(h) ==
  /\ handler[h].pc \in Steps \cap Faults
  /\ handler[h].pc = "publish" => publisher
  /\ faults < MaxFaults /\ faults' = faults + 1
  /\ Return(h)
  /\ UNCHANGED <<tables, funnel, toggles>>

\* The process dies with the request unanswered; the carrier will retry.
Crash(h) ==
  /\ handler[h] # Idle
  /\ "crash" \in Faults /\ faults < MaxFaults /\ faults' = faults + 1
  /\ handler' = [handler EXCEPT ![h] = Idle]
  /\ UNCHANGED <<tables, funnel, carrier, toggles>>

-----------------------------------------------------------------------------
(* The operator's Encerrar and Reabrir.                                    *)

SetConversationState(c, from, to) ==
  /\ convs[c].state = from /\ toggles < MaxToggles
  /\ convs' = [convs EXCEPT ![c].state = to]
  /\ toggles' = toggles + 1
  /\ UNCHANGED <<dedup, contacts, rows, funnel, handler, carrier, faults>>

CloseConversation(c) == SetConversationState(c, "open", "closed")
ReopenConversation(c) == SetConversationState(c, "closed", "open")

-----------------------------------------------------------------------------
Execute(h) ==
  \/ Claim(h) \/ FindByChannelIdentity(h) \/ Save(h) \/ Refind(h)
  \/ FindOpenConversation(h) \/ CreateConversation(h) \/ SaveMessage(h)
  \/ MarkProcessed(h) \/ PublishInboundMessage(h)

Next ==
  \/ \E h \in Handlers : Execute(h) \/ Fail(h) \/ Crash(h)
  \/ \E h \in Handlers, m \in Messages : Deliver(h, m)
  \/ \E m \in Messages : Drop(m)
  \/ \E c \in DOMAIN convs : CloseConversation(c) \/ ReopenConversation(c)

Spec == Init /\ [][Next]_vars

\* A request being served keeps running; nothing obliges the carrier.
FairSpec == Spec /\ \A h \in Handlers : WF_vars(Execute(h))

-----------------------------------------------------------------------------
(* Properties.                                                             *)

\* Every row refers to rows that exist, and a request past a lookup holds the
\* id the lookup gave it (the foreign keys of migration 0088).
TypeOK ==
  /\ dedup \in [Messages -> {"absent", "claimed", "processed"}]
  /\ \A i \in DOMAIN contacts : contacts[i] \in [sender : Senders, tenant : Tenants]
  /\ \A c \in DOMAIN convs :
       convs[c] \in [contact : DOMAIN contacts, state : {"open", "closed"},
                     last : {NoTime} \cup {OccurredAt[m] : m \in Messages}]
  /\ \A r \in DOMAIN rows : rows[r] \in [msg : Messages, conv : DOMAIN convs]
  /\ publisher \in BOOLEAN /\ published \subseteq (IF publisher THEN Messages ELSE {})
  /\ \A h \in Handlers :
       /\ handler[h] = Idle <=> handler[h].pc = "idle"
       /\ handler[h].pc \in Steps \cup {"idle"}
       /\ handler[h].pc \in {"findopen", "create", "insert", "mark"}
            => handler[h].contact \in DOMAIN contacts
       /\ handler[h].pc \in {"insert", "mark"}
            => handler[h].conv \in DOMAIN convs
  /\ deliveries \in [Messages -> 0..MaxDeliveries]
  /\ returned \in [Messages -> 0..MaxDeliveries]
  /\ toggles \in 0..MaxToggles /\ faults \in 0..MaxFaults

Stored(m) == {r \in DOMAIN rows : rows[r].msg = m}

\* However often the carrier delivers a message, and to however many handlers
\* at once, it becomes one message row at most: the unique dedup row decides.
StoredOnce == \A m \in Messages : Cardinality(Stored(m)) <= 1

\* A message is stored in a thread of the tenant it was sent to and of the
\* contact that sent it, whichever handler won the contact insert.
StoredInOwnThread ==
  \A r \in DOMAIN rows :
    contacts[convs[rows[r].conv].contact] =
      [sender |-> SenderOf[rows[r].msg], tenant |-> TenantOf[rows[r].msg]]

\* A thread's last_message_at is the latest of its messages' timestamps, in
\* whatever order the carrier's deliveries were stored.
LastMessageIsLatest ==
  \A c \in DOMAIN convs :
    convs[c].last = Max({NoTime} \cup {OccurredAt[rows[r].msg] :
                                         r \in {q \in DOMAIN rows : rows[q].conv = c}})

\* The funnel engine hears only of messages that are stored and whose dedup
\* row is closed, so what it acts on can always be read back.
AnnouncedIsStored ==
  \A m \in published : Stored(m) # {} /\ dedup[m] = "processed"

\* The identity of the sender is held by another tenant: the unique key on
\* contact_channel_identity spans tenants.
HeldElsewhere(m) ==
  \E i \in DOMAIN contacts :
    contacts[i].sender = SenderOf[m] /\ contacts[i].tenant # TenantOf[m]

\* While nothing fails, a delivered message is eventually stored, and announced
\* to the funnel engine when a publisher is wired, whatever other deliveries
\* and the operator do meanwhile, unless its sender is already a contact of
\* another tenant (Execute).
DeliveredIsServed ==
  [](faults = 0) =>
    \A m \in Messages :
      deliveries[m] > 0 ~>
        \/ HeldElsewhere(m)
        \/ Stored(m) # {} /\ (publisher => m \in published)

\* The contract on ReceiveInbound (receive_inbound.go, lines 81-83): two calls
\* of Execute for one message leave exactly one message row.
TwoCallsStoreOne ==
  \A m \in Messages :
    returned[m] >= 2 /\ (\A h \in Handlers : handler[h].msg # {m})
      => Cardinality(Stored(m)) = 1
=============================================================================
