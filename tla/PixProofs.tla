------------------------------ MODULE PixProofs ------------------------------
(* The dedup row of webhook_events is a lock on the event, for any number  *)
(* of concurrent requests, charges and failures.                           *)
EXTENDS PixReconciler, SequenceTheorems, TLAPS

Inv == TypeOK /\ OneApplierPerEvent

\* No request is being handled at first.
LEMMA InitInv == Init => Inv
<1> SUFFICES ASSUME Init PROVE Inv OBVIOUS
<1>1. NotHandling \in Requests /\ NotHandling.pc = Idle
  BY DEF NotHandling, Handling, Requests, PCs
<1>2. TypeOK
  BY <1>1 DEF Init, TypeOK
<1>3. OneApplierPerEvent
  BY <1>1 DEF Init, OneApplierPerEvent, Applying, Idle
<1> QED BY <1>2, <1>3 DEF Inv

\* The event a running request is at, and what is left after it.
LEMMA AtEvent ==
  ASSUME TypeOK, NEW p \in Procs, handler[p].pc # Idle
  PROVE  /\ Event(p) \in Events
         /\ Txid(p) \in Txids
         /\ Tail(handler[p].events) \in Seq(Events)
         /\ Len(handler[p].events) > 1 => Tail(handler[p].events) # <<>>
<1>1. handler[p].events \in Seq(Events) /\ handler[p].events # <<>>
  BY DEF TypeOK, Requests
<1>2. Event(p) \in Events /\ Txid(p) \in Txids
  BY <1>1 DEF Event, Txid, Events
<1>3. /\ Tail(handler[p].events) \in Seq(Events)
      /\ Len(Tail(handler[p].events)) = Len(handler[p].events) - 1
      /\ Len(handler[p].events) \in Nat
  BY <1>1, HeadTailProperties, LenProperties
<1>4. \A n \in Nat : n > 1 => n - 1 # 0
  OBVIOUS
<1>5. Len(handler[p].events) > 1 => Tail(handler[p].events) # <<>>
  BY <1>3, <1>4
<1> QED BY <1>2, <1>3, <1>5

\* A request that takes no new dedup row, or gives its own up, and does not
\* enter the applying part keeps the lock discipline.
LEMMA LeaveStep ==
  ASSUME Inv, NEW p \in Procs, NEW h \in Requests,
         handler' = [handler EXCEPT ![p] = h],
         h.pc \in {Idle, "limit", "record", "peek"},
         h.pc # Idle => h.events # <<>>,
         log' = log \/ (Applying(p) /\ log' = log \ {Event(p)}),
         charge' \in [Txids -> Terminal \cup {"none", "pending"}],
         notice' \in [Events -> {"none", "due", "acked"}],
         alerted' \subseteq Txids, faults' \in Nat
  PROVE  Inv'
<1>1. TypeOK'
  BY DEF Inv, TypeOK
<1>2. ASSUME NEW q \in Procs, Applying(q)' PROVE q # p /\ Applying(q) /\ Event(q)' = Event(q)
  BY <1>2 DEF Inv, TypeOK, Applying, Event, Idle
<1>3. ASSUME NEW q \in Procs, Applying(q)' PROVE Event(q)' \in log'
  BY <1>2, <1>3 DEF Inv, OneApplierPerEvent
<1>4. OneApplierPerEvent'
  BY <1>2, <1>3 DEF Inv, OneApplierPerEvent
<1> QED BY <1>1, <1>4 DEF Inv

\* Going on with the next event, or answering 200, is such a step.
LEMMA DoneStep ==
  ASSUME Inv, NEW p \in Procs, handler[p].pc # Idle, Done(p), log' = log,
         charge' \in [Txids -> Terminal \cup {"none", "pending"}],
         alerted' \subseteq Txids, faults' \in Nat
  PROVE  Inv'
<1>0. handler[p] \in Requests /\ notice \in [Events -> {"none", "due", "acked"}]
  BY DEF Inv, TypeOK
<1>1. CASE Len(handler[p].events) > 1
  <2> DEFINE h == [handler[p] EXCEPT !.pc = "limit", !.events = Tail(@)]
  <2>1. h \in Requests /\ h.pc = "limit" /\ h.events # <<>>
    BY <1>0, <1>1, AtEvent DEF Inv, Requests, PCs
  <2>2. handler' = [handler EXCEPT ![p] = h] /\ notice' = notice
    BY <1>1 DEF Done, Inv, TypeOK
  <2> HIDE DEF h
  <2> QED BY <1>0, <2>1, <2>2, LeaveStep
<1>2. CASE ~(Len(handler[p].events) > 1)
  <2>1. NotHandling \in Requests /\ NotHandling.pc = Idle
    BY DEF NotHandling, Handling, Requests, PCs
  <2>2. handler' = [handler EXCEPT ![p] = NotHandling]
    BY <1>2 DEF Done
  <2>3. notice' \in [Events -> {"none", "due", "acked"}]
    BY <1>0, <1>2 DEF Done
  <2> QED BY <2>1, <2>2, <2>3, LeaveStep
<1> QED BY <1>1, <1>2

\* Answering an error is one, too.
LEMMA RefuseStep ==
  ASSUME Inv, NEW p \in Procs, handler' = [handler EXCEPT ![p] = NotHandling],
         log' = log \/ (Applying(p) /\ log' = log \ {Event(p)}),
         UNCHANGED <<charge, notice, alerted>>, faults' \in Nat
  PROVE  Inv'
<1>1. NotHandling \in Requests /\ NotHandling.pc = Idle
  BY DEF NotHandling, Handling, Requests, PCs
<1> QED BY <1>1, LeaveStep DEF Inv, TypeOK

\* A request that is past Record already moves on with its row in the log.
LEMMA AdvanceStep ==
  ASSUME Inv, NEW p \in Procs, Applying(p), NEW h \in Requests,
         handler' = [handler EXCEPT ![p] = h], h.events = handler[p].events,
         UNCHANGED <<charge, log, notice, alerted, faults>>
  PROVE  Inv'
<1>1. TypeOK'
  BY DEF Inv, TypeOK, Applying, Idle
<1>2. ASSUME NEW q \in Procs, Applying(q)' PROVE Applying(q) /\ Event(q)' = Event(q)
  BY <1>2 DEF Inv, TypeOK, Applying, Event
<1>3. OneApplierPerEvent'
  BY <1>2 DEF Inv, OneApplierPerEvent
<1> QED BY <1>1, <1>3 DEF Inv

\* Record is the one way in, and the UNIQUE row lets one request through.
LEMMA RecordStep ==
  ASSUME Inv, NEW p \in Procs, Record(p)
  PROVE  Inv'
<1>0. handler[p].pc # Idle /\ Event(p) \in Events /\ handler[p] \in Requests
  BY AtEvent DEF Record, Idle, Inv, TypeOK
<1>1. CASE Event(p) \in log
  <2> DEFINE h == [handler[p] EXCEPT !.pc = "peek"]
  <2>1. h \in Requests /\ h.pc = "peek" /\ h.events # <<>>
    BY <1>0 DEF Requests, PCs, Inv, TypeOK
  <2>2. handler' = [handler EXCEPT ![p] = h] /\ log' = log
    BY <1>1 DEF Record, GoTo, Inv, TypeOK
  <2> HIDE DEF h
  <2> QED BY <2>1, <2>2, LeaveStep DEF Record, Inv, TypeOK
<1>2. CASE Event(p) \notin log
  <2> DEFINE h == [handler[p] EXCEPT !.pc = "get"]
  <2>1. h \in Requests /\ h.pc = "get" /\ h.events = handler[p].events /\ h.events # <<>>
    BY <1>0 DEF Requests, PCs, Inv, TypeOK
  <2>2. handler' = [handler EXCEPT ![p] = h]
    BY <1>2 DEF Record, GoTo, Inv, TypeOK
  <2> HIDE DEF h
  <2>3. log' = log \cup {Event(p)} /\ UNCHANGED <<charge, notice, alerted, faults>>
    BY DEF Record
  <2>4. TypeOK'
    BY <1>0, <2>1, <2>2, <2>3 DEF Inv, TypeOK
  <2>5. Event(p)' = Event(p)
    BY <2>1, <2>2 DEF Event, Inv, TypeOK
  <2>6. ASSUME NEW q \in Procs \ {p}
        PROVE  Applying(q)' = Applying(q) /\ Event(q)' = Event(q)
    BY <2>2 DEF Applying, Event, Inv, TypeOK
  <2>7. ASSUME NEW q \in Procs \ {p}, Applying(q) PROVE Event(q) \in log /\ Event(q) # Event(p)
    BY <1>2, <2>7 DEF Inv, OneApplierPerEvent
  <2>8. OneApplierPerEvent'
    BY <2>3, <2>5, <2>6, <2>7 DEF Inv, OneApplierPerEvent
  <2> QED BY <2>4, <2>8 DEF Inv
<1> QED BY <1>1, <1>2

\* Looking the charge up leads to Forget, to Save, or out.
LEMMA GetStep ==
  ASSUME Inv, NEW p \in Procs, GetByExternalID(p)
  PROVE  Inv'
<1>0. handler[p].pc # Idle /\ Applying(p) /\ handler[p] \in Requests /\ Event(p) \in Events
  BY AtEvent DEF GetByExternalID, Idle, Applying, Inv, TypeOK
<1>u. UNCHANGED <<charge, log, alerted, faults>>
  BY DEF GetByExternalID
<1>1. CASE GoTo(p, "forget") /\ UNCHANGED notice
  <2> DEFINE h == [handler[p] EXCEPT !.pc = "forget"]
  <2>1. h \in Requests /\ h.events = handler[p].events
    BY <1>0 DEF Requests, PCs
  <2>2. handler' = [handler EXCEPT ![p] = h]
    BY <1>1 DEF GoTo, Inv, TypeOK
  <2> HIDE DEF h
  <2> QED BY <1>0, <1>1, <1>u, <2>1, <2>2, AdvanceStep
<1>2. CASE handler' = [handler EXCEPT ![p] = NotHandling] /\ UNCHANGED notice
  BY <1>2, <1>u, RefuseStep DEF Inv, TypeOK
<1>3. ASSUME NEW n \in Terminal, UNCHANGED notice,
             handler' = [handler EXCEPT ![p].pc = "save", ![p].next = n]
      PROVE  Inv'
  <2> DEFINE h == [handler[p] EXCEPT !.pc = "save", !.next = n]
  <2>1. h \in Requests /\ h.events = handler[p].events
    BY <1>0 DEF Requests, PCs
  <2>2. handler' = [handler EXCEPT ![p] = h]
    BY <1>3 DEF Inv, TypeOK
  <2> HIDE DEF h
  <2> QED BY <1>0, <1>3, <1>u, <2>1, <2>2, AdvanceStep
<1>4. CASE Done(p)
  BY <1>0, <1>4, <1>u, DoneStep DEF Inv, TypeOK
<1>5. Event(p)[2] \in Terminal
  BY <1>0, PixAssumption DEF Events
<1>6. ApplyEvent(charge[Txid(p)], Event(p)[2]).changed =>
        ApplyEvent(charge[Txid(p)], Event(p)[2]).next = Event(p)[2]
  BY DEF ApplyEvent
<1> QED BY <1>1, <1>2, <1>3, <1>4, <1>5, <1>6 DEF GetByExternalID

\* Every step of the receiver, the PSP and the failures keeps the lock.
LEMMA NextInv == Inv /\ [Next]_vars => Inv'
<1> SUFFICES ASSUME Inv, [Next]_vars PROVE Inv' OBVIOUS
<1>0. TypeOK BY DEF Inv
<1>1. ASSUME NEW x \in Txids, SaveNewCharge(x) PROVE Inv'
  BY <1>1 DEF SaveNewCharge, Inv, TypeOK, OneApplierPerEvent, Applying, Event
<1>2. ASSUME NEW e \in Events, Notify(e) PROVE Inv'
  BY <1>2 DEF Notify, Inv, TypeOK, OneApplierPerEvent, Applying, Event
<1>3. ASSUME NEW p \in Procs, NEW e \in Events, Receive(p, e) PROVE Inv'
  <2>1. PICK b \in Batches : /\ \E i \in DOMAIN b : b[i] = e
                             /\ handler' = [handler EXCEPT ![p] = Handling("limit", b, b, "none")]
    BY <1>3 DEF Receive
  <2>2. b \in Seq(Events) /\ b # <<>>
    BY <2>1 DEF Batches
  <2>3. Handling("limit", b, b, "none") \in Requests
    BY <2>2 DEF Handling, Requests, PCs
  <2>4. Handling("limit", b, b, "none").pc = "limit" /\ Handling("limit", b, b, "none").events = b
    BY DEF Handling
  <2> QED BY <1>0, <1>3, <2>1, <2>2, <2>3, <2>4, LeaveStep DEF Receive, TypeOK
<1>4. ASSUME NEW p \in Procs, Limit(p) PROVE Inv'
  <2> DEFINE h == [handler[p] EXCEPT !.pc = "record"]
  <2>1. h \in Requests /\ h.pc = "record" /\ h.events # <<>>
    BY <1>0, <1>4 DEF Limit, TypeOK, Requests, PCs, Idle
  <2>2. handler' = [handler EXCEPT ![p] = h]
    BY <1>0, <1>4 DEF Limit, GoTo, TypeOK
  <2> HIDE DEF h
  <2> QED BY <1>0, <1>4, <2>1, <2>2, LeaveStep DEF Limit, TypeOK
<1>5. ASSUME NEW p \in Procs, Record(p) PROVE Inv'
  BY <1>5, RecordStep
<1>6. ASSUME NEW p \in Procs, Peek(p) PROVE Inv'
  <2>1. handler[p].pc # Idle /\ Txid(p) \in Txids
    BY <1>0, <1>6, AtEvent DEF Peek, Idle
  <2> QED BY <1>0, <1>6, <2>1, DoneStep DEF Peek, TypeOK
<1>7. ASSUME NEW p \in Procs, GetByExternalID(p) PROVE Inv'
  BY <1>7, GetStep
<1>8. ASSUME NEW p \in Procs, Forget(p) PROVE Inv'
  BY <1>0, <1>8, RefuseStep DEF Forget, Applying, TypeOK
<1>9. ASSUME NEW p \in Procs, Save(p) PROVE Inv'
  <2>1. handler[p].pc # Idle /\ handler[p].next \in Terminal \cup {"none"}
    BY <1>0, <1>9 DEF Save, Idle, TypeOK, Requests
  <2>2. charge' \in [Txids -> Terminal \cup {"none", "pending"}]
    BY <1>0, <1>9, <2>1 DEF Save, TypeOK
  <2> QED BY <1>0, <1>9, <2>1, <2>2, DoneStep DEF Save, TypeOK
<1>10. ASSUME NEW p \in Procs, FailCall(p) \/ Crash(p) PROVE Inv'
  <2>1. handler[p].pc # Idle /\ faults' \in Nat
    BY <1>0, <1>10 DEF FailCall, Crash, TypeOK
  <2>2. CASE Refuse(p)
    BY <2>1, <2>2, RefuseStep DEF Refuse
  <2>3. CASE Done(p) /\ UNCHANGED <<charge, log, alerted>>
    BY <1>0, <2>1, <2>3, DoneStep DEF TypeOK
  <2> QED BY <1>10, <2>2, <2>3 DEF FailCall, Crash
<1>11. CASE UNCHANGED vars
  BY <1>11 DEF vars, Inv, TypeOK, OneApplierPerEvent, Applying, Event
<1> QED
  BY <1>1, <1>2, <1>3, <1>4, <1>5, <1>6, <1>7, <1>8, <1>9, <1>10, <1>11 DEF Next, Step

\* An event is applied by one request at a time, under its dedup row, in
\* every behaviour of the receiver.
THEOREM AppliedByOne == Spec => []OneApplierPerEvent
<1>1. Inv => OneApplierPerEvent
  BY DEF Inv
<1> QED BY InitInv, NextInv, <1>1, PTL DEF Spec
=============================================================================
