-------------------------- MODULE OutboxGatewayProofs --------------------------
(***************************************************************************)
(* What the outbox still guarantees next to a process that discards        *)
(* records by their bare id, for every instance.                           *)
(***************************************************************************)
EXTENDS OutboxGateway, OrderOutboxProofs

USE DEF Actors

--------------------------------------------------------------------------------
(* The gateway's own steps *)

LEMMA DiscardTyped ==
  ASSUME TInv, Discard
  PROVE  TInv'
<1>1. /\ \A i \in Intents : queue'[i] = NoRec \/ queue'[i] = queue[i]
      /\ queue' \in [Intents -> Records \cup {NoRec}]
  BY DEF Discard, TInv, TypeOK
<1>2. TypeOK'
  BY <1>1 DEF Discard, TInv, TypeOK
<1>3. OrdersSane' /\ AcceptedHasOrder'
  BY <1>1 DEF Discard, TInv, OrdersSane, AcceptedHasOrder, Queued
<1>4. JobHeld'
  BY DEF Discard, TInv, JobHeld
<1>5. SnapshotsAgree'
  BY <1>1 DEF Discard, TInv, SnapshotsAgree, Matches
<1> QED BY <1>2, <1>3, <1>4, <1>5 DEF TInv

LEMMA DiscardFences ==
  ASSUME TInv, DInv, Discard, doomed \subseteq Intents
  PROVE  DInv'
<1>1. TInv'
  BY DiscardTyped
<1>2. CASE Actors = {}
  <2>1. queue' \in [Intents -> Records \cup {NoRec}] /\ UNCHANGED <<todo, stage, job, held, plan>>
    BY <1>1 DEF Discard, TInv, TypeOK
  <2> QED BY <1>1, <1>2, <2>1, NoActorsStep DEF SafeStep, Discard, Queued
<1>3. ASSUME NEW a \in Actors
      PROVE  DInv'
  BY <1>1, DropRecordsStep DEF Discard, SafeStep
<1> QED BY <1>2, <1>3

--------------------------------------------------------------------------------
(* Typing and dispatch under the gateway *)

GInv == TInv /\ doomed \subseteq Intents

LEMMA GInvInit == GatewayInit => GInv
BY TInvInit DEF GatewayInit, GInv

LEMMA GInvNext == GInv /\ [GatewayNext]_gatewayVars => GInv'
<1> SUFFICES ASSUME GInv, [GatewayNext]_gatewayVars
             PROVE  GInv'
  OBVIOUS
<1>1. CASE Next /\ UNCHANGED doomed
  BY <1>1, TInvNext DEF GInv
<1>2. ASSUME NEW ids \in SUBSET Intents, Choose(ids)
      PROVE  GInv'
  BY <1>2, TInvNext DEF GInv, Choose
<1>3. CASE Discard
  BY <1>3, DiscardTyped DEF GInv, Discard
<1>4. CASE GiveUpDiscard
  BY <1>4, TInvNext DEF GInv, GiveUpDiscard
<1>5. CASE UNCHANGED gatewayVars
  <2>1. UNCHANGED vars /\ doomed' = doomed
    BY <1>5 DEF gatewayVars, vars
  <2> QED BY <2>1, TInvNext DEF GInv
<1> QED BY <1>1, <1>2, <1>3, <1>4, <1>5 DEF GatewayNext

\* No discard, however stale, breaks the shape of the queue file.
THEOREM GatewayTyping == GatewaySpec => []GatewayTypeOK
<1>1. GInv => GatewayTypeOK
  BY DEF GInv, TInv, GatewayTypeOK
<1> QED BY GInvInit, GInvNext, <1>1, PTL DEF GatewaySpec

LEMMA GatewayDInvNext ==
  ASSUME OneAtATime
  PROVE  GInv /\ DInv /\ [GatewayNext]_gatewayVars => DInv'
<1> SUFFICES ASSUME GInv, DInv, [GatewayNext]_gatewayVars
             PROVE  DInv'
  OBVIOUS
<1>1. CASE [Next]_vars
  BY <1>1, TInvNext, DInvNext DEF GInv, SafeStep
<1>2. CASE Discard
  BY <1>2, DiscardFences DEF GInv
<1> QED BY <1>1, <1>2 DEF GatewayNext, Choose, GiveUpDiscard, gatewayVars, vars

\* A stale discard opens no second way to the venue: also next to the gateway no
\* two processes are past their last fence for one client order id.
THEOREM GatewayOneDispatcher ==
  ASSUME OneAtATime
  PROVE  GatewaySpec => []SingleDispatcher
<1>1. GatewayInit => GInv /\ DInv
  BY GInvInit, DInvInit DEF GatewayInit
<1>2. GInv /\ DInv /\ [GatewayNext]_gatewayVars => GInv' /\ DInv'
  BY GInvNext, GatewayDInvNext
<1>3. DInv => SingleDispatcher
  BY DEF DInv
<1> QED BY <1>1, <1>2, <1>3, PTL DEF GatewaySpec

--------------------------------------------------------------------------------
(* Discards are final *)

\* No record, no request and nobody past the last fence.
Gone(i) == i \notin todo /\ queue[i] = NoRec /\ ~InFlight(i)

StaysGone(i) == queue'[i] = NoRec /\ ~InFlight(i)' /\ AllOrdersOf(i)' = AllOrdersOf(i)

\* Nobody passes a fence for i, and nothing is sent.
NoDispatch(i) ==
  /\ wire' \subseteq wire
  /\ \A a \in Actors :
       stage'[a] \in {"refused", "cleared"} /\ job'[a] = i
         => stage[a] \in {"refused", "cleared"} /\ job[a] = i

LEMMA NoDispatchStays ==
  ASSUME NEW i \in Intents, Gone(i), NoDispatch(i), queue'[i] = NoRec, orders' = orders
  PROVE  StaysGone(i)
BY DEF Gone, NoDispatch, StaysGone, InFlight, AllOrdersOf

\* A fenced write finds no match for a record that is gone.
LEMMA WriteGone ==
  ASSUME NEW i \in Intents, Gone(i), NEW j, NEW s, NEW new, Write(j, s, new)
  PROVE  queue'[i] = NoRec
BY DEF Gone, Write, Matches

LEMMA ResumeQuiet ==
  ASSUME TInv, NEW i \in Intents, NEW a \in Actors, Resume(a), wire' = wire
  PROVE  NoDispatch(i)
BY DEF TInv, TypeOK, Resume, NoDispatch

LEMMA AdmitGone ==
  ASSUME NEW i \in Intents, NEW q, q[i] = NoRec, NEW j \in Intents, j # i, NEW r,
         q \in [Intents -> Records \cup {NoRec}], Admit(q, j, r)
  PROVE  queue'[i] = NoRec
BY DEF Admit

LEMMA ProducerLeavesGone ==
  ASSUME TInv, NEW i \in Intents, Gone(i), NEW p \in Producers, ProducerStep(p)
  PROVE  StaysGone(i)
<1>0. /\ queue \in [Intents -> Records \cup {NoRec}] /\ stage \in [Actors -> Stages]
      /\ job \in [Actors -> Intents \cup {NoIntent}]
  BY DEF TInv, TypeOK
<1>1. ASSUME NEW j \in Intents, Persist(p, j)
      PROVE  StaysGone(i)
  <2>1. j # i /\ queue'[i] = NoRec
    BY <1>0, <1>1, AdmitGone DEF Persist, Gone
  <2>2. NoDispatch(i)
    BY <1>0, <1>1 DEF Persist, NoDispatch
  <2> QED BY <1>1, <2>1, <2>2, NoDispatchStays DEF Persist
<1>2. ASSUME NEW j \in Intents, RefuseEarly(p, j)
      PROVE  StaysGone(i)
  <2>1. NoDispatch(i)
    BY <1>0, <1>2 DEF RefuseEarly, NoDispatch, Gone
  <2> QED BY <1>2, <2>1, NoDispatchStays DEF RefuseEarly, Gone
<1>3. CASE EnqueueRefused(p)
  <2>1. job[p] \in Intents /\ job[p] # i
    BY <1>3 DEF EnqueueRefused, TInv, JobHeld, WithSnapshot, Gone, InFlight
  <2>2. queue'[i] = NoRec
    <3> DEFINE gone == IF why[p] \in Consolidated THEN Superseded(job[p]) ELSE {}
               q == [j \in Intents |-> IF j \in gone THEN NoRec ELSE queue[j]]
               r == NewRecord("none", why[p], why[p] \in Deferrals \cup Consolidated,
                              NoToken, Nobody)
    <3>1. q \in [Intents -> Records \cup {NoRec}] /\ q[i] = NoRec
      BY <1>0 DEF Gone
    <3>2. Admit(q, job[p], r) \/ queue' = queue
      BY <1>3 DEF EnqueueRefused
    <3> HIDE DEF q, r
    <3> QED BY <2>1, <3>1, <3>2, AdmitGone DEF Gone
  <2>3. NoDispatch(i)
    BY <1>0, <1>3 DEF EnqueueRefused, NoDispatch
  <2> QED BY <1>3, <2>2, <2>3, NoDispatchStays DEF EnqueueRefused
<1>4. CASE BeginProducer(p)
  <2>1. queue'[i] = NoRec
    BY <1>0, <1>4 DEF BeginProducer, Gone, Matches
  <2>2. NoDispatch(i)
    BY <1>0, <1>4, ResumeQuiet DEF BeginProducer, NoDispatch, Gone, Matches
  <2> QED BY <1>4, <2>1, <2>2, NoDispatchStays DEF BeginProducer
<1> QED BY <1>1, <1>2, <1>3, <1>4 DEF ProducerStep

LEMMA RecordLeavesGone ==
  ASSUME TInv, NEW i \in Intents, Gone(i), NEW w \in Workers, NEW j \in Intents,
         RecordStep(w, j)
  PROVE  StaysGone(i)
<1>0. /\ queue \in [Intents -> Records \cup {NoRec}] /\ stage \in [Actors -> Stages]
      /\ job \in [Actors -> Intents \cup {NoIntent}]
  BY DEF TInv, TypeOK
<1>1. queue' = queue \/ \E s, new : Write(j, s, new)
  BY DEF RecordStep, AdoptLive, Quarantine, SettleOrder, ObserveOrder, LookupFound, Wait,
         Release, Clear
<1>2. queue'[i] = NoRec
  BY <1>1, WriteGone DEF Gone
<1>3. CASE Clear(w, j)
  <2>1. NoDispatch(i)
    BY <1>0, <1>3 DEF Clear, NoDispatch
  <2> QED BY <1>2, <1>3, <2>1, NoDispatchStays DEF Clear
<1>4. CASE ~Clear(w, j)
  <2>1. UNCHANGED <<stage, job, wire, orders>>
    BY <1>4 DEF RecordStep, AdoptLive, Quarantine, SettleOrder, ObserveOrder, LookupFound, Wait
  <2> QED BY <1>2, <2>1, NoDispatchStays DEF NoDispatch
<1> QED BY <1>3, <1>4

LEMMA WorkerLeavesGone ==
  ASSUME TInv, NEW i \in Intents, Gone(i), NEW w \in Workers, WorkerStep(w)
  PROVE  StaysGone(i)
<1>0. /\ queue \in [Intents -> Records \cup {NoRec}] /\ stage \in [Actors -> Stages]
      /\ job \in [Actors -> Intents \cup {NoIntent}]
  BY DEF TInv, TypeOK
<1>1. ASSUME NEW due \in SUBSET Intents, Scan(w, due)
      PROVE  StaysGone(i)
  <2>1. NoDispatch(i)
    BY <1>0, <1>1 DEF Scan, NoDispatch
  <2> QED BY <1>1, <2>1, NoDispatchStays DEF Scan, Gone
<1>2. CASE Consolidate(w) \/ \E j \in Intents : Expire(w, j)
  <2>1. queue'[i] = NoRec
    BY <1>0, <1>2 DEF Consolidate, Expire, Gone
  <2>2. NoDispatch(i) /\ orders' = orders
    BY <1>2 DEF Consolidate, Expire, NoDispatch
  <2> QED BY <2>1, <2>2, NoDispatchStays
<1>3. CASE Claim(w)
  <2>1. queue'[i] = NoRec
    BY <1>3 DEF Claim, Queued, Gone
  <2>2. NoDispatch(i)
    BY <1>0, <1>3 DEF Claim, NoDispatch
  <2> QED BY <1>3, <2>1, <2>2, NoDispatchStays DEF Claim
<1>4. CASE BeginWorker(w)
  <2>1. queue'[i] = NoRec
    BY <1>0, <1>4 DEF BeginWorker, Gone, Matches
  <2>2. NoDispatch(i)
    BY <1>0, <1>4, ResumeQuiet DEF BeginWorker, NoDispatch
  <2> QED BY <1>4, <2>1, <2>2, NoDispatchStays DEF BeginWorker
<1>5. CASE SyncQty(w)
  <2>1. queue'[i] = NoRec
    BY <1>0, <1>5 DEF SyncQty, Gone, Matches
  <2>2. NoDispatch(i)
    BY <1>0, <1>5, ResumeQuiet DEF SyncQty, NoDispatch, Gone, Matches
  <2> QED BY <1>5, <2>1, <2>2, NoDispatchStays DEF SyncQty
<1>6. CASE LookupAfter(w)
  <2>1. queue'[i] = NoRec
    BY <1>6, WriteGone DEF LookupAfter
  <2>2. NoDispatch(i)
    BY <1>6, ResumeQuiet DEF LookupAfter
  <2> QED BY <1>6, <2>1, <2>2, NoDispatchStays DEF LookupAfter
<1>7. CASE EndPass(w)
  <2>1. NoDispatch(i)
    BY <1>0, <1>7 DEF EndPass, NoDispatch
  <2> QED BY <1>7, <2>1, NoDispatchStays DEF EndPass, Gone
<1> QED BY <1>1, <1>2, <1>3, <1>4, <1>5, <1>6, <1>7, RecordLeavesGone DEF WorkerStep, PassStep

LEMMA DispatchLeavesGone ==
  ASSUME TInv, NEW i \in Intents, Gone(i), NEW a \in Actors, DispatchStep(a)
  PROVE  StaysGone(i)
<1>0. /\ stage \in [Actors -> Stages] /\ job \in [Actors -> Intents \cup {NoIntent}]
  BY DEF TInv, TypeOK
<1>1. CASE RefuseLate(a) \/ ReturnAccepted(a)
  <2>1. queue'[i] = NoRec
    BY <1>1, WriteGone DEF RefuseLate, ReturnAccepted
  <2>2. NoDispatch(i)
    BY <1>1, ResumeQuiet DEF RefuseLate, ReturnAccepted
  <2> QED BY <1>1, <2>1, <2>2, NoDispatchStays DEF RefuseLate, ReturnAccepted
<1>2. CASE ReturnUnknown(a)
  <2>1. queue'[i] = NoRec
    BY <1>2, WriteGone DEF ReturnUnknown, Gone
  <2>2. NoDispatch(i)
    BY <1>0, <1>2, ResumeQuiet DEF ReturnUnknown, NoDispatch
  <2> QED BY <1>2, <2>1, <2>2, NoDispatchStays DEF ReturnUnknown
<1>3. CASE Send(a)
  <2>1. job[a] # i
    BY <1>3 DEF Send, Gone, InFlight
  <2>2. ~InFlight(i)'
    BY <1>0, <1>3, <2>1 DEF Send, Gone, InFlight
  <2> QED BY <1>3, <2>2 DEF Send, Gone, StaysGone, AllOrdersOf
<1> QED BY <1>1, <1>2, <1>3 DEF DispatchStep

LEMMA FailureLeavesGone ==
  ASSUME TInv, NEW i \in Intents, Gone(i),
         \/ \E a \in Actors : Abandon(a) \/ Crash(a)
         \/ \E j \in Intents : Lapse(j) \/ ResolveAccepted(j)
  PROVE  StaysGone(i)
<1>0. /\ queue \in [Intents -> Records \cup {NoRec}] /\ stage \in [Actors -> Stages]
      /\ job \in [Actors -> Intents \cup {NoIntent}]
  BY DEF TInv, TypeOK
<1>1. queue'[i] = NoRec
  BY <1>0 DEF Abandon, Crash, Lapse, ResolveAccepted, Queued, Gone
<1>2. NoDispatch(i) /\ orders' = orders
  BY <1>0 DEF Abandon, Crash, Lapse, ResolveAccepted, Forget, NoDispatch
<1> QED BY <1>1, <1>2, NoDispatchStays

LEMMA SameOrders ==
  ASSUME NEW i \in Intents, NEW o \in Oids, NEW r \in Orders,
         orders \in [Oids -> Orders \cup {NoOrder}], orders[o] # NoOrder,
         orders' = [orders EXCEPT ![o] = r], r.intent = orders[o].intent
  PROVE  AllOrdersOf(i)' = AllOrdersOf(i)
BY NullsAssumption DEF AllOrdersOf

LEMMA VenueLeavesGone ==
  ASSUME TInv, NEW i \in Intents, Gone(i), VenueStep
  PROVE  StaysGone(i)
<1>0. orders \in [Oids -> Orders \cup {NoOrder}] /\ wire \subseteq Requests
  BY DEF TInv, TypeOK
<1>1. queue' = queue /\ stage' = stage /\ job' = job /\ wire' \subseteq wire
  BY DEF VenueStep, Accept, Lose, Fill, CancelOrder, ExpireOrder
<1>2. ~InFlight(i)'
  BY <1>1 DEF Gone, InFlight
<1>3. ASSUME NEW m \in wire, Accept(m)
      PROVE  AllOrdersOf(i)' = AllOrdersOf(i)
  <2>1. m.intent # i
    BY DEF Gone, InFlight
  <2>2. PICK o \in Oids :
          /\ orders[o] = NoOrder
          /\ orders' = [orders EXCEPT ![o] = [intent |-> m.intent, rev |-> m.rev,
                                              qty |-> m.qty, filled |-> 0,
                                              status |-> "open"]]
    BY <1>3 DEF Accept
  <2> QED BY <1>0, <2>1, <2>2 DEF AllOrdersOf
<1>4. ASSUME NEW m \in wire, Lose(m)
      PROVE  AllOrdersOf(i)' = AllOrdersOf(i)
  BY <1>4 DEF Lose, AllOrdersOf
<1>5. ASSUME NEW o \in Oids,
             CancelOrder(o) \/ ExpireOrder(o) \/ \E n \in 1..Qty : Fill(o, n)
      PROVE  AllOrdersOf(i)' = AllOrdersOf(i)
  <2>1. orders[o] \in Orders /\ orders[o] # NoOrder
    BY <1>0, <1>5 DEF CancelOrder, ExpireOrder, Fill, Open
  <2>2. CASE CancelOrder(o) \/ ExpireOrder(o)
    <3>1. PICK status \in {"canceled", "expired"} :
            orders' = [orders EXCEPT ![o].status = status]
      BY <2>2 DEF CancelOrder, ExpireOrder
    <3> QED BY <1>0, <2>1, <3>1, SameOrders DEF Orders
  <2>3. ASSUME NEW n \in 1..Qty, Fill(o, n)
        PROVE  AllOrdersOf(i)' = AllOrdersOf(i)
    <3>1. PICK status \in {"closed", "open"} :
            orders' = [orders EXCEPT ![o].filled = @ + n, ![o].status = status]
      BY <2>3 DEF Fill
    <3>2. orders[o].filled + n \in Nat
      BY <2>1, QtyAssumption DEF Orders
    <3> QED BY <1>0, <2>1, <3>1, <3>2, SameOrders DEF Orders
  <2> QED BY <1>5, <2>2, <2>3
<1> QED BY <1>1, <1>2, <1>3, <1>4, <1>5 DEF VenueStep, StaysGone, Gone

LEMMA NextLeavesGone ==
  ASSUME TInv, [Next]_vars, NEW i \in Intents, Gone(i)
  PROVE  StaysGone(i)
<1>1. CASE UNCHANGED vars
  BY <1>1 DEF vars, Gone, StaysGone, InFlight, AllOrdersOf
<1> QED BY <1>1, ProducerLeavesGone, WorkerLeavesGone, DispatchLeavesGone,
           FailureLeavesGone, VenueLeavesGone DEF Next

\* A discarded intent stays discarded: no snapshot, plan or late completion brings
\* its record back, and none of its orders follows.
THEOREM DiscardsAreFinal == GatewaySpec => DiscardIsFinal
<1>1. ASSUME GInv, [GatewayNext]_gatewayVars, NEW i \in Intents, Gone(i)
      PROVE  StaysGone(i)
  <2>1. CASE [Next]_vars
    BY <1>1, <2>1, NextLeavesGone DEF GInv
  <2>2. CASE Discard
    BY <1>1, <2>2 DEF Discard, Gone, StaysGone, InFlight, AllOrdersOf
  <2> QED BY <1>1, <2>1, <2>2 DEF GatewayNext, Choose, GiveUpDiscard, gatewayVars, vars
<1>2. GInv /\ [GatewayNext]_gatewayVars =>
        [\A i \in Intents \ (todo \cup Queued) :
           ~InFlight(i) =>
             /\ queue'[i] = NoRec
             /\ ~InFlight(i)'
             /\ AllOrdersOf(i)' = AllOrdersOf(i)]_gatewayVars
  BY <1>1 DEF Gone, StaysGone, Queued
<1> QED BY GInvInit, GInvNext, <1>2, PTL DEF GatewaySpec, DiscardIsFinal

================================================================================
