------------------------- MODULE ReplaceOrderProofs -------------------------
(***************************************************************************)
(* Cancel and replace, for any quantity, any number of orders, records,    *)
(* crashes and foreign cancels: the outbox never forgets an order that was *)
(* canceled for a replacement, nor an order that is open.  If nobody else  *)
(* cancels, repricing implements ReplacePromise.                           *)
(***************************************************************************)
EXTENDS ReplaceOrderInv, SetLemmas, SequenceTheorems

LEMMA Bounds ==
  /\ Qty \in Nat /\ MaxOrders \in Nat /\ MaxRecords \in Nat /\ MaxMishaps \in Nat
  /\ Qty >= 1 /\ MaxOrders >= 1
BY BoundAssumption

OrderSet == [of : Recs, rev : 0..MaxOrders, st : {"wire", "lost", "open"} \cup Ended,
             qty : 1..Qty, filled : 0..Qty]
RecSet == [life : {"unused", "awaiting", "pending", "accepted", "gone"},
           sub : {"refused", "claimed", "unknown"}, qty : 0..Qty,
           old : 0..MaxOrders, oid : 0..MaxOrders, rev : 0..MaxOrders,
           holder : Procs \cup {"none"}, leased : BOOLEAN,
           owner : Procs \cup {"none", "dead"}]
ProcSet == [at : {"idle", "listed", "resolve", "queued", "leased", "canceled",
                  "awaiting", "pending", "accepted", "active", "begun", "sent"},
            rec : Recs, oid : 0..MaxOrders, qty : 0..Qty, rev : 0..MaxOrders]

Typed ==
  /\ Len(orders) \in Nat /\ Len(orders) <= MaxOrders
  /\ Known = 1..Len(orders) /\ Known \subseteq Oids
  /\ \A k \in Known : orders[k] \in OrderSet
  /\ rec \in [Recs -> RecSet]
  /\ proc \in [Procs -> ProcSet]
  /\ excused \subseteq Oids /\ mishaps \in 0..MaxMishaps

LEMMA IdleIs == Idle \in ProcSet /\ Idle.at = "idle" /\ Idle.rec = 0
<1>1. 0 \in Recs /\ 0 \in 0..MaxOrders /\ 0 \in 0..Qty
  BY Bounds DEF Recs
<1> QED BY <1>1 DEF Idle, ProcSet

USE Bounds
USE DEF Procs

LEMMA Types == TypeOK => Typed
<1> SUFFICES ASSUME TypeOK PROVE Typed
  OBVIOUS
<1>1. orders \in Seq(OrderSet) /\ Len(orders) <= MaxOrders
  BY DEF TypeOK, OrderSet
<1>2. Len(orders) \in Nat /\ Known = 1..Len(orders)
  BY <1>1 DEF Known
<1>3. \A k \in Known : orders[k] \in OrderSet
  BY <1>1, <1>2
<1>4. rec \in [Recs -> RecSet] /\ proc \in [Procs -> ProcSet] /\ excused \subseteq Oids
      /\ mishaps \in 0..MaxMishaps
  BY DEF TypeOK, RecSet, ProcSet
<1> QED BY <1>1, <1>2, <1>3, <1>4 DEF Typed, Oids

LEMMA MinMaxOids ==
  ASSUME NEW S, S \subseteq Recs \/ S \subseteq Oids, S # {}
  PROVE  Min(S) \in S /\ Max(S) \in S
<1>1. PICK N \in Nat : S \subseteq 0..N
  BY DEF Recs, Oids
<1> QED BY <1>1, MinMaxIn

\* One order changes at the venue.
LEMMA OneOrderChanges ==
  ASSUME orders \in Seq(OrderSet), NEW k \in Known, NEW o \in OrderSet,
         orders' = [orders EXCEPT ![k] = o]
  PROVE  /\ orders' \in Seq(OrderSet) /\ Len(orders') = Len(orders) /\ Known' = Known
         /\ \A j \in Known : orders'[j] = IF j = k THEN o ELSE orders[j]
BY DEF Known

\* An order is sent.
LEMMA OneMoreOrder ==
  ASSUME orders \in Seq(OrderSet), NEW o \in OrderSet, orders' = Append(orders, o)
  PROVE  /\ orders' \in Seq(OrderSet) /\ Len(orders') = Len(orders) + 1
         /\ Known' = Known \cup {Len(orders) + 1} /\ Len(orders) + 1 \notin Known
         /\ orders'[Len(orders) + 1] = o
         /\ \A j \in Known : orders'[j] = orders[j]
BY DEF Known
--------------------------------------------------------------------------------
(* What the writes of a record do to Fits *)

Agrees(x, y) ==
  /\ y.life = x.life /\ y.sub = x.sub /\ y.qty = x.qty
  /\ y.old = x.old /\ y.oid = x.oid /\ y.rev = x.rev

\* A lease, its end, and a crash say nothing about the order.
LEMMA FitsSame ==
  ASSUME NEW r, NEW x, NEW y, Fits(r, x), Agrees(x, y)
  PROVE  Fits(r, y)
BY DEF Fits, Agrees

LEMMA UnusedIs ==
  /\ Unused \in RecSet /\ Unused.life = "unused" /\ Unused.sub = "refused" /\ Unused.qty = 0
  /\ Unused.old = 0 /\ Unused.oid = 0 /\ Unused.rev = 0 /\ Unused.holder = "none"
  /\ Unused.leased = FALSE /\ Unused.owner = "none"
BY DEF Unused, RecSet

LEMMA WritesAre ==
  ASSUME NEW x \in RecSet
  PROVE  /\ Unleased(x) \in RecSet /\ Agrees(x, Unleased(x))
         /\ Unleased(x).holder = "none" /\ Unleased(x).owner = x.owner
         /\ Refused(x) \in RecSet /\ Refused(x).sub = "refused" /\ Refused(x).holder = "none"
         /\ Refused(x).owner = "none" /\ Refused(x).life = x.life /\ Refused(x).qty = x.qty
         /\ Refused(x).old = x.old /\ Refused(x).oid = x.oid /\ Refused(x).rev = x.rev
         /\ Gone(x) \in RecSet /\ Gone(x).life = "gone" /\ Gone(x).old = x.old
         /\ Gone(x).rev = x.rev /\ Gone(x).holder = "none"
<1>1. /\ Unleased(x) \in RecSet /\ Agrees(x, Unleased(x))
      /\ Unleased(x).holder = "none" /\ Unleased(x).owner = x.owner
  BY DEF Unleased, RecSet, Agrees
<1>2. /\ Refused(x) \in RecSet /\ Refused(x).sub = "refused" /\ Refused(x).holder = "none"
      /\ Refused(x).owner = "none" /\ Refused(x).life = x.life /\ Refused(x).qty = x.qty
      /\ Refused(x).old = x.old /\ Refused(x).oid = x.oid /\ Refused(x).rev = x.rev
  BY <1>1 DEF Refused, RecSet, Agrees
<1>3. /\ Gone(x) \in RecSet /\ Gone(x).life = "gone" /\ Gone(x).old = x.old
      /\ Gone(x).rev = x.rev /\ Gone(x).holder = "none"
  BY UnusedIs DEF Gone, RecSet
<1> QED BY <1>1, <1>2, <1>3

\* A record is dropped when none of its orders is live, or none has to be replaced.
LEMMA FitsGone ==
  ASSUME NEW r \in Recs, NEW x \in RecSet, Fits(r, x), x.life # "unused",
         \A k \in OrdersOf(r) : Live(k) => x.old \in excused
  PROVE  Fits(r, Gone(x)) /\ Gone(x) \in RecSet
<1>1. /\ Gone(x).life = "gone" /\ Gone(x).old = x.old /\ Gone(x).rev = x.rev
      /\ Gone(x) \in RecSet
  BY WritesAre
<1> QED BY <1>1 DEF Fits

\* A claimed submit begins, is refused, or has an unknown outcome.
LEMMA FitsSubmit ==
  ASSUME NEW r \in Recs, NEW x \in RecSet, Fits(r, x), x.life = "pending", NEW p \in Procs
  PROVE  /\ Fits(r, Begun(x, p)) /\ Begun(x, p) \in RecSet
         /\ Fits(r, Unknown(x)) /\ Unknown(x) \in RecSet
<1>1. /\ Begun(x, p) \in RecSet /\ Begun(x, p).life = x.life /\ Begun(x, p).sub = "claimed"
      /\ Begun(x, p).qty = x.qty /\ Begun(x, p).old = x.old /\ Begun(x, p).oid = x.oid
      /\ Begun(x, p).rev = x.rev
  BY DEF Begun, RecSet
<1>2. /\ Unknown(x) \in RecSet /\ Unknown(x).life = x.life /\ Unknown(x).sub = "unknown"
      /\ Unknown(x).qty = x.qty /\ Unknown(x).old = x.old /\ Unknown(x).oid = x.oid
      /\ Unknown(x).rev = x.rev
  BY DEF Unknown, Unleased, RecSet
<1> QED BY <1>1, <1>2 DEF Fits

LEMMA FitsRefused ==
  ASSUME NEW r \in Recs, NEW x \in RecSet, Fits(r, x), x.life = "pending",
         \A k \in Sent(r, x.rev) : Lost(k)
  PROVE  Fits(r, Refused(x)) /\ Refused(x) \in RecSet
<1>1. /\ Refused(x) \in RecSet /\ Refused(x).life = x.life /\ Refused(x).sub = "refused"
      /\ Refused(x).qty = x.qty /\ Refused(x).old = x.old /\ Refused(x).oid = x.oid
      /\ Refused(x).rev = x.rev
  BY WritesAre
<1>2. \A k \in OrdersOf(r) : ~Live(k)
  BY DEF Fits, Sent, OrdersOf, Live, Lost
<1> QED BY <1>1, <1>2 DEF Fits

LEMMA FitsAccepted ==
  ASSUME RInv, NEW r \in Recs, NEW x \in RecSet, Fits(r, x), x.life = "pending",
         NEW k \in Sent(r, x.rev), orders[k].st \notin {"wire", "lost"}
  PROVE  Fits(r, Accepted(x, k)) /\ Accepted(x, k) \in RecSet
<1>1. k \in Known /\ orders[k] \in OrderSet /\ k \in 0..MaxOrders /\ k \in OrdersOf(r)
      /\ orders[k].rev = x.rev /\ orders[k].of = r
      /\ orders[k].qty \in 0..Qty /\ orders[k].qty >= 1
  BY Types DEF RInv, Typed, Sent, OrdersOf, Oids, OrderSet
<1>2. /\ Accepted(x, k) \in RecSet /\ Accepted(x, k).life = "accepted"
      /\ Accepted(x, k).qty = orders[k].qty /\ Accepted(x, k).old = x.old
      /\ Accepted(x, k).oid = k /\ Accepted(x, k).rev = x.rev
  <2>1. /\ Refused(x) \in RecSet /\ Refused(x).old = x.old /\ Refused(x).rev = x.rev
    BY WritesAre
  <2>2. Accepted(x, k) \in RecSet
    BY <1>1, <2>1, Zenon DEF Accepted, RecSet
  <2> QED BY <2>1, <2>2, Zenon DEF Accepted, RecSet
<1>3. ASSUME NEW j \in OrdersOf(r), Live(j) PROVE j = k
  <2>1. orders[j].rev = x.rev /\ j \in Known /\ orders[j].of = r
    BY <1>3 DEF Fits, OrdersOf, Live
  <2> QED BY <1>1, <1>3, <2>1 DEF RInv, IdsUsedOnce, Live, Lost
<1> QED BY <1>1, <1>2, <1>3 DEF Fits

\* The rest of an expired order starts a revision nothing was sent under yet.
LEMMA FitsRevised ==
  ASSUME RInv, NEW r \in Recs, NEW x \in RecSet, Fits(r, x), x.life = "accepted",
         orders[x.oid].st = "expired"
  PROVE  /\ Fits(r, Revised(x, orders[x.oid])) /\ Revised(x, orders[x.oid]) \in RecSet
         /\ Revised(x, orders[x.oid]).old = x.old
         /\ Revised(x, orders[x.oid]).holder = "none"
         /\ Revised(x, orders[x.oid]).life \in {"gone", "pending"}
         /\ \/ Revised(x, orders[x.oid]).life = "gone" /\ Revised(x, orders[x.oid]).rev = x.rev
            \/ Revised(x, orders[x.oid]).rev = x.rev + 1
<1> DEFINE k == x.oid
           o == orders[k]
           y == Revised(x, o)
<1>1. k \in Known /\ o \in OrderSet /\ o.rev = x.rev /\ o.filled <= o.qty /\ o.rev < k
      /\ x.rev \in Nat /\ k <= Len(orders) /\ k \in Nat /\ Len(orders) <= MaxOrders
      /\ o.qty \in 1..Qty /\ o.filled \in 0..Qty /\ Len(orders) \in Nat
  BY Types DEF RInv, Typed, Fits, Sent, OrdersOf, OrderSane, OrderSet, RecSet, Oids
<1>2. \A j \in OrdersOf(r) : ~Live(j) /\ orders[j].rev <= x.rev /\ orders[j].rev \in Nat
  <2>1. \A j \in OrdersOf(r) : orders[j] \in OrderSet
    BY Types DEF RInv, Typed, OrdersOf
  <2> QED BY <2>1 DEF Fits, Live, OrderSet
<1> HIDE DEF k, o
<1>3. CASE Rest(o) = 0
  <2>1. y = Gone(x)
    BY <1>3 DEF Revised
  <2>2. Gone(x).life = "gone" /\ Gone(x).old = x.old /\ Gone(x).rev = x.rev
        /\ Gone(x).holder = "none"
    BY WritesAre
  <2>3. Fits(r, Gone(x)) /\ Gone(x) \in RecSet
    BY <1>2, FitsGone
  <2> QED BY <2>1, <2>2, <2>3 DEF k, o
<1>4. CASE Rest(o) # 0
  <2>1. Rest(o) \in 1..Qty
    BY <1>1, <1>4 DEF Rest
  <2>2. /\ y.life = "pending" /\ y.sub = "refused" /\ y.qty = Rest(o) /\ y.old = x.old
        /\ y.rev = x.rev + 1 /\ y.holder = "none"
    BY <1>4, WritesAre DEF Revised, RecSet, Agrees
  <2>3. y \in RecSet
    <3>1. x.rev + 1 \in 0..MaxOrders /\ Rest(o) \in 0..Qty /\ 0 \in 0..MaxOrders
      BY <1>1, <2>1
    <3>2. Unleased(x) \in RecSet /\ Unleased(x).rev = x.rev
      BY WritesAre DEF Agrees
    <3> QED BY <1>4, <3>1, <3>2, Zenon DEF Revised, RecSet
  <2>4. y.rev <= Len(orders) /\ Sent(r, y.rev) = {}
    BY <1>1, <1>2, <2>2 DEF Sent
  <2>5. Fits(r, y)
    BY <1>1, <1>2, <2>1, <2>2, <2>4 DEF Fits
  <2> QED BY <2>2, <2>3, <2>5 DEF k, o
<1> QED BY <1>3, <1>4
--------------------------------------------------------------------------------
(* Steps that leave the venue alone *)

\* A process that is at nothing claims nothing.
LEMMA IdleSane ==
  ASSUME NEW p \in Procs, proc'[p] = Idle
  PROVE  ClaimSane(p)' /\ SubmitSane(p)' /\ (p = "mon" => MonitorSane')
<1>1. proc'[p].at = "idle"
  BY DEF Idle
<1> QED BY <1>1 DEF ClaimSane, SubmitSane, MonitorSane, Mon

Same(x, y, p) ==
  /\ y.life = x.life /\ y.sub = x.sub /\ y.rev = x.rev
  /\ y.owner = x.owner \/ (y.owner = "dead" /\ x.owner # p)

\* What a step of others may do to the record process p works on.
Untouched(p) ==
  LET x == rec[proc[p].rec]
      y == rec'[proc[p].rec]
  IN  /\ proc'[p] = proc[p]
      /\ y.life \in {"awaiting", "pending", "accepted"} /\ y.holder = p =>
           x.holder = p /\ Same(x, y, p)
      /\ proc[p].at \in {"begun", "sent"} =>
           /\ y.rev >= x.rev
           /\ \/ Same(x, y, p) /\ y.old = x.old
              \/ y.life = "gone" /\ y.old \in excused'
              \/ proc[p].at = "sent" /\ (y.rev > proc[p].rev \/ y.life \in {"gone", "accepted"})

LEMMA UntouchedSane ==
  ASSUME RInv, orders' = orders, rec' \in [Recs -> RecSet], excused \subseteq excused',
         NEW p \in Procs, Untouched(p)
  PROVE  ClaimSane(p)' /\ SubmitSane(p)'
<1> DEFINE r == proc[p].rec
           x == rec[r]
           y == rec'[r]
<1>1. proc'[p] = proc[p] /\ r \in Recs /\ proc[p] \in ProcSet /\ x \in RecSet /\ y \in RecSet
  BY Types DEF RInv, Typed, Untouched, ProcSet
<1>2. /\ x.rev \in Nat /\ y.rev \in Nat /\ proc[p].rev \in Nat
  BY <1>1 DEF RecSet, ProcSet
<1>3. \A rev : Sent(r, rev)' = Sent(r, rev) /\ \A k \in Sent(r, rev) : Lost(k)' = Lost(k)
  BY <1>1 DEF Sent, OrdersOf, Lost, Known
<1>4. ClaimSane(p) /\ SubmitSane(p)
  BY DEF RInv
<1>5. ClaimSane(p)'
  <2>1. SUFFICES ASSUME Mine(p)'
                 PROVE  /\ proc[p].at = "awaiting" => y.life = "awaiting"
                        /\ proc[p].at = "accepted" => y.life = "accepted"
                        /\ proc[p].at \in {"pending", "active"} =>
                             y.life = "pending" /\ (y.sub = "claimed" => y.owner = "dead")
                        /\ proc[p].at = "active" => \A k \in Sent(r, y.rev) : Lost(k)
                        /\ proc[p].at \in {"begun", "sent"} =>
                             y.life = "pending" /\ y.sub = "claimed" /\ y.owner = p /\ y.rev = proc[p].rev
    BY <1>1, <1>3 DEF ClaimSane, Owns
  <2>2. y.life \in {"awaiting", "pending", "accepted"} /\ y.holder = p
    BY <1>1, <2>1 DEF Mine, Queued
  <2>3. Mine(p) /\ Same(x, y, p)
    BY <2>2 DEF Untouched, Mine, Queued, Same
  <2> QED BY <1>4, <2>3 DEF ClaimSane, Same, Owns
<1>6. CASE proc[p].at = "begun"
  <2>1. /\ proc[p].qty >= 1 /\ proc[p].rev <= x.rev
        /\ \A k \in Sent(r, proc[p].rev) : Lost(k)
        /\ Owns(p) \/ (x.life = "gone" /\ x.old \in excused)
    BY <1>4, <1>6 DEF SubmitSane
  <2>2. /\ y.rev >= x.rev
        /\ \/ Same(x, y, p) /\ y.old = x.old
           \/ y.life = "gone" /\ y.old \in excused'
    BY <1>6 DEF Untouched
  <2>3. \/ y.life = "pending" /\ y.sub = "claimed" /\ y.owner = p /\ y.rev = proc[p].rev
        \/ (y.life = "gone" /\ y.old \in excused')
    BY <2>1, <2>2 DEF Owns, Same
  <2>4. proc[p].rev <= y.rev
    BY <1>2, <2>1, <2>2
  <2>5. SubmitSane(p)'
    BY <1>1, <1>3, <1>6, <2>1, <2>3, <2>4 DEF SubmitSane, Owns
  <2> QED BY <1>5, <2>5
<1>7. CASE proc[p].at = "sent"
  <2>1. /\ proc[p].oid \in Sent(r, proc[p].rev)
        /\ \A k \in Sent(r, proc[p].rev) : k = proc[p].oid \/ Lost(k)
        /\ \/ x.life = "gone" \/ x.rev > proc[p].rev
           \/ x.life = "accepted" \/ Owns(p)
    BY <1>4, <1>7 DEF SubmitSane
  <2>2. /\ y.rev >= x.rev
        /\ \/ Same(x, y, p)
           \/ y.life \in {"gone", "accepted"}
           \/ y.rev > proc[p].rev
    BY <1>7 DEF Untouched
  <2>3. \/ y.life = "gone" \/ y.rev > proc[p].rev \/ y.life = "accepted"
        \/ y.life = "pending" /\ y.sub = "claimed" /\ y.owner = p /\ y.rev = proc[p].rev
    BY <1>2, <2>1, <2>2 DEF Owns, Same
  <2>4. SubmitSane(p)'
    BY <1>1, <1>3, <1>7, <2>1, <2>3 DEF SubmitSane, Owns
  <2> QED BY <1>5, <2>4
<1>8. CASE proc[p].at \notin {"begun", "sent"}
  BY <1>1, <1>5, <1>8 DEF SubmitSane
<1> QED BY <1>6, <1>7, <1>8

\* A record nobody writes leaves its processes as they are.
LEMMA UnwrittenUntouched ==
  ASSUME RInv, NEW p \in Procs, proc'[p] = proc[p], rec'[proc[p].rec] = rec[proc[p].rec]
  PROVE  Untouched(p)
<1>1. proc[p].rec \in Recs
  BY Types DEF RInv, Typed, ProcSet
<1>2. rec[proc[p].rec].rev \in Nat
  BY <1>1, Types DEF RInv, Typed, RecSet
<1> QED BY <1>2 DEF Untouched, Same

LEMMA ApartStays ==
  ASSUME RInv, \A p \in Procs : proc'[p] = proc[p] \/ proc'[p].at \notin {"begun", "sent"}
  PROVE  SubmittersApart'
BY DEF RInv, SubmittersApart

\* The step of an invariant whose venue does not change.
LEMMA RecordsStep ==
  ASSUME RInv, orders' = orders, rec' \in [Recs -> RecSet], proc' \in [Procs -> ProcSet],
         excused \subseteq excused', excused' \subseteq Oids, mishaps' \in 0..MaxMishaps,
         \A r \in Recs : rec'[r] = rec[r] \/ Agrees(rec[r], rec'[r]) \/ Fits(r, rec'[r]),
         \A p \in Procs : \/ Untouched(p) \/ proc'[p] = Idle
                          \/ ClaimSane(p)' /\ SubmitSane(p)',
         MonitorSane' \/ proc'["mon"] = Idle, SubmittersApart'
  PROVE  RInv'
<1>1. TypeOK'
  BY DEF RInv, TypeOK, RecSet, ProcSet
<1>2. IdsUsedOnce' /\ \A k \in Known' : OrderSane(k)'
  BY DEF RInv, IdsUsedOnce, OrderSane, Live, Lost, Known
<1>3. ASSUME NEW r \in Recs PROVE Fits(r, rec[r])'
  <2>1. Fits(r, rec'[r])
    BY FitsSame DEF RInv
  <2> QED BY <2>1 DEF Fits, OrdersOf, Sent, Live, Lost, Known
<1>4. \A p \in Procs : ClaimSane(p)' /\ SubmitSane(p)'
  BY UntouchedSane, IdleSane
<1>5. MonitorSane'
  BY IdleSane
<1> QED BY <1>1, <1>2, <1>3, <1>4, <1>5 DEF RInv

LEMMA MonitorStays ==
  ASSUME RInv, orders' = orders, excused \subseteq excused', proc'["mon"] = Mon,
         Mon.at \in {"queued", "leased", "canceled"} =>
           /\ rec'[Mon.rec].life # "unused" /\ rec'[Mon.rec].old = rec[Mon.rec].old
           /\ rec[Mon.rec].life = "awaiting" /\ orders[Mon.oid].st = "open" =>
                rec'[Mon.rec].life = "awaiting"
           /\ rec'[Mon.rec].life \in {"awaiting", "pending", "accepted"}
              /\ rec'[Mon.rec].holder = "mon" =>
                rec[Mon.rec].holder = "mon" /\ rec'[Mon.rec].life = rec[Mon.rec].life
  PROVE  MonitorSane'
<1>1. MonitorSane
  BY DEF RInv
<1>2. (Mon = proc["mon"])' /\ Mon' = Mon
  BY DEF Mon
<1>3. Known' = Known
  BY DEF Known
<1>4. Mon.at \in {"queued", "leased", "canceled"} /\ Mine("mon")' =>
        Mine("mon") /\ rec'[Mon.rec].life = rec[Mon.rec].life
  BY DEF Mine, Queued, Mon
<1>5. /\ Mon'.at \in {"listed", "resolve", "queued", "leased", "canceled"} =>
           Mon'.oid \in Known' /\ orders'[Mon'.oid].st \notin {"wire", "lost"}
      /\ Mon'.at = "resolve" => orders'[Mon'.oid].st = "canceled"
      /\ Mon'.at \in {"listed", "queued", "leased"} =>
           (orders'[Mon'.oid].st = "canceled" => Mon'.oid \in excused')
  BY <1>1, <1>2, <1>3 DEF MonitorSane
<1>6. /\ Mon'.at \in {"queued", "leased", "canceled"} =>
           Mon'.rec # 0 /\ rec'[Mon'.rec].life # "unused" /\ rec'[Mon'.rec].old = Mon'.oid
      /\ Mon'.at \in {"queued", "leased"} =>
           (orders'[Mon'.oid].st = "open" => rec'[Mon'.rec].life = "awaiting")
  BY <1>1, <1>2 DEF MonitorSane
<1>7. Mon'.at \in {"leased", "canceled"} /\ Mine("mon")' =>
        rec'[Mon'.rec].life = "awaiting" \/ Mon'.oid \in excused'
  BY <1>1, <1>2, <1>4 DEF MonitorSane
<1> QED BY <1>5, <1>6, <1>7 DEF MonitorSane

\* What process q may write over the record x it has claimed.
Completes(q, x, y) ==
  /\ y \in RecSet /\ Fits(proc[q].rec, y)
  /\ y.life # "unused" /\ y.old = x.old /\ y.rev >= x.rev /\ y.holder \in {"none", q}
  /\ x.life = "accepted" => y.life \in {"gone", "accepted"} \/ y.rev > x.rev
  /\ q = "wrk" /\ x.life = "awaiting" /\ orders[x.old].st = "open" => y.life = "awaiting"
  /\ \/ y.life = x.life /\ y.sub = x.sub /\ y.rev = x.rev /\ y.owner = x.owner
     \/ x.life # "pending"
     \/ y.life = "gone" /\ y.old \in excused'
     \/ proc[q].at \in {"pending", "active", "begun", "sent"}

\* It disturbs nobody else: the others have lost the claim, and those that are
\* submitting have their name in the record.
LEMMA OthersUntouched ==
  ASSUME RInv, NEW q \in Procs, NEW y, Mine(q), Completes(q, rec[proc[q].rec], y),
         rec' = [rec EXCEPT ![proc[q].rec] = y],
         NEW p \in Procs, p # q, proc'[p] = proc[p]
  PROVE  Untouched(p)
<1> DEFINE r == proc[q].rec
           x == rec[r]
<1>1. r \in Recs /\ rec'[r] = y /\ \A s \in Recs : s # r => rec'[s] = rec[s]
  BY Types DEF RInv, Typed, ProcSet
<1>2. CASE proc[p].rec # r
  <2>1. proc[p].rec \in Recs
    BY Types DEF RInv, Typed, ProcSet
  <2> QED BY <1>1, <1>2, <2>1, UnwrittenUntouched
<1>3. CASE proc[p].rec = r
  <2>1. x.holder = q /\ x.life \in {"awaiting", "pending", "accepted"} /\ y.holder # p
    BY DEF Mine, Queued, Completes
  <2>2. ClaimSane(p) /\ SubmitSane(p) /\ ClaimSane(q) /\ Fits(r, x)
    BY <1>1 DEF RInv
  <2>3. proc[q].at \in {"pending", "active", "begun", "sent"} =>
          ~(x.life = "pending" /\ x.sub = "claimed" /\ x.owner = p)
    BY <2>2 DEF ClaimSane, Owns
  <2>4. x \in RecSet /\ x.rev \in Nat /\ y.rev \in Nat
    BY <1>1, Types DEF RInv, Typed, RecSet, Completes
  <2>5. ASSUME Owns(p)
        PROVE  \/ Same(x, y, p) /\ y.old = x.old
               \/ y.life = "gone" /\ y.old \in excused'
    BY <1>3, <2>3, <2>5 DEF Owns, Completes, Same
  <2>6. ASSUME proc[p].at = "begun" PROVE Owns(p)
    BY <1>3, <2>1, <2>2, <2>6 DEF SubmitSane
  <2>7. ASSUME proc[p].at = "sent", ~Owns(p)
        PROVE  y.rev > proc[p].rev \/ y.life \in {"gone", "accepted"}
    <3>1. /\ proc[p].oid \in Sent(r, proc[p].rev)
          /\ x.rev > proc[p].rev \/ x.life = "accepted"
      BY <1>3, <2>1, <2>2, <2>7 DEF SubmitSane
    <3>2. proc[p].rev <= x.rev
      BY <2>2, <3>1 DEF Fits, Sent, OrdersOf
    <3>3. proc[p].rev \in Nat
      BY Types DEF RInv, Typed, ProcSet
    <3> QED BY <2>4, <3>1, <3>2, <3>3 DEF Completes
  <2> QED BY <1>1, <1>3, <2>1, <2>5, <2>6, <2>7 DEF Untouched, Completes
<1> QED BY <1>2, <1>3

LEMMA MonitorUntouched ==
  ASSUME RInv, NEW y, Mine("wrk"), Completes("wrk", rec[Wrk.rec], y),
         orders' = orders, excused \subseteq excused',
         rec' = [rec EXCEPT ![Wrk.rec] = y], proc'["mon"] = Mon
  PROVE  MonitorSane'
<1>1. Wrk.rec \in Recs /\ rec'[Wrk.rec] = y /\ \A s \in Recs : s # Wrk.rec => rec'[s] = rec[s]
  BY Types DEF RInv, Typed, ProcSet, Wrk
<1>2. Mon.rec \in Recs
  BY Types DEF RInv, Typed, ProcSet, Mon
<1>3. MonitorSane
  BY DEF RInv
<1>4. CASE Mon.rec # Wrk.rec
  BY <1>1, <1>2, <1>3, <1>4, MonitorStays DEF MonitorSane
<1>5. CASE Mon.rec = Wrk.rec
  <2>1. Mon.at \in {"queued", "leased", "canceled"} => rec[Wrk.rec].old = Mon.oid
    BY <1>3, <1>5 DEF MonitorSane
  <2> QED BY <1>1, <1>5, <2>1, MonitorStays DEF Completes
<1> QED BY <1>4, <1>5

\* A claim is completed and the process goes on to the next.
LEMMA CompleteStep ==
  ASSUME RInv, NEW q \in Procs, NEW y, Complete(q, y), Done(q), orders' = orders,
         excused \subseteq excused', excused' \subseteq Oids, mishaps' = mishaps,
         Mine(q) => Completes(q, rec[proc[q].rec], y)
  PROVE  RInv'
<1> DEFINE r == proc[q].rec
<1>0. proc \in [Procs -> ProcSet] /\ rec \in [Recs -> RecSet] /\ mishaps' \in 0..MaxMishaps
  BY Types DEF RInv, Typed
<1>1. /\ r \in Recs /\ rec \in [Recs -> RecSet] /\ proc \in [Procs -> ProcSet]
      /\ mishaps' \in 0..MaxMishaps /\ Idle \in ProcSet
  BY <1>0, IdleIs DEF ProcSet
<1>2. proc' \in [Procs -> ProcSet] /\ proc'[q] = Idle /\ \A p \in Procs : p # q => proc'[p] = proc[p]
  BY <1>1 DEF Done
<1>3. SubmittersApart'
  BY <1>2, ApartStays DEF Idle
<1>4. CASE Mine(q)
  <2>1. rec' = [rec EXCEPT ![r] = y] /\ Completes(q, rec[r], y)
    BY <1>4 DEF Complete
  <2>2. rec' \in [Recs -> RecSet] /\ \A s \in Recs : rec'[s] = rec[s] \/ Fits(s, rec'[s])
    BY <1>1, <2>1 DEF Completes
  <2>3. \A p \in Procs : p # q => Untouched(p)
    BY <1>2, <1>4, <2>1, OthersUntouched
  <2>4. q = "wrk" => MonitorSane'
    BY <1>2, <1>4, <2>1, MonitorUntouched DEF Wrk, Mon
  <2> QED BY <1>1, <1>2, <1>3, <2>2, <2>3, <2>4, RecordsStep
<1>5. CASE ~Mine(q)
  <2>1. rec' = rec
    BY <1>5 DEF Complete
  <2>2. \A p \in Procs : p # q => Untouched(p)
    BY <1>2, <2>1, UnwrittenUntouched
  <2>3. q = "wrk" => MonitorSane'
    BY <1>2, <2>1, MonitorStays DEF RInv, MonitorSane, Mon
  <2> QED BY <1>1, <1>2, <1>3, <2>1, <2>2, <2>3, RecordsStep
<1> QED BY <1>4, <1>5

LEMMA CompletesUnleased ==
  ASSUME RInv, NEW q \in Procs, Mine(q)
  PROVE  Completes(q, rec[proc[q].rec], Unleased(rec[proc[q].rec]))
<1> DEFINE x == rec[proc[q].rec]
<1>1. x \in RecSet /\ Fits(proc[q].rec, x) /\ x.rev \in Nat
  <2>1. proc[q].rec \in Recs
    BY Types DEF RInv, Typed, ProcSet
  <2> QED BY <2>1, Types DEF RInv, Typed, RecSet
<1>2. x.life # "unused"
  BY DEF Mine, Queued
<1> HIDE DEF x
<1>3. Unleased(x) \in RecSet /\ Agrees(x, Unleased(x)) /\ Unleased(x).holder = "none"
      /\ Unleased(x).owner = x.owner
  BY <1>1, WritesAre
<1>4. Fits(proc[q].rec, Unleased(x))
  BY <1>1, <1>3, FitsSame
<1>5. Completes(q, x, Unleased(x))
  BY <1>1, <1>2, <1>3, <1>4 DEF Completes, Agrees
<1> QED BY <1>5 DEF x

LEMMA CompletesGone ==
  ASSUME RInv, NEW q \in Procs, Mine(q),
         \A k \in OrdersOf(proc[q].rec) : Live(k) => rec[proc[q].rec].old \in excused,
         \/ rec[proc[q].rec].life # "pending" \/ rec[proc[q].rec].old \in excused'
         \/ proc[q].at \in {"pending", "active", "begun", "sent"},
         q = "wrk" /\ rec[proc[q].rec].life = "awaiting" =>
           orders[rec[proc[q].rec].old].st # "open"
  PROVE  Completes(q, rec[proc[q].rec], Gone(rec[proc[q].rec]))
<1> DEFINE r == proc[q].rec
           x == rec[r]
<1>1. r \in Recs /\ x \in RecSet /\ Fits(r, x) /\ x.rev \in Nat
  <2>1. proc[q].rec \in Recs
    BY Types DEF RInv, Typed, ProcSet
  <2> QED BY <2>1, Types DEF RInv, Typed, RecSet
<1>2. x.life # "unused"
  BY DEF Mine, Queued
<1> HIDE DEF x
<1>3. Fits(r, Gone(x)) /\ Gone(x) \in RecSet
  BY <1>1, <1>2, FitsGone DEF x
<1>4. Gone(x).life = "gone" /\ Gone(x).old = x.old /\ Gone(x).rev = x.rev /\ Gone(x).holder = "none"
  BY <1>1, WritesAre
<1>5. Completes(q, x, Gone(x))
  BY <1>1, <1>2, <1>3, <1>4 DEF Completes, x
<1> QED BY <1>5 DEF x

\* Nothing was ordered for a record that waits.
LEMMA AwaitingHasNoOrders ==
  ASSUME RInv, NEW r \in Recs, rec[r].life = "awaiting"
  PROVE  OrdersOf(r) = {}
BY DEF RInv, Fits

LEMMA RecOfProc == RInv => \A p \in Procs : proc[p].rec \in Recs
BY Types DEF RInv, Typed, ProcSet

LEMMA Unexcused == RInv => excused \subseteq Oids
BY Types DEF RInv, Typed
--------------------------------------------------------------------------------
(* The completions *)

LEMMA PreflightRefusesStep == RInv /\ PreflightRefuses => RInv'
<1> SUFFICES ASSUME RInv, PreflightRefuses PROVE RInv'
  OBVIOUS
<1>1. Mon.at = "leased" /\ Complete("mon", Gone(rec[Mon.rec])) /\ Done("mon")
      /\ orders' = orders /\ excused' = excused /\ mishaps' = mishaps
  BY DEF PreflightRefuses
<1>2. ASSUME Mine("mon") PROVE Completes("mon", rec[Mon.rec], Gone(rec[Mon.rec]))
  <2>1. rec[Mon.rec].old = Mon.oid /\ (rec[Mon.rec].life = "awaiting" \/ Mon.oid \in excused)
    BY <1>1, <1>2 DEF RInv, MonitorSane
  <2>2. \A k \in OrdersOf(Mon.rec) : Live(k) => rec[Mon.rec].old \in excused
    BY <2>1, AwaitingHasNoOrders, RecOfProc DEF Mon
  <2> QED BY <1>1, <1>2, <2>1, <2>2, CompletesGone DEF Mon
<1> QED BY <1>1, <1>2, CompleteStep, Unexcused DEF Mon

LEMMA StatusFailsStep == RInv /\ StatusFails => RInv'
BY CompleteStep, CompletesUnleased, Unexcused DEF StatusFails, Mon

LEMMA NotCanceledStep == RInv /\ NotCanceled => RInv'
<1> SUFFICES ASSUME RInv, NotCanceled PROVE RInv'
  OBVIOUS
<1>1. Mon.at = "canceled" /\ orders[Mon.oid].st # "canceled" /\ Done("mon")
      /\ Complete("mon", IF orders[Mon.oid].st \in Ended THEN Gone(rec[Mon.rec])
                                                        ELSE Unleased(rec[Mon.rec]))
      /\ orders' = orders /\ excused' = excused /\ mishaps' = mishaps
  BY DEF NotCanceled, CancelConfirmed
<1>2. ASSUME Mine("mon") PROVE Completes("mon", rec[Mon.rec], Gone(rec[Mon.rec]))
  <2>1. rec[Mon.rec].old = Mon.oid /\ (rec[Mon.rec].life = "awaiting" \/ Mon.oid \in excused)
    BY <1>1, <1>2 DEF RInv, MonitorSane
  <2>2. \A k \in OrdersOf(Mon.rec) : Live(k) => rec[Mon.rec].old \in excused
    BY <2>1, AwaitingHasNoOrders, RecOfProc DEF Mon
  <2> QED BY <1>1, <1>2, <2>1, <2>2, CompletesGone DEF Mon
<1>3. CASE orders[Mon.oid].st \in Ended
  BY <1>1, <1>2, <1>3, CompleteStep, Unexcused DEF Mon
<1>4. CASE orders[Mon.oid].st \notin Ended
  BY <1>1, <1>4, CompleteStep, CompletesUnleased, Unexcused DEF Mon
<1> QED BY <1>3, <1>4

LEMMA LookLaterStep == RInv /\ LookLater => RInv'
BY CompleteStep, CompletesUnleased, Unexcused DEF LookLater, Wrk

LEMMA PollAcceptedStep == RInv /\ PollAccepted => RInv'
<1> SUFFICES ASSUME RInv, PollAccepted PROVE RInv'
  OBVIOUS
<1> DEFINE x == rec[Wrk.rec]
           o == orders[x.oid]
           y == IF o.st = "expired" THEN Revised(x, o) ELSE Gone(x)
<1>1. Wrk.at = "accepted" /\ Done("wrk") /\ Complete("wrk", y)
      /\ (Mine("wrk") => o.st \in Ended)
      /\ orders' = orders /\ excused' = excused /\ mishaps' = mishaps
  BY DEF PollAccepted, Complete, Wrk
<1>2. ASSUME Mine("wrk") PROVE Completes("wrk", x, y)
  <2>1. Wrk.rec \in Recs /\ x \in RecSet /\ Fits(Wrk.rec, x) /\ x.rev \in Nat
    <3>1. Wrk.rec \in Recs
      BY RecOfProc DEF Wrk
    <3> QED BY <3>1, Types DEF RInv, Typed, RecSet
  <2>2. x.life = "accepted"
    BY <1>1, <1>2 DEF RInv, ClaimSane, Wrk
  <2>3. CASE o.st = "expired"
    <3> HIDE DEF x
    <3>1. /\ Fits(Wrk.rec, Revised(x, o)) /\ Revised(x, o) \in RecSet
          /\ Revised(x, o).old = x.old /\ Revised(x, o).holder = "none"
          /\ Revised(x, o).life \in {"gone", "pending"}
          /\ \/ Revised(x, o).life = "gone" /\ Revised(x, o).rev = x.rev
             \/ Revised(x, o).rev = x.rev + 1
      BY <2>1, <2>2, <2>3, FitsRevised
    <3>2. y = Revised(x, o)
      BY <2>3
    <3> HIDE DEF y
    <3> QED BY <2>1, <2>2, <3>1, <3>2 DEF Completes, Wrk
  <2>4. CASE o.st # "expired"
    <3>1. \A k \in OrdersOf(Wrk.rec) : ~Live(k)
      BY <1>1, <1>2, <2>1, <2>2 DEF Fits, Live, Ended
    <3>2. y = Gone(x)
      BY <2>4
    <3> HIDE DEF y
    <3> QED BY <1>2, <2>2, <3>1, <3>2, CompletesGone DEF Wrk
  <2> QED BY <2>3, <2>4
<1> HIDE DEF y
<1> QED BY <1>1, <1>2, CompleteStep, Unexcused DEF Wrk

\* The orders found under the client id of a record
LEMMA FoundIsSent ==
  ASSUME RInv, NEW r \in Recs, Found(r) # {}
  PROVE  Max(Found(r)) \in Sent(r, rec[r].rev) /\ orders[Max(Found(r))].st \notin {"wire", "lost"}
<1>1. Found(r) \subseteq Oids
  BY Types DEF RInv, Typed, Found, Under
<1>2. Max(Found(r)) \in Found(r)
  BY <1>1, MinMaxOids
<1> QED BY <1>2 DEF Found, Under, Sent, OrdersOf

LEMMA CompletesAccepted ==
  ASSUME RInv, NEW q \in Procs, Mine(q), rec[proc[q].rec].life = "pending",
         proc[q].at \in {"pending", "sent"},
         NEW k \in Sent(proc[q].rec, rec[proc[q].rec].rev), orders[k].st \notin {"wire", "lost"}
  PROVE  Completes(q, rec[proc[q].rec], Accepted(rec[proc[q].rec], k))
<1> DEFINE r == proc[q].rec
           x == rec[r]
<1>1. r \in Recs /\ x \in RecSet /\ Fits(r, x) /\ x.rev \in Nat
  <2>1. proc[q].rec \in Recs
    BY RecOfProc
  <2> QED BY <2>1, Types DEF RInv, Typed, RecSet
<1> HIDE DEF x
<1>2. Fits(r, Accepted(x, k)) /\ Accepted(x, k) \in RecSet
  BY <1>1, FitsAccepted DEF x
<1>3. /\ Accepted(x, k).life = "accepted" /\ Accepted(x, k).old = x.old
      /\ Accepted(x, k).rev = x.rev /\ Accepted(x, k).holder = "none"
  <2>1. /\ Refused(x) \in RecSet /\ Refused(x).old = x.old /\ Refused(x).rev = x.rev
        /\ Refused(x).holder = "none"
    BY <1>1, WritesAre
  <2> QED BY <2>1, Zenon DEF Accepted, RecSet
<1>4. Completes(q, x, Accepted(x, k))
  BY <1>1, <1>2, <1>3 DEF Completes, x
<1> QED BY <1>4 DEF x

LEMMA LookupFoundStep == RInv /\ LookupFound => RInv'
<1> SUFFICES ASSUME RInv, LookupFound PROVE RInv'
  OBVIOUS
<1>1. /\ Wrk.at = "pending" /\ Mine("wrk") /\ Found(Wrk.rec) # {} /\ Done("wrk")
      /\ Complete("wrk", Accepted(rec[Wrk.rec], Max(Found(Wrk.rec))))
      /\ orders' = orders /\ excused' = excused /\ mishaps' = mishaps
  BY DEF LookupFound
<1>2. rec[Wrk.rec].life = "pending" /\ Wrk.rec \in Recs
  BY <1>1, RecOfProc DEF RInv, ClaimSane, Wrk
<1>3. /\ Max(Found(Wrk.rec)) \in Sent(Wrk.rec, rec[Wrk.rec].rev)
      /\ orders[Max(Found(Wrk.rec))].st \notin {"wire", "lost"}
  BY <1>1, <1>2, FoundIsSent
<1>4. Completes("wrk", rec[Wrk.rec], Accepted(rec[Wrk.rec], Max(Found(Wrk.rec))))
  BY <1>1, <1>2, <1>3, CompletesAccepted DEF Wrk
<1> QED BY <1>1, <1>4, CompleteStep, Unexcused DEF Wrk

\* Of the orders of a submittable record only those of its revision can be live.
LEMMA LostMeansNotLive ==
  ASSUME RInv, NEW r \in Recs, rec[r].life = "pending",
         \A k \in Sent(r, rec[r].rev) : Lost(k)
  PROVE  \A k \in OrdersOf(r) : ~Live(k)
<1>1. Fits(r, rec[r])
  BY DEF RInv
<1> QED BY <1>1 DEF Fits, Sent, OrdersOf, Live, Lost

LEMMA PlaceRefusedStep ==
  ASSUME RInv, NEW p \in Procs, PlaceRefused(p) PROVE RInv'
<1> DEFINE r == proc[p].rec
           x == rec[r]
<1>1. proc[p].at = "begun" /\ Done(p) /\ orders' = orders /\ mishaps' = mishaps /\ r \in Recs
      /\ \/ Complete(p, Refused(x)) /\ excused' = excused
         \/ Complete(p, Gone(x)) /\ excused' = excused \cup ({x.old} \cap Oids)
  BY RecOfProc DEF PlaceRefused
<1>2. x \in RecSet /\ Fits(r, x) /\ x.rev \in Nat
  BY <1>1, Types DEF RInv, Typed, RecSet
<1>3. excused \subseteq excused' /\ excused' \subseteq Oids
  BY <1>1, Unexcused
<1>4. ASSUME Mine(p) PROVE x.life = "pending" /\ \A k \in Sent(r, x.rev) : Lost(k)
  BY <1>1, <1>4 DEF RInv, ClaimSane, SubmitSane, Owns
<1>5. ASSUME Mine(p) PROVE Completes(p, x, Refused(x))
  <2>1. Fits(r, Refused(x)) /\ Refused(x) \in RecSet
    BY <1>1, <1>2, <1>4, <1>5, FitsRefused
  <2>2. /\ Refused(x).holder = "none" /\ Refused(x).life = x.life
        /\ Refused(x).old = x.old /\ Refused(x).rev = x.rev
    BY <1>2, WritesAre
  <2> QED BY <1>1, <1>2, <1>4, <1>5, <2>1, <2>2 DEF Completes
<1>6. ASSUME Mine(p) PROVE Completes(p, x, Gone(x))
  <2>1. \A k \in OrdersOf(r) : ~Live(k)
    BY <1>1, <1>4, <1>6, LostMeansNotLive
  <2> QED BY <1>1, <1>4, <1>6, <2>1, CompletesGone
<1> HIDE DEF x
<1>7. CASE Complete(p, Refused(x))
  BY <1>1, <1>3, <1>5, <1>7, CompleteStep DEF x
<1>8. CASE Complete(p, Gone(x))
  BY <1>1, <1>3, <1>6, <1>8, CompleteStep DEF x
<1> QED BY <1>1, <1>7, <1>8

LEMMA AnswerStep ==
  ASSUME RInv, NEW p \in Procs, Answer(p) PROVE RInv'
<1> DEFINE r == proc[p].rec
           x == rec[r]
           k == proc[p].oid
<1>1. /\ proc[p].at = "sent" /\ Done(p) /\ orders' = orders /\ mishaps' = mishaps
      /\ excused' = excused /\ r \in Recs
      /\ \/ orders[k].st \notin {"wire", "lost"} /\ Complete(p, Accepted(x, k))
         \/ orders[k].st = "lost" /\ Complete(p, Refused(x))
         \/ Complete(p, Unknown(x))
  BY RecOfProc DEF Answer
<1>2. x \in RecSet /\ Fits(r, x) /\ x.rev \in Nat
  BY <1>1, Types DEF RInv, Typed, RecSet
<1>3. excused \subseteq excused' /\ excused' \subseteq Oids
  BY <1>1, Unexcused
<1>4. ASSUME Mine(p)
      PROVE  /\ x.life = "pending" /\ x.rev = proc[p].rev /\ k \in Sent(r, x.rev)
             /\ \A j \in Sent(r, x.rev) : j = k \/ Lost(j)
  BY <1>1, <1>4 DEF RInv, ClaimSane, SubmitSane, Owns
<1>5. CASE orders[k].st \notin {"wire", "lost"} /\ Complete(p, Accepted(x, k))
  <2>1. ASSUME Mine(p) PROVE Completes(p, x, Accepted(x, k))
    BY <1>1, <1>4, <1>5, <2>1, CompletesAccepted
  <2> QED BY <1>1, <1>3, <1>5, <2>1, CompleteStep
<1>6. CASE orders[k].st = "lost" /\ Complete(p, Refused(x))
  <2>1. ASSUME Mine(p) PROVE Completes(p, x, Refused(x))
    <3>1. \A j \in Sent(r, x.rev) : Lost(j)
      BY <1>4, <1>6, <2>1 DEF Lost
    <3>2. Fits(r, Refused(x)) /\ Refused(x) \in RecSet
      BY <1>1, <1>2, <1>4, <2>1, <3>1, FitsRefused
    <3>3. /\ Refused(x).holder = "none" /\ Refused(x).life = x.life
          /\ Refused(x).old = x.old /\ Refused(x).rev = x.rev
      BY <1>2, WritesAre
    <3> QED BY <1>1, <1>2, <1>4, <2>1, <3>2, <3>3 DEF Completes
  <2> QED BY <1>1, <1>3, <1>6, <2>1, CompleteStep
<1>7. CASE Complete(p, Unknown(x))
  <2>1. ASSUME Mine(p) PROVE Completes(p, x, Unknown(x))
    <3>1. Fits(r, Unknown(x)) /\ Unknown(x) \in RecSet
      BY <1>1, <1>2, <1>4, <2>1, FitsSubmit
    <3>2. Unleased(x) \in RecSet /\ Agrees(x, Unleased(x)) /\ Unleased(x).holder = "none"
      BY <1>2, WritesAre
    <3>3. /\ Unknown(x).holder = "none" /\ Unknown(x).life = x.life
          /\ Unknown(x).old = x.old /\ Unknown(x).rev = x.rev
      BY <3>2, Zenon DEF Unknown, Agrees, RecSet
    <3> QED BY <1>1, <1>2, <1>4, <2>1, <3>1, <3>3 DEF Completes
  <2> QED BY <1>1, <1>3, <1>7, <2>1, CompleteStep
<1> QED BY <1>1, <1>5, <1>6, <1>7
--------------------------------------------------------------------------------
(* Steps of a process alone *)

\* A process moves on and writes nothing.
LEMMA ProcStep ==
  ASSUME RInv, rec' = rec, orders' = orders, excused' = excused, mishaps' \in 0..MaxMishaps,
         NEW p \in Procs, NEW z \in ProcSet, proc' = [proc EXCEPT ![p] = z],
         z = Idle \/ (ClaimSane(p)' /\ z.at \notin {"begun", "sent"} /\ (p = "mon" => MonitorSane'))
  PROVE  RInv'
<1>1. /\ rec \in [Recs -> RecSet] /\ proc \in [Procs -> ProcSet] /\ excused \subseteq Oids
  BY Types DEF RInv, Typed
<1>2. proc' \in [Procs -> ProcSet] /\ proc'[p] = z /\ \A q \in Procs : q # p => proc'[q] = proc[q]
  BY <1>1
<1>3. SubmittersApart'
  BY <1>2, IdleIs, ApartStays
<1>4. \A q \in Procs : q # p => Untouched(q)
  BY <1>2, UnwrittenUntouched
<1>5. p # "mon" => MonitorSane'
  BY <1>2, MonitorStays DEF RInv, MonitorSane, Mon
<1>6. z.at \notin {"begun", "sent"} => SubmitSane(p)'
  BY <1>2 DEF SubmitSane
<1> QED BY <1>1, <1>2, <1>3, <1>4, <1>5, <1>6, RecordsStep

LEMMA AbandonStep ==
  ASSUME RInv, NEW p \in Procs, Done(p), rec' = rec, orders' = orders, excused' = excused,
         mishaps' = mishaps
  PROVE  RInv'
BY ProcStep, IdleIs, Types DEF Done, RInv, Typed

LEMMA ListStep == ASSUME RInv, NEW k \in Oids, List(k) PROVE RInv'
<1> DEFINE z == [Idle EXCEPT !.at = "listed", !.oid = k]
<1>1. /\ k \in Known /\ orders[k].st = "open" /\ proc' = [proc EXCEPT !["mon"] = z]
      /\ rec' = rec /\ orders' = orders /\ excused' = excused /\ mishaps' = mishaps
  BY DEF List
<1>2. z.at = "listed" /\ z.oid = k /\ z \in ProcSet
  <2>1. k \in 0..MaxOrders
    BY DEF Oids
  <2> QED BY <2>1, IdleIs, Zenon DEF ProcSet
<1> HIDE DEF z
<1>3. mishaps' \in 0..MaxMishaps /\ proc'["mon"] = z
  BY <1>1, Types DEF RInv, Typed
<1>4. Known' = Known
  BY <1>1 DEF Known
<1>5. MonitorSane' /\ ClaimSane("mon")'
  BY <1>1, <1>2, <1>3, <1>4 DEF MonitorSane, ClaimSane, Mon
<1> QED BY <1>1, <1>2, <1>3, <1>5, ProcStep

LEMMA AbsentStep == RInv /\ Absent => RInv'
<1> SUFFICES ASSUME RInv, Absent PROVE RInv'
  OBVIOUS
<1> DEFINE z == [proc["wrk"] EXCEPT !.at = "active"]
<1>1. /\ Wrk.at = "pending" /\ proc' = [proc EXCEPT !["wrk"] = z]
      /\ Mine("wrk") /\ rec[Wrk.rec].sub # "refused" =>
           \A k \in Under(Wrk.rec) : orders[k].st = "lost"
      /\ rec' = rec /\ orders' = orders /\ excused' = excused /\ mishaps' = mishaps
  BY DEF Absent, Goto
<1>2. proc["wrk"] \in ProcSet /\ mishaps' \in 0..MaxMishaps /\ proc \in [Procs -> ProcSet]
  BY <1>1, Types DEF RInv, Typed
<1>3. z \in ProcSet /\ z.at = "active" /\ z.rec = Wrk.rec /\ proc'["wrk"] = z
  BY <1>1, <1>2 DEF ProcSet, Wrk
<1>4. ASSUME Mine("wrk")
      PROVE  /\ rec[Wrk.rec].life = "pending"
             /\ rec[Wrk.rec].sub = "claimed" => rec[Wrk.rec].owner = "dead"
             /\ \A k \in Sent(Wrk.rec, rec[Wrk.rec].rev) : Lost(k)
  <2>1. Wrk.rec \in Recs /\ ClaimSane("wrk") /\ Fits(Wrk.rec, rec[Wrk.rec])
    BY RecOfProc DEF RInv, Wrk
  <2>2. Sent(Wrk.rec, rec[Wrk.rec].rev) = Under(Wrk.rec)
    BY DEF Sent, OrdersOf, Under
  <2> QED BY <1>1, <1>4, <2>1, <2>2 DEF ClaimSane, Wrk, Fits, Lost
<1> HIDE DEF z
<1>5. Mine("wrk")' => Mine("wrk")
  BY <1>1, <1>3 DEF Mine, Queued, Wrk
<1>6. Sent(Wrk.rec, rec[Wrk.rec].rev)' = Sent(Wrk.rec, rec[Wrk.rec].rev)
  BY <1>1, <1>3 DEF Sent, OrdersOf, Known, Wrk
<1>7. ClaimSane("wrk")'
  BY <1>1, <1>3, <1>4, <1>5, <1>6 DEF ClaimSane, Lost, Wrk
<1> QED BY <1>1, <1>2, <1>3, <1>7, ProcStep

--------------------------------------------------------------------------------
(* Claims, leases, and the records nobody works on *)

LEMMA LeasedIs ==
  ASSUME NEW x \in RecSet, NEW p \in Procs
  PROVE  /\ Leased(x, p) \in RecSet /\ Agrees(x, Leased(x, p)) /\ Leased(x, p).holder = p
         /\ Leased(x, p).owner = x.owner
         /\ Begun(x, p) \in RecSet /\ Begun(x, p).life = x.life /\ Begun(x, p).sub = "claimed"
         /\ Begun(x, p).owner = p /\ Begun(x, p).old = x.old /\ Begun(x, p).rev = x.rev
         /\ Begun(x, p).holder = x.holder
<1>1. /\ Leased(x, p) \in RecSet /\ Agrees(x, Leased(x, p)) /\ Leased(x, p).holder = p
      /\ Leased(x, p).owner = x.owner
  BY DEF Leased, RecSet, Agrees
<1>2. /\ Begun(x, p) \in RecSet /\ Begun(x, p).life = x.life /\ Begun(x, p).sub = "claimed"
      /\ Begun(x, p).owner = p /\ Begun(x, p).old = x.old /\ Begun(x, p).rev = x.rev
      /\ Begun(x, p).holder = x.holder
  BY DEF Begun, RecSet
<1> QED BY <1>1, <1>2

\* A record changes that no process but p works on any further; everyone else sees
\* the same record under another lease.
LEMMA SameUntouched ==
  ASSUME RInv, NEW r \in Recs, NEW y \in RecSet, rec' = [rec EXCEPT ![r] = y],
         y.life = rec[r].life, y.sub = rec[r].sub, y.rev = rec[r].rev, y.old = rec[r].old,
         NEW p \in Procs, proc'[p] = proc[p],
         y.holder = p => rec[r].holder = p, y.owner = rec[r].owner
  PROVE  Untouched(p)
<1>1. /\ rec'[r] = y /\ \A s \in Recs : s # r => rec'[s] = rec[s]
      /\ rec[r] \in RecSet /\ rec[r].rev \in Nat /\ proc[p].rec \in Recs
  <2>1. rec \in [Recs -> RecSet] /\ proc[p].rec \in Recs
    BY RecOfProc, Types DEF RInv, Typed
  <2> QED BY <2>1 DEF RecSet
<1>2. CASE proc[p].rec = r
  BY <1>1, <1>2 DEF Untouched, Same
<1>3. CASE proc[p].rec # r
  BY <1>1, <1>3, UnwrittenUntouched
<1> QED BY <1>2, <1>3

LEMMA ClaimStep == ASSUME RInv, NEW r \in Recs, Claim(r) PROVE RInv'
<1> DEFINE x == rec[r]
           y == Leased(x, "wrk")
           z == [Idle EXCEPT !.at = x.life, !.rec = r]
<1>1. /\ Wrk.at = "idle" /\ x.life \in {"awaiting", "pending", "accepted"}
      /\ x.sub = "claimed" /\ x.life = "pending" => x.owner = "dead"
      /\ rec' = [rec EXCEPT ![r] = y] /\ proc' = [proc EXCEPT !["wrk"] = z]
      /\ orders' = orders /\ excused' = excused /\ mishaps' = mishaps
  BY DEF Claim, Claimable, Queued
<1>2. /\ rec \in [Recs -> RecSet] /\ x \in RecSet /\ proc \in [Procs -> ProcSet]
      /\ mishaps' \in 0..MaxMishaps /\ excused \subseteq Oids
  BY <1>1, Types DEF RInv, Typed
<1>3. y \in RecSet /\ Agrees(x, y) /\ y.holder = "wrk" /\ y.owner = x.owner
  BY <1>2, LeasedIs
<1>4. z \in ProcSet /\ z.at = x.life /\ z.rec = r
  BY <1>1, IdleIs DEF ProcSet
<1> HIDE DEF y, z
<1>5. /\ rec' \in [Recs -> RecSet] /\ proc' \in [Procs -> ProcSet]
      /\ rec'[r] = y /\ \A s \in Recs : s # r => rec'[s] = rec[s]
      /\ proc'["wrk"] = z /\ proc'["mon"] = Mon
  BY <1>1, <1>2, <1>3, <1>4 DEF Mon
<1>6. Untouched("mon")
  BY <1>1, <1>3, <1>5, SameUntouched DEF Agrees, Mon
<1>7. ClaimSane("wrk")' /\ SubmitSane("wrk")'
  BY <1>1, <1>3, <1>4, <1>5 DEF ClaimSane, SubmitSane, Agrees
<1>8. MonitorSane'
  <2>1. Mon.rec \in Recs
    BY RecOfProc DEF Mon
  <2>2. Mon.rec # r => rec'[Mon.rec] = rec[Mon.rec]
    BY <1>5, <2>1
  <2>3. Mon.rec = r => rec'[Mon.rec].life = rec[Mon.rec].life /\ rec'[Mon.rec].old = rec[Mon.rec].old
                       /\ rec'[Mon.rec].holder # "mon"
    BY <1>3, <1>5 DEF Agrees
  <2>4. Mon.at \in {"queued", "leased", "canceled"} => rec[Mon.rec].life # "unused"
    BY DEF RInv, MonitorSane
  <2> QED BY <1>1, <1>5, <2>2, <2>3, <2>4, MonitorStays
<1>9. SubmittersApart'
  BY <1>1, <1>4, <1>5, ApartStays DEF Mon
<1>10. \A s \in Recs : rec'[s] = rec[s] \/ Agrees(rec[s], rec'[s])
  BY <1>3, <1>5
<1> QED BY <1>1, <1>2, <1>5, <1>6, <1>7, <1>8, <1>9, <1>10, RecordsStep

\* The clock takes a lease away.
LEMMA LapseStep == ASSUME RInv, NEW r \in Recs, Lapse(r) PROVE RInv'
<1> DEFINE x == rec[r]
           y == [x EXCEPT !.leased = FALSE]
<1>1. /\ rec' = [rec EXCEPT ![r] = y] /\ proc' = proc
      /\ orders' = orders /\ excused' = excused /\ mishaps' = mishaps
  BY DEF Lapse
<1>2. /\ rec \in [Recs -> RecSet] /\ x \in RecSet /\ proc \in [Procs -> ProcSet]
      /\ mishaps' \in 0..MaxMishaps /\ excused \subseteq Oids
  BY <1>1, Types DEF RInv, Typed
<1>3. y \in RecSet /\ Agrees(x, y) /\ y.holder = x.holder /\ y.owner = x.owner
  BY <1>2 DEF RecSet, Agrees
<1> HIDE DEF y
<1>4. /\ rec' \in [Recs -> RecSet] /\ rec'[r] = y /\ \A s \in Recs : s # r => rec'[s] = rec[s]
  BY <1>1, <1>2, <1>3
<1>5. \A p \in Procs : Untouched(p)
  BY <1>1, <1>3, SameUntouched DEF Agrees
<1>6. MonitorSane'
  <2>1. Mon.rec \in Recs
    BY RecOfProc DEF Mon
  <2>2. /\ rec'[Mon.rec].life = rec[Mon.rec].life /\ rec'[Mon.rec].old = rec[Mon.rec].old
        /\ rec'[Mon.rec].holder = rec[Mon.rec].holder
    BY <1>3, <1>4, <2>1 DEF Agrees
  <2>3. Mon.at \in {"queued", "leased", "canceled"} => rec[Mon.rec].life # "unused"
    BY DEF RInv, MonitorSane
  <2> QED BY <1>1, <2>2, <2>3, MonitorStays DEF Mon
<1>7. SubmittersApart'
  BY <1>1, ApartStays
<1>8. \A s \in Recs : rec'[s] = rec[s] \/ Agrees(rec[s], rec'[s])
  BY <1>3, <1>4
<1> QED BY <1>1, <1>2, <1>4, <1>5, <1>6, <1>7, <1>8, RecordsStep

\* A crash frees the claims of the process that died, and marks its submits.
LEMMA CrashStep == ASSUME RInv, NEW p \in Procs, Crash(p) PROVE RInv'
<1>1. /\ mishaps < MaxMishaps /\ mishaps' = mishaps + 1 /\ Done(p)
      /\ rec' = [r \in Recs |-> [rec[r] EXCEPT !.holder = IF @ = p THEN "none" ELSE @,
                                               !.owner = IF @ = p THEN "dead" ELSE @]]
      /\ orders' = orders /\ excused' = excused
  BY DEF Crash
<1>0. /\ rec \in [Recs -> RecSet] /\ proc \in [Procs -> ProcSet]
      /\ mishaps \in 0..MaxMishaps /\ excused \subseteq Oids
  BY Types DEF RInv, Typed
<1>2. /\ rec \in [Recs -> RecSet] /\ proc \in [Procs -> ProcSet]
      /\ mishaps' \in 0..MaxMishaps /\ excused \subseteq Oids
  <2>0. mishaps < MaxMishaps /\ mishaps \in 0..MaxMishaps
    BY <1>0, <1>1
  <2>1. mishaps + 1 \in 0..MaxMishaps
    BY <2>0
  <2> QED BY <1>0, <1>1, <2>1, Zenon
<1>3. ASSUME NEW r \in Recs
      PROVE  /\ rec'[r] \in RecSet /\ Agrees(rec[r], rec'[r]) /\ rec[r].rev \in Nat
             /\ rec'[r].holder \in {rec[r].holder, "none"} /\ rec'[r].holder # p
             /\ rec'[r].owner = IF rec[r].owner = p THEN "dead" ELSE rec[r].owner
  <2> DEFINE x == rec[r]
             h == IF x.holder = p THEN "none" ELSE x.holder
             o == IF x.owner = p THEN "dead" ELSE x.owner
             y == [x EXCEPT !.holder = h, !.owner = o]
  <2>1. x \in RecSet /\ rec'[r] = y
    BY <1>1, <1>2
  <2>2. /\ h \in Procs \cup {"none"} /\ o \in Procs \cup {"none", "dead"} /\ x.rev \in Nat
        /\ h \in {x.holder, "none"} /\ h # p
    BY <2>1 DEF RecSet
  <2> HIDE DEF h, o
  <2>3. y \in RecSet /\ Agrees(x, y) /\ y.holder = h /\ y.owner = o
    BY <2>1, <2>2 DEF RecSet, Agrees
  <2> QED BY <2>1, <2>2, <2>3 DEF o
<1>4. rec' \in [Recs -> RecSet]
  BY <1>1, <1>3
<1>5. proc' \in [Procs -> ProcSet] /\ proc'[p] = Idle /\ \A q \in Procs : q # p => proc'[q] = proc[q]
  BY <1>1, <1>2, IdleIs DEF Done
<1>6. ASSUME NEW q \in Procs, q # p PROVE Untouched(q)
  <2>1. proc[q].rec \in Recs
    BY RecOfProc
  <2> QED BY <1>3, <1>5, <1>6, <2>1 DEF Untouched, Same, Agrees
<1>7. p # "mon" => MonitorSane'
  <2>1. Mon.rec \in Recs
    BY RecOfProc DEF Mon
  <2>2. Mon.at \in {"queued", "leased", "canceled"} => rec[Mon.rec].life # "unused"
    BY DEF RInv, MonitorSane
  <2> QED BY <1>1, <1>3, <1>5, <2>1, <2>2, MonitorStays DEF Agrees, Mon
<1>8. SubmittersApart'
  BY <1>5, IdleIs, ApartStays
<1> QED BY <1>1, <1>2, <1>3, <1>4, <1>5, <1>6, <1>7, <1>8, RecordsStep

LEMMA ExpireStep == ASSUME RInv, NEW r \in Recs, Expire(r) PROVE RInv'
<1> DEFINE x == rec[r]
           y == Gone(x)
<1>1. /\ x.life = "pending" /\ x.sub = "refused" /\ rec' = [rec EXCEPT ![r] = y]
      /\ excused \subseteq excused' /\ excused' \subseteq excused \cup Oids
      /\ proc' = proc /\ orders' = orders /\ mishaps' = mishaps
  BY DEF Expire
<1>2. /\ rec \in [Recs -> RecSet] /\ x \in RecSet /\ Fits(r, x) /\ proc \in [Procs -> ProcSet]
      /\ mishaps' \in 0..MaxMishaps /\ excused' \subseteq Oids
  BY <1>1, Types DEF RInv, Typed
<1>3. /\ y \in RecSet /\ y.life = "gone" /\ y.old = x.old /\ y.rev = x.rev /\ y.holder = "none"
      /\ x.rev \in Nat
  BY <1>2, WritesAre DEF RecSet
<1>4. Fits(r, y)
  <2>1. \A k \in OrdersOf(r) : ~Live(k)
    BY <1>1, <1>2, LostMeansNotLive DEF Fits
  <2> HIDE DEF x
  <2> QED BY <1>1, <1>2, <2>1, FitsGone
<1> HIDE DEF y
<1>5. /\ rec' \in [Recs -> RecSet] /\ rec'[r] = y /\ \A s \in Recs : s # r => rec'[s] = rec[s]
  BY <1>1, <1>2, <1>3
<1>6. ASSUME NEW p \in Procs PROVE Untouched(p)
  <2>1. proc[p].rec \in Recs /\ SubmitSane(p) /\ proc'[p] = proc[p]
    BY <1>1, RecOfProc DEF RInv
  <2>2. CASE proc[p].rec = r
    <3>1. proc[p].at # "begun"
      BY <1>1, <2>1, <2>2 DEF SubmitSane, Owns
    <3> QED BY <1>3, <1>5, <2>1, <2>2, <3>1 DEF Untouched
  <2>3. CASE proc[p].rec # r
    BY <1>5, <2>1, <2>3, UnwrittenUntouched
  <2> QED BY <2>2, <2>3
<1>7. MonitorSane'
  <2>1. Mon.rec \in Recs
    BY RecOfProc DEF Mon
  <2>2. Mon.rec # r => rec'[Mon.rec] = rec[Mon.rec]
    BY <1>5, <2>1
  <2>3. Mon.at \in {"queued", "leased", "canceled"} => rec[Mon.rec].life # "unused"
    BY DEF RInv, MonitorSane
  <2> QED BY <1>1, <1>3, <1>5, <2>2, <2>3, MonitorStays DEF Mon
<1>8. SubmittersApart'
  BY <1>1, ApartStays
<1>9. \A s \in Recs : rec'[s] = rec[s] \/ Fits(s, rec'[s])
  BY <1>4, <1>5
<1> QED BY <1>1, <1>2, <1>5, <1>6, <1>7, <1>8, <1>9, RecordsStep

LEMMA AdoptLiveStep == ASSUME RInv, NEW r \in Recs, AdoptLive(r) PROVE RInv'
<1> DEFINE x == rec[r]
           k == Max(Found(r))
           y == Accepted(x, k)
<1>1. /\ Wrk.at = "idle" /\ x.life = "pending" /\ Found(r) # {} /\ rec' = [rec EXCEPT ![r] = y]
      /\ proc' = proc /\ orders' = orders /\ excused' = excused /\ mishaps' = mishaps
  BY DEF AdoptLive
<1>2. /\ rec \in [Recs -> RecSet] /\ x \in RecSet /\ Fits(r, x) /\ proc \in [Procs -> ProcSet]
      /\ mishaps' \in 0..MaxMishaps /\ excused \subseteq Oids
  BY <1>1, Types DEF RInv, Typed
<1>3. k \in Sent(r, x.rev) /\ orders[k].st \notin {"wire", "lost"}
  BY <1>1, FoundIsSent
<1> HIDE DEF x, k
<1>4. Fits(r, y) /\ y \in RecSet
  BY <1>1, <1>2, <1>3, FitsAccepted
<1>5. /\ y.life = "accepted" /\ y.old = x.old /\ y.rev = x.rev /\ y.holder = "none" /\ x.rev \in Nat
  <2>1. /\ Refused(x) \in RecSet /\ Refused(x).old = x.old /\ Refused(x).rev = x.rev
        /\ Refused(x).holder = "none" /\ x.rev \in Nat
    BY <1>2, WritesAre DEF RecSet
  <2> QED BY <2>1, Zenon DEF Accepted, RecSet
<1> HIDE DEF y
<1>6. /\ rec' \in [Recs -> RecSet] /\ rec'[r] = y /\ \A s \in Recs : s # r => rec'[s] = rec[s]
  BY <1>1, <1>2, <1>4
<1>7. ASSUME NEW p \in Procs PROVE Untouched(p)
  <2>1. proc[p].rec \in Recs /\ SubmitSane(p) /\ proc'[p] = proc[p]
    BY <1>1, RecOfProc DEF RInv
  <2>2. CASE proc[p].rec = r
    <3>1. proc[p].at # "begun"
      BY <1>1, <1>3, <2>1, <2>2 DEF SubmitSane, Owns, Lost, x
    <3> QED BY <1>5, <1>6, <2>1, <2>2, <3>1 DEF Untouched, x
  <2>3. CASE proc[p].rec # r
    BY <1>6, <2>1, <2>3, UnwrittenUntouched
  <2> QED BY <2>2, <2>3
<1>8. MonitorSane'
  <2>1. Mon.rec \in Recs
    BY RecOfProc DEF Mon
  <2>2. Mon.rec # r => rec'[Mon.rec] = rec[Mon.rec]
    BY <1>6, <2>1
  <2>3. Mon.at \in {"queued", "leased", "canceled"} => rec[Mon.rec].life # "unused"
    BY DEF RInv, MonitorSane
  <2> QED BY <1>1, <1>5, <1>6, <2>2, <2>3, MonitorStays DEF Mon, x
<1>9. SubmittersApart'
  BY <1>1, ApartStays
<1>10. \A s \in Recs : rec'[s] = rec[s] \/ Fits(s, rec'[s])
  BY <1>4, <1>6
<1> QED BY <1>1, <1>2, <1>6, <1>7, <1>8, <1>9, <1>10, RecordsStep

--------------------------------------------------------------------------------
(* Activation, and what monitororder writes without a claim *)

\* begin_claimed_submit: nothing the venue may still act on has this client id.
LEMMA BeginStep == ASSUME RInv, NEW p \in Procs, Begin(p) PROVE RInv'
<1> DEFINE r == proc[p].rec
           x == rec[r]
           y == Begun(x, p)
           z == [proc[p] EXCEPT !.at = "begun", !.qty = x.qty, !.rev = x.rev]
<1>1. /\ proc[p].at = "active" /\ orders' = orders /\ excused' = excused /\ mishaps' = mishaps
      /\ r \in Recs
  BY RecOfProc DEF Begin
<1>2. /\ rec \in [Recs -> RecSet] /\ x \in RecSet /\ Fits(r, x) /\ proc \in [Procs -> ProcSet]
      /\ proc[p] \in ProcSet /\ mishaps' \in 0..MaxMishaps /\ excused \subseteq Oids
  BY <1>1, Types DEF RInv, Typed
<1>3. CASE ~Mine(p)
  BY <1>1, <1>3, AbandonStep DEF Begin
<1>4. CASE Mine(p)
  <2>1. rec' = [rec EXCEPT ![r] = y] /\ proc' = [proc EXCEPT ![p] = z]
    BY <1>2, <1>4 DEF Begin, Complete, ProcSet
  <2>2. /\ x.life = "pending" /\ (x.sub = "claimed" => x.owner = "dead")
        /\ \A k \in Sent(r, x.rev) : Lost(k)
        /\ x.holder = p /\ x.qty >= 1 /\ x.rev \in Nat
    BY <1>1, <1>2, <1>4 DEF RInv, ClaimSane, Fits, Mine, RecSet
  <2>3. /\ z \in ProcSet /\ z.at = "begun" /\ z.rec = r /\ z.qty = x.qty /\ z.rev = x.rev
    BY <1>2 DEF ProcSet, RecSet
  <2>4. Fits(r, y) /\ y \in RecSet
    BY <1>1, <1>2, <2>2, FitsSubmit
  <2>5. /\ y.life = "pending" /\ y.sub = "claimed" /\ y.owner = p /\ y.old = x.old
        /\ y.rev = x.rev /\ y.holder = p
    BY <1>2, <2>2, LeasedIs
  <2>6. Completes(p, x, y)
    BY <1>1, <2>2, <2>4, <2>5 DEF Completes
  <2> HIDE DEF x, y, z
  <2>7. /\ rec' \in [Recs -> RecSet] /\ rec'[r] = y /\ \A s \in Recs : s # r => rec'[s] = rec[s]
        /\ proc' \in [Procs -> ProcSet] /\ proc'[p] = z
        /\ \A q \in Procs : q # p => proc'[q] = proc[q]
    BY <1>1, <1>2, <2>1, <2>3, <2>4
  <2>8. \A q \in Procs : q # p => Untouched(q)
    BY <1>4, <2>1, <2>6, <2>7, OthersUntouched DEF x
  <2>9. ClaimSane(p)' /\ SubmitSane(p)'
    <3>1. \A rev : Sent(r, rev)' = Sent(r, rev)
      BY <1>1, <2>3, <2>7 DEF Sent, OrdersOf, Known
    <3> QED BY <1>1, <2>2, <2>3, <2>5, <2>7, <3>1 DEF ClaimSane, SubmitSane, Owns, Lost
  <2>10. MonitorSane'
    <3>1. CASE p = "mon"
      BY <2>3, <2>7, <3>1 DEF MonitorSane, Mon
    <3>2. CASE p = "wrk"
      BY <1>1, <1>4, <2>1, <2>6, <2>7, <3>2, MonitorUntouched DEF Wrk, Mon, x
    <3> QED BY <3>1, <3>2
  <2>11. SubmittersApart'
    <3>1. ASSUME NEW q \in Procs, q # p, proc[q].at \in {"begun", "sent"}, proc[q].rec = r
          PROVE  proc[q].rev # x.rev
      <4>1. SubmitSane(q) /\ x.life = "pending" /\ ~Owns(q)
        BY <2>2, <3>1 DEF RInv, Owns, x
      <4>2. proc[q].at = "sent" /\ x.rev > proc[q].rev
        BY <3>1, <4>1 DEF SubmitSane, x
      <4> QED BY <2>2, <4>2
    <3> QED BY <2>3, <2>7, <3>1 DEF RInv, SubmittersApart
  <2>12. \A s \in Recs : rec'[s] = rec[s] \/ Fits(s, rec'[s])
    BY <2>4, <2>7
  <2> QED BY <1>1, <1>2, <2>7, <2>8, <2>9, <2>10, <2>11, <2>12, RecordsStep
<1> QED BY <1>3, <1>4

\* resolve_accepted_order: the tracker of a canceled order goes.
LEMMA ResolveStep == RInv /\ Resolve => RInv'
<1> SUFFICES ASSUME RInv, Resolve PROVE RInv'
  OBVIOUS
<1>1. /\ Mon.at = "resolve" /\ Done("mon")
      /\ rec' = [r \in Recs |-> IF rec[r].life = "accepted" /\ rec[r].oid = Mon.oid
                                THEN Gone(rec[r]) ELSE rec[r]]
      /\ orders' = orders /\ excused' = excused /\ mishaps' = mishaps
  BY DEF Resolve
<1>2. /\ rec \in [Recs -> RecSet] /\ proc \in [Procs -> ProcSet]
      /\ mishaps' \in 0..MaxMishaps /\ excused \subseteq Oids
  BY <1>1, Types DEF RInv, Typed
<1>3. orders[Mon.oid].st = "canceled"
  BY <1>1 DEF RInv, MonitorSane
<1>4. ASSUME NEW r \in Recs, rec'[r] # rec[r]
      PROVE  /\ rec[r].life = "accepted" /\ rec'[r] = Gone(rec[r]) /\ Fits(r, Gone(rec[r]))
             /\ Gone(rec[r]) \in RecSet
  <2>1. rec[r].life = "accepted" /\ rec[r].oid = Mon.oid /\ rec'[r] = Gone(rec[r])
    BY <1>1, <1>4
  <2>2. rec[r] \in RecSet /\ Fits(r, rec[r])
    BY <1>2 DEF RInv
  <2>3. \A k \in OrdersOf(r) : ~Live(k)
    BY <1>3, <2>1, <2>2 DEF Fits, Live
  <2> QED BY <2>1, <2>2, <2>3, FitsGone
<1>5. rec' \in [Recs -> RecSet]
  <2>1. \A r \in Recs : rec'[r] \in RecSet
    BY <1>2, <1>4
  <2> QED BY <1>1, <2>1
<1>6. proc' \in [Procs -> ProcSet] /\ proc'["mon"] = Idle /\ proc'["wrk"] = proc["wrk"]
  BY <1>1, <1>2, IdleIs DEF Done
<1>7. Untouched("wrk")
  <2>1. proc["wrk"].rec \in Recs /\ SubmitSane("wrk")
    BY RecOfProc DEF RInv
  <2> DEFINE r == proc["wrk"].rec
  <2>2. CASE rec'[r] # rec[r]
    <3>1. /\ rec[r].life = "accepted" /\ rec'[r] = Gone(rec[r]) /\ rec[r] \in RecSet
      BY <1>2, <1>4, <2>1, <2>2
    <3>2. rec'[r].life = "gone" /\ rec'[r].rev = rec[r].rev /\ rec[r].rev \in Nat
      BY <3>1, WritesAre DEF RecSet
    <3>3. proc["wrk"].at # "begun"
      BY <2>1, <3>1 DEF SubmitSane, Owns
    <3> QED BY <1>6, <3>2, <3>3 DEF Untouched
  <2>3. CASE rec'[r] = rec[r]
    BY <1>6, <2>3, UnwrittenUntouched
  <2> QED BY <2>2, <2>3
<1>8. SubmittersApart'
  BY <1>6, IdleIs, ApartStays
<1>9. \A s \in Recs : rec'[s] = rec[s] \/ Fits(s, rec'[s])
  BY <1>4
<1> QED BY <1>1, <1>2, <1>5, <1>6, <1>7, <1>8, <1>9, RecordsStep

LEMMA ClaimReplacementStep == RInv /\ ClaimReplacement => RInv'
<1> SUFFICES ASSUME RInv, ClaimReplacement PROVE RInv'
  OBVIOUS
<1> DEFINE r == Mon.rec
           x == rec[r]
           y == Leased(x, "mon")
           z == [proc["mon"] EXCEPT !.at = "leased"]
<1>1. Mon.at = "queued" /\ r \in Recs
      /\ orders' = orders /\ excused' = excused /\ mishaps' = mishaps
  BY RecOfProc DEF ClaimReplacement, Mon
<1>2. /\ rec \in [Recs -> RecSet] /\ x \in RecSet /\ Fits(r, x) /\ proc \in [Procs -> ProcSet]
      /\ Mon \in ProcSet /\ mishaps' \in 0..MaxMishaps /\ excused \subseteq Oids
  BY <1>1, Types DEF RInv, Typed, Mon
<1>3. CASE ~(Queued(r) /\ ~x.leased)
  BY <1>1, <1>3, AbandonStep DEF ClaimReplacement
<1>4. CASE Queued(r) /\ ~x.leased
  <2>1. rec' = [rec EXCEPT ![r] = y] /\ proc' = [proc EXCEPT !["mon"] = z]
    BY <1>4 DEF ClaimReplacement, Goto, Mon
  <2>2. y \in RecSet /\ Agrees(x, y) /\ y.holder = "mon" /\ y.owner = x.owner
    BY <1>2, LeasedIs
  <2>3. z \in ProcSet /\ z.at = "leased" /\ z.rec = r /\ z.oid = Mon.oid
    BY <1>2 DEF ProcSet, Mon
  <2>4. /\ Mon.oid \in Known /\ orders[Mon.oid].st \notin {"wire", "lost"}
        /\ orders[Mon.oid].st = "canceled" => Mon.oid \in excused
        /\ r # 0 /\ x.life # "unused" /\ x.old = Mon.oid
        /\ orders[Mon.oid].st = "open" => x.life = "awaiting"
    BY <1>1 DEF RInv, MonitorSane
  <2>5. x.life = "awaiting" \/ Mon.oid \in excused
    BY <1>2, <1>4, <2>4 DEF Fits, Queued
  <2> HIDE DEF x, y, z
  <2>6. /\ rec' \in [Recs -> RecSet] /\ rec'[r] = y /\ \A s \in Recs : s # r => rec'[s] = rec[s]
        /\ proc' \in [Procs -> ProcSet] /\ proc'["mon"] = z /\ proc'["wrk"] = proc["wrk"]
    BY <1>1, <1>2, <2>1, <2>2, <2>3
  <2>7. Untouched("wrk")
    BY <1>1, <2>1, <2>2, <2>6, SameUntouched DEF Agrees, x
  <2>8. Known' = Known
    BY <1>1 DEF Known
  <2>9. MonitorSane' /\ ClaimSane("mon")' /\ SubmitSane("mon")'
    BY <1>1, <2>2, <2>3, <2>4, <2>5, <2>6, <2>8
       DEF MonitorSane, ClaimSane, SubmitSane, Mon, Agrees
  <2>10. SubmittersApart'
    BY <2>3, <2>6, ApartStays
  <2>11. \A s \in Recs : rec'[s] = rec[s] \/ Agrees(rec[s], rec'[s])
    BY <2>2, <2>6 DEF x
  <2> QED BY <1>1, <1>2, <2>6, <2>7, <2>9, <2>10, <2>11, RecordsStep
<1> QED BY <1>3, <1>4

\* activate_claimed_replacement, for the record itself ...
LEMMA ActivatedRecord ==
  ASSUME RInv, NEW p \in Procs, NEW lease \in BOOLEAN,
         rec[proc[p].rec].life = "awaiting", rec[proc[p].rec].holder = p,
         orders[rec[proc[p].rec].old].st = "canceled",
         rec' = Activated(p, orders[rec[proc[p].rec].old], lease)
  PROVE  LET r == proc[p].rec
             x == rec[r]
             y == rec'[r]
         IN  /\ r \in Recs /\ x \in RecSet /\ y \in RecSet /\ Fits(r, y) /\ OrdersOf(r) = {}
             /\ y.old = x.old /\ y.rev = x.rev /\ y.holder \in {"none", p}
             /\ \/ y.life = "gone" /\ Rest(orders[x.old]) = 0 /\ y.holder = "none"
                \/ /\ y.life = "pending" /\ y.sub = "refused" /\ Rest(orders[x.old]) # 0
                   /\ y.qty = Rest(orders[x.old])
                   /\ ~lease => y.holder = "none"
<1> DEFINE r == proc[p].rec
           x == rec[r]
           o == orders[x.old]
           q == Rest(o)
           y0 == [x EXCEPT !.life = "pending", !.sub = "refused", !.qty = q]
           y == IF q = 0 THEN Gone(x) ELSE IF lease THEN y0 ELSE Unleased(y0)
<1>1. r \in Recs /\ x \in RecSet /\ Fits(r, x) /\ OrdersOf(r) = {}
  <2>1. r \in Recs
    BY RecOfProc
  <2> QED BY <2>1, AwaitingHasNoOrders, Types DEF RInv, Typed
<1>2. rec'[r] = y
  BY <1>1 DEF Activated, ActivatedQty
<1>3. x.old \in Known /\ q \in 0..Qty
  <2>1. x.old \in Known
    BY <1>1 DEF Fits
  <2>2. o.qty \in 1..Qty /\ o.filled \in 0..Qty /\ o.filled <= o.qty
    BY <2>1, Types DEF RInv, Typed, OrderSet, OrderSane
  <2> HIDE DEF o
  <2>3. Rest(o) \in 0..Qty
    BY <2>2 DEF Rest
  <2> QED BY <2>1, <2>3
<1>4. /\ x.life = "awaiting" /\ x.holder = p /\ orders[x.old].st = "canceled" /\ r # 0
      /\ x.rev <= Len(orders)
  BY <1>1 DEF Fits
<1> HIDE DEF x, q
<1>5. CASE q = 0
  <2>1. y = Gone(x)
    BY <1>5
  <2>2. Fits(r, Gone(x)) /\ Gone(x) \in RecSet
    BY <1>1, <1>4, FitsGone
  <2>3. Gone(x).life = "gone" /\ Gone(x).old = x.old /\ Gone(x).rev = x.rev /\ Gone(x).holder = "none"
    BY <1>1, WritesAre
  <2> QED BY <1>1, <1>2, <1>5, <2>1, <2>2, <2>3 DEF x, q
<1>6. CASE q # 0
  <2>1. /\ y0 \in RecSet /\ y0.life = "pending" /\ y0.sub = "refused" /\ y0.qty = q
        /\ y0.old = x.old /\ y0.rev = x.rev /\ y0.holder = x.holder
    BY <1>1, <1>3 DEF RecSet
  <2> HIDE DEF y0
  <2>2. Unleased(y0) \in RecSet /\ Agrees(y0, Unleased(y0)) /\ Unleased(y0).holder = "none"
    BY <2>1, WritesAre
  <2>3. y = IF lease THEN y0 ELSE Unleased(y0)
    BY <1>6
  <2> HIDE DEF y
  <2>4. /\ y \in RecSet /\ y.life = "pending" /\ y.sub = "refused" /\ y.qty = q
        /\ y.old = x.old /\ y.rev = x.rev /\ y.holder \in {"none", p}
        /\ ~lease => y.holder = "none"
    BY <1>4, <2>1, <2>2, <2>3 DEF Agrees
  <2>5. q >= 1
    BY <1>3, <1>6
  <2>6. Sent(r, y.rev) = {}
    BY <1>1 DEF Sent
  <2>7. Fits(r, y)
    BY <1>1, <1>3, <1>4, <2>4, <2>5, <2>6 DEF Fits
  <2> QED BY <1>1, <1>2, <1>6, <2>4, <2>7 DEF x, q
<1> QED BY <1>5, <1>6

\* ... and for the trackers of the order it replaces.
LEMMA ActivatedOthers ==
  ASSUME RInv, NEW p \in Procs, NEW lease \in BOOLEAN,
         orders[rec[proc[p].rec].old].st = "canceled",
         rec' = Activated(p, orders[rec[proc[p].rec].old], lease),
         NEW s \in Recs, s # proc[p].rec, rec'[s] # rec[s]
  PROVE  /\ rec[s].life = "accepted" /\ rec[s].oid = rec[proc[p].rec].old
         /\ rec'[s] = Gone(rec[s]) /\ Fits(s, rec'[s])
         /\ rec'[s] \in RecSet /\ rec'[s].life = "gone" /\ rec'[s].old = rec[s].old
         /\ rec'[s].rev = rec[s].rev /\ rec[s].rev \in Nat /\ rec'[s].holder = "none"
<1>1. rec[s].life = "accepted" /\ rec[s].oid = rec[proc[p].rec].old /\ rec'[s] = Gone(rec[s])
  BY DEF Activated
<1>2. rec[s] \in RecSet /\ Fits(s, rec[s])
  BY Types DEF RInv, Typed
<1>3. \A k \in OrdersOf(s) : ~Live(k)
  BY <1>1, <1>2 DEF Fits, Live
<1>4. Fits(s, Gone(rec[s]))
  BY <1>1, <1>2, <1>3, FitsGone
<1>5. rec[s].rev \in Nat
  BY <1>2 DEF RecSet
<1> QED BY <1>1, <1>2, <1>4, <1>5, WritesAre

LEMMA NoLess == ASSUME NEW m \in Nat, NEW n, n = m PROVE n >= m
OBVIOUS

LEMMA ActivatedStep ==
  ASSUME RInv, NEW p \in Procs, NEW lease \in BOOLEAN, lease => p = "mon",
         Mine(p), rec[proc[p].rec].life = "awaiting",
         orders[rec[proc[p].rec].old].st = "canceled",
         rec' = Activated(p, orders[rec[proc[p].rec].old], lease),
         orders' = orders, excused' = excused, mishaps' = mishaps,
         Done(p) \/ (p = "mon" /\ Goto("mon", "active"))
  PROVE  RInv'
<1> DEFINE r == proc[p].rec
           x == rec[r]
           y == rec'[r]
<1>1. /\ rec \in [Recs -> RecSet] /\ proc \in [Procs -> ProcSet] /\ proc[p] \in ProcSet
      /\ mishaps' \in 0..MaxMishaps /\ excused \subseteq Oids
  BY Types DEF RInv, Typed
<1>2. x.holder = p
  BY DEF Mine
<1>3. /\ r \in Recs /\ x \in RecSet /\ y \in RecSet /\ Fits(r, y) /\ OrdersOf(r) = {}
      /\ y.old = x.old /\ y.rev = x.rev /\ y.holder \in {"none", p}
      /\ \/ y.life = "gone" /\ y.holder = "none"
         \/ /\ y.life = "pending" /\ y.sub = "refused"
            /\ ~lease => y.holder = "none"
  BY ZenonT(40), <1>2, ActivatedRecord
<1>4. \A s \in Recs : \/ s = r \/ rec'[s] = rec[s]
                      \/ /\ rec[s].life = "accepted" /\ Fits(s, rec'[s])
                         /\ rec'[s] \in RecSet /\ rec'[s].life = "gone"
                         /\ rec'[s].old = rec[s].old /\ rec'[s].rev = rec[s].rev
                         /\ rec[s].rev \in Nat /\ rec'[s].holder = "none"
  BY ZenonT(40), ActivatedOthers
<1>5. rec' \in [Recs -> RecSet]
  <2>1. ASSUME NEW s \in Recs PROVE rec'[s] \in RecSet
    <3>1. rec[s] \in RecSet
      BY <1>1
    <3> QED BY <1>3, <1>4, <3>1, Zenon
  <2> QED BY <2>1 DEF Activated
<1>6. /\ proc' \in [Procs -> ProcSet] /\ \A q \in Procs : q # p => proc'[q] = proc[q]
      /\ \/ proc'[p] = Idle
         \/ p = "mon" /\ proc'[p].at = "active" /\ proc'[p].rec = r
  <2>1. CASE Done(p)
    BY <1>1, <2>1, IdleIs DEF Done
  <2>2. CASE p = "mon" /\ Goto("mon", "active")
    BY <1>1, <2>2 DEF Goto, ProcSet
  <2> QED BY <2>1, <2>2
<1>7. ASSUME NEW q \in Procs, q # p PROVE Untouched(q)
  <2>1. proc[q].rec \in Recs /\ SubmitSane(q) /\ proc'[q] = proc[q]
    BY <1>6, <1>7, RecOfProc DEF RInv
  <2>2. CASE proc[q].rec = r
    <3>1. proc[q].at # "begun"
      BY <2>1, <2>2 DEF SubmitSane, Owns
    <3>2. proc[q].at # "sent"
      BY <1>3, <2>1, <2>2 DEF SubmitSane, Sent
    <3> QED BY <1>3, <1>7, <2>1, <2>2, <3>1, <3>2 DEF Untouched
  <2>3. CASE rec'[proc[q].rec] = rec[proc[q].rec]
    BY <2>1, <2>3, UnwrittenUntouched
  <2>4. CASE proc[q].rec # r /\ rec'[proc[q].rec] # rec[proc[q].rec]
    <3> DEFINE s == proc[q].rec
    <3>1. /\ rec[s].life = "accepted" /\ rec'[s].life = "gone"
          /\ rec'[s].rev = rec[s].rev /\ rec[s].rev \in Nat /\ rec'[s].holder = "none"
      BY <1>4, <2>1, <2>4
    <3>2. proc[q].at # "begun"
      BY <2>1, <3>1 DEF SubmitSane, Owns
    <3>3. rec'[s].rev >= rec[s].rev
      BY <3>1, NoLess
    <3> QED BY <2>1, <3>1, <3>2, <3>3 DEF Untouched
  <2> QED BY <2>2, <2>3, <2>4
<1>8. proc'[p] = Idle \/ (ClaimSane(p)' /\ SubmitSane(p)')
  <2>1. SUFFICES ASSUME proc'[p].at = "active" /\ proc'[p].rec = r
                 PROVE  ClaimSane(p)' /\ SubmitSane(p)'
    BY <1>6
  <2>2. Sent(proc[p].rec, rec[proc[p].rec].rev)' = {}
    BY <1>3, <2>1 DEF Sent, OrdersOf, Known
  <2>3. y.life \in {"awaiting", "pending", "accepted"} => y.life = "pending" /\ y.sub = "refused"
    BY <1>3
  <2> HIDE DEF y, r
  <2>4. ClaimSane(p)'
    BY <2>1, <2>2, <2>3 DEF ClaimSane, Mine, Queued, y
  <2> QED BY <2>1, <2>4 DEF SubmitSane
<1>9. MonitorSane'
  <2>1. CASE p = "mon"
    <3>1. Mon'.at \in {"idle", "active"}
      BY <1>6, <2>1, IdleIs DEF Mon
    <3> QED BY <3>1 DEF MonitorSane
  <2>2. CASE p = "wrk"
    <3>1. Mon.rec \in Recs /\ proc'["mon"] = Mon /\ ~lease
      BY <1>6, <2>2, RecOfProc DEF Mon
    <3>2. Mon.at \in {"queued", "leased", "canceled"} =>
            rec[Mon.rec].life # "unused" /\ rec[Mon.rec].old = Mon.oid
      BY DEF RInv, MonitorSane
    <3>3. CASE Mon.rec = r
      BY <1>3, <3>1, <3>2, <3>3, MonitorStays
    <3>4. CASE Mon.rec # r /\ rec'[Mon.rec] # rec[Mon.rec]
      BY <1>4, <3>1, <3>2, <3>4, MonitorStays
    <3>5. CASE rec'[Mon.rec] = rec[Mon.rec]
      BY <3>1, <3>2, <3>5, MonitorStays
    <3> QED BY <3>3, <3>4, <3>5
  <2> QED BY <2>1, <2>2
<1>10. SubmittersApart'
  BY <1>6, IdleIs, ApartStays
<1>11. \A s \in Recs : rec'[s] = rec[s] \/ Fits(s, rec'[s])
  BY <1>3, <1>4
<1> QED BY <1>1, <1>5, <1>6, <1>7, <1>8, <1>9, <1>10, <1>11, RecordsStep

LEMMA ActivateStep == RInv /\ Activate => RInv'
<1> SUFFICES ASSUME RInv, Activate PROVE RInv'
  OBVIOUS
<1>1. Mon.at = "canceled" /\ orders[Mon.oid].st = "canceled" /\ rec[Mon.rec].old = Mon.oid
      /\ orders' = orders /\ excused' = excused /\ mishaps' = mishaps
  BY DEF Activate, CancelConfirmed, RInv, MonitorSane
<1>2. CASE ~Activates("mon", orders[Mon.oid])
  BY <1>1, <1>2, AbandonStep DEF Activate
<1>3. CASE Activates("mon", orders[Mon.oid])
  <2>1. Mine("mon") /\ rec[Mon.rec].life = "awaiting"
    BY <1>3 DEF Activates, Mon
  <2>2. rec' = Activated("mon", orders[Mon.oid], TRUE) /\ (Done("mon") \/ Goto("mon", "active"))
    BY <1>3 DEF Activate
  <2> QED BY <1>1, <2>1, <2>2, ActivatedStep DEF Mon
<1> QED BY <1>2, <1>3

LEMMA AwaitCancelStep == RInv /\ AwaitCancel => RInv'
<1> SUFFICES ASSUME RInv, AwaitCancel PROVE RInv'
  OBVIOUS
<1> DEFINE x == rec[Wrk.rec]
           o == orders[x.old]
<1>1. /\ Wrk.at = "awaiting" /\ Done("wrk")
      /\ orders' = orders /\ excused' = excused /\ mishaps' = mishaps
      /\ IF o.st = "canceled"
         THEN IF Activates("wrk", o) THEN rec' = Activated("wrk", o, FALSE)
                                     ELSE Complete("wrk", Unleased(x))
         ELSE o.st \in Ended /\ Complete("wrk", Gone(x))
  BY DEF AwaitCancel, CancelConfirmed
<1>2. CASE o.st = "canceled" /\ Activates("wrk", o)
  <2>1. Mine("wrk") /\ x.life = "awaiting" /\ rec' = Activated("wrk", o, FALSE)
    BY <1>1, <1>2 DEF Activates, Wrk
  <2> QED BY <1>1, <1>2, <2>1, ActivatedStep DEF Wrk
<1>3. CASE o.st = "canceled" /\ ~Activates("wrk", o)
  BY <1>1, <1>3, CompleteStep, CompletesUnleased, Unexcused DEF Wrk
<1>4. CASE o.st # "canceled"
  <2>1. ASSUME Mine("wrk") PROVE Completes("wrk", x, Gone(x))
    <3>1. x.life = "awaiting" /\ Wrk.rec \in Recs
      BY <1>1, <2>1, RecOfProc DEF RInv, ClaimSane, Wrk
    <3>2. OrdersOf(Wrk.rec) = {}
      BY <3>1, AwaitingHasNoOrders
    <3> QED BY <1>1, <1>4, <2>1, <3>1, <3>2, CompletesGone DEF Wrk, Ended
  <2> QED BY <1>1, <1>4, <2>1, CompleteStep, Unexcused DEF Wrk
<1> QED BY <1>1, <1>2, <1>3, <1>4

\* enqueue: an order has one waiting record.
LEMMA EnqueueStep == RInv /\ Enqueue => RInv'
<1> SUFFICES ASSUME RInv, Enqueue PROVE RInv'
  OBVIOUS
<1> DEFINE k == Mon.oid
           x == proc["mon"]
<1>1. Mon.at = "listed" /\ orders' = orders /\ excused' = excused /\ mishaps' = mishaps
  BY DEF Enqueue
<1>2. /\ rec \in [Recs -> RecSet] /\ proc \in [Procs -> ProcSet] /\ x \in ProcSet
      /\ mishaps' \in 0..MaxMishaps /\ excused \subseteq Oids
  BY <1>1, Types DEF RInv, Typed
<1>3. /\ k \in Known /\ orders[k].st \notin {"wire", "lost"}
      /\ orders[k].st = "canceled" => k \in excused
  BY <1>1 DEF RInv, MonitorSane
<1>4. Known' = Known
  BY <1>1 DEF Known
<1>5. CASE Waiting(k) # {}
  <2> DEFINE m == Min(Waiting(k))
             z == [x EXCEPT !.at = "queued", !.rec = m]
  <2>1. m \in Waiting(k)
    BY <1>5, MinMaxOids DEF Waiting
  <2>2. m \in Recs /\ rec[m].life = "awaiting" /\ rec[m].old = k /\ m # 0
    BY <2>1 DEF Waiting, RInv, Fits
  <2>3. rec' = rec /\ proc' = [proc EXCEPT !["mon"] = z]
    BY <1>5 DEF Enqueue
  <2> HIDE DEF m
  <2>4. z \in ProcSet /\ z.at = "queued" /\ z.rec = m /\ z.oid = k
    BY <1>2, <2>2 DEF ProcSet, Mon
  <2> HIDE DEF z
  <2>5. proc'["mon"] = z
    BY <1>2, <2>3
  <2>6. MonitorSane' /\ ClaimSane("mon")'
    BY <1>1, <1>3, <1>4, <2>2, <2>3, <2>4, <2>5 DEF MonitorSane, ClaimSane, Mon
  <2> QED BY <1>1, <1>2, <2>3, <2>4, <2>6, ProcStep
<1>6. CASE Waiting(k) = {}
  <2> DEFINE m == Min(Free)
             z == [x EXCEPT !.at = "queued", !.rec = m]
  <2>1. m \in Free
    BY <1>6, MinMaxOids DEF Free, Enqueue
  <2>2. m \in Recs /\ rec[m].life = "unused"
    BY <2>1 DEF Free
  <2>3. m # 0 /\ OrdersOf(m) = {}
    BY <2>2 DEF RInv, Fits
  <2>4. PICK q \in Rest(orders[k])..orders[k].qty :
          q > 0 /\ rec' = [rec EXCEPT ![m] = [Unused EXCEPT !.life = "awaiting", !.qty = q, !.old = k]]
    BY <1>6 DEF Enqueue
  <2> DEFINE y == [Unused EXCEPT !.life = "awaiting", !.qty = q, !.old = k]
  <2>5. proc' = [proc EXCEPT !["mon"] = z]
    BY <1>6 DEF Enqueue
  <2>6. q \in 0..Qty /\ k \in 0..MaxOrders /\ q >= 1
    <3>1. orders[k].qty \in 1..Qty /\ orders[k].filled \in 0..Qty /\ k \in Oids
      BY <1>3, Types DEF RInv, Typed, OrderSet
    <3>2. Rest(orders[k]) \in Int
      BY <3>1 DEF Rest
    <3> QED BY <2>4, <3>1, <3>2 DEF Oids
  <2> HIDE DEF m
  <2>7. /\ y \in RecSet /\ y.life = "awaiting" /\ y.qty = q /\ y.old = k /\ y.rev = 0
        /\ y.holder = "none"
    BY <2>6, UnusedIs, Zenon DEF RecSet
  <2>8. z \in ProcSet /\ z.at = "queued" /\ z.rec = m /\ z.oid = k
    BY <1>2, <2>2 DEF ProcSet, Mon
  <2>9. rec' = [rec EXCEPT ![m] = y]
    BY <2>4
  <2> HIDE DEF y, z
  <2>10. Fits(m, y)
    <3>1. Len(orders) \in Nat
      BY Types DEF RInv, Typed
    <3> QED BY <1>3, <2>3, <2>6, <2>7, <3>1 DEF Fits
  <2>11. /\ rec' \in [Recs -> RecSet] /\ rec'[m] = y /\ \A s \in Recs : s # m => rec'[s] = rec[s]
         /\ proc' \in [Procs -> ProcSet] /\ proc'["mon"] = z /\ proc'["wrk"] = proc["wrk"]
    BY <1>2, <2>2, <2>5, <2>7, <2>8, <2>9
  <2>12. MonitorSane' /\ ClaimSane("mon")' /\ SubmitSane("mon")'
    BY <1>1, <1>3, <1>4, <2>3, <2>7, <2>8, <2>11 DEF MonitorSane, ClaimSane, SubmitSane, Mon
  <2>13. Untouched("wrk")
    <3>1. proc["wrk"].rec \in Recs /\ SubmitSane("wrk")
      BY RecOfProc DEF RInv
    <3>2. CASE proc["wrk"].rec = m
      <4>1. proc["wrk"].at # "begun"
        BY <2>2, <3>1, <3>2 DEF SubmitSane, Owns
      <4>2. proc["wrk"].at # "sent"
        BY <2>3, <3>1, <3>2 DEF SubmitSane, Sent
      <4> QED BY <2>7, <2>11, <3>2, <4>1, <4>2 DEF Untouched
    <3>3. CASE proc["wrk"].rec # m
      BY <2>11, <3>1, <3>3, UnwrittenUntouched
    <3> QED BY <3>2, <3>3
  <2>14. SubmittersApart'
    BY <2>8, <2>11, ApartStays
  <2>15. \A s \in Recs : rec'[s] = rec[s] \/ Fits(s, rec'[s])
    BY <2>10, <2>11
  <2> QED BY <1>1, <1>2, <2>11, <2>12, <2>13, <2>14, <2>15, RecordsStep
<1> QED BY <1>5, <1>6

--------------------------------------------------------------------------------
(* The venue *)

\* A live order opens, is lost, is filled, expires or is canceled.
LEMMA AmendStep ==
  ASSUME RInv, NEW k \in Known, NEW o \in OrderSet, orders' = [orders EXCEPT ![k] = o],
         o.of = orders[k].of, o.rev = orders[k].rev, o.qty = orders[k].qty, o.filled <= o.qty,
         Live(k), o.st # "wire", o.st = "lost" => orders[k].st = "wire",
         o.st \in {"open", "lost"} => o.filled < o.qty,
         rec' = rec, excused \subseteq excused', excused' \subseteq Oids,
         mishaps' \in 0..MaxMishaps, proc' \in [Procs -> ProcSet], proc'["wrk"] = proc["wrk"],
         \/ proc'["mon"] = Mon /\ (o.st = "canceled" => k \in excused')
         \/ proc'["mon"].at \in {"idle", "resolve", "canceled"} /\ MonitorSane'
  PROVE  RInv'
<1>1. /\ orders' \in Seq(OrderSet) /\ Len(orders') = Len(orders) /\ Known' = Known
      /\ \A j \in Known : orders'[j] = IF j = k THEN o ELSE orders[j]
  <2>1. orders \in Seq(OrderSet)
    BY DEF RInv, TypeOK, OrderSet
  <2> QED BY <2>1, OneOrderChanges
<1>2. \A j \in Known : /\ orders'[j].of = orders[j].of /\ orders'[j].rev = orders[j].rev
                       /\ Lost(j) => Lost(j)'
                       /\ Lost(j)' => Lost(j) \/ orders[j].st = "wire"
                       /\ Live(j)' => Live(j)
                       /\ orders[j].st = "canceled" => orders'[j].st = "canceled"
                       /\ orders[j].st \notin {"wire", "lost"} => orders'[j].st \notin {"wire", "lost"}
  BY <1>1 DEF Lost, Live
<1>3. ASSUME NEW r PROVE OrdersOf(r)' = OrdersOf(r)
  BY <1>1, <1>2 DEF OrdersOf
<1>4. ASSUME NEW r, NEW rev PROVE Sent(r, rev)' = Sent(r, rev) /\ Sent(r, rev) \subseteq Known
  BY <1>1, <1>2 DEF Sent, OrdersOf
<1>5. TypeOK'
  BY <1>1, Types DEF RInv, Typed, TypeOK, OrderSet, RecSet, ProcSet
<1>6. IdsUsedOnce'
  BY <1>1, <1>2 DEF RInv, IdsUsedOnce
<1>7. \A j \in Known' : OrderSane(j)'
  <2>1. OrderSane(k)'
    BY <1>1 DEF RInv, OrderSane, Live, Lost
  <2>2. ASSUME NEW j \in Known, j # k PROVE OrderSane(j)'
    BY <1>1, <2>2 DEF RInv, OrderSane, Live, Lost
  <2> QED BY <1>1, <2>1, <2>2
<1>8. ASSUME NEW r \in Recs PROVE Fits(r, rec[r])'
  <2> DEFINE x == rec[r]
  <2>1. Fits(r, x)
    BY DEF RInv
  <2>2. OrdersOf(r)' = OrdersOf(r) /\ Sent(r, x.rev)' = Sent(r, x.rev) /\ OrdersOf(r) \subseteq Known
        /\ Sent(r, x.rev) \subseteq Known
    <3>1. Sent(r, x.rev) \subseteq Known /\ OrdersOf(r) \subseteq Known
      BY DEF Sent, OrdersOf
    <3> QED BY <1>1, <1>2, <1>3, <3>1 DEF Sent
  <2>3. rec'[r] = x
    OBVIOUS
  <2>4. /\ x.rev <= Len(orders')
        /\ x.life \in {"awaiting", "pending", "accepted"} => x.qty >= 1
        /\ r = 0 => x.old = 0 /\ x.life \notin {"unused", "awaiting"}
        /\ r # 0 /\ x.life # "unused" => x.old \in Known'
        /\ r # 0 /\ x.life \in {"pending", "accepted"} => orders'[x.old].st = "canceled"
    BY <1>1, <1>2, <2>1 DEF Fits
  <2>5. /\ x.life = "accepted" =>
             x.oid \in Sent(r, x.rev) /\ orders'[x.oid].st \notin {"wire", "lost"}
        /\ x.life = "pending" /\ x.sub = "refused" => \A j \in Sent(r, x.rev) : Lost(j)'
    BY <1>2, <2>1, <2>2 DEF Fits
  <2>6. ASSUME NEW j \in OrdersOf(r)
        PROVE  /\ orders'[j].rev <= x.rev
               /\ x.life \in {"pending", "accepted", "gone"}
               /\ Live(j)' => \/ x.life = "gone" /\ x.old \in excused'
                              \/ x.life = "accepted" /\ x.oid = j
                              \/ x.life = "pending" /\ x.sub # "refused" /\ x.rev = orders'[j].rev
    BY <1>2, <2>1, <2>2 DEF Fits
  <2> QED BY <2>2, <2>3, <2>4, <2>5, <2>6 DEF Fits
<1>9. ASSUME NEW p \in Procs, proc'[p] = proc[p] PROVE ClaimSane(p)' /\ SubmitSane(p)'
  <2>1. ClaimSane(p) /\ SubmitSane(p)
    BY DEF RInv
  <2> DEFINE r == proc[p].rec
             x == rec[r]
  <2>2. Mine(p)' = Mine(p) /\ Owns(p)' = Owns(p)
    BY <1>9 DEF Mine, Owns, Queued
  <2>3. /\ Sent(r, x.rev)' = Sent(r, x.rev) /\ Sent(r, proc[p].rev)' = Sent(r, proc[p].rev)
        /\ Sent(r, x.rev) \subseteq Known /\ Sent(r, proc[p].rev) \subseteq Known
    <3>1. Sent(r, x.rev) \subseteq Known /\ Sent(r, proc[p].rev) \subseteq Known
      BY DEF Sent, OrdersOf
    <3> QED BY <1>1, <1>2, <1>9, <3>1 DEF Sent, OrdersOf
  <2>4. ClaimSane(p)'
    BY <1>2, <1>9, <2>1, <2>2, <2>3 DEF ClaimSane
  <2>5. SubmitSane(p)'
    BY <1>2, <1>9, <2>1, <2>2, <2>3 DEF SubmitSane
  <2> QED BY <2>4, <2>5
<1>10. ASSUME proc'["mon"].at \in {"idle", "resolve", "canceled"}
       PROVE  ClaimSane("mon")' /\ SubmitSane("mon")'
  BY <1>10 DEF ClaimSane, SubmitSane
<1>11. MonitorSane'
  <2>1. SUFFICES ASSUME proc'["mon"] = Mon, o.st = "canceled" => k \in excused'
                 PROVE  MonitorSane'
    OBVIOUS
  <2>2. MonitorSane /\ Mon' = Mon
    BY <2>1 DEF RInv, Mon
  <2>3. Mine("mon")' = Mine("mon")
    BY <2>1 DEF Mine, Queued, Mon
  <2>4. \A j \in Known : orders'[j].st = "canceled" => orders[j].st = "canceled" \/ j \in excused'
    BY <1>1, <2>1
  <2>5. \A j \in Known : orders'[j].st = "open" => orders[j].st \in {"wire", "open"}
    BY <1>1 DEF Live
  <2> HIDE DEF Mon
  <2> QED BY <1>1, <1>2, <2>2, <2>3, <2>4, <2>5 DEF MonitorSane
<1>12. SubmittersApart'
  BY ApartStays DEF Mon
<1>13. \A p \in Procs : ClaimSane(p)' /\ SubmitSane(p)'
  BY <1>9, <1>10 DEF Mon
<1> QED BY <1>5, <1>6, <1>7, <1>8, <1>11, <1>12, <1>13 DEF RInv

LEMMA ProcsStay ==
  RInv => proc \in [Procs -> ProcSet] /\ excused \subseteq Oids /\ mishaps \in 0..MaxMishaps
BY Types DEF RInv, Typed

LEMMA OrderIs ==
  ASSUME RInv, NEW k \in Known
  PROVE  /\ orders[k] \in OrderSet /\ orders[k].qty \in Nat /\ orders[k].filled \in Nat
         /\ OrderSane(k) /\ orders[k].qty <= Qty
<1>1. orders[k] \in OrderSet /\ OrderSane(k)
  BY Types DEF RInv, Typed
<1> QED BY <1>1 DEF OrderSet

\* Only the status of a live order changes.
LEMMA StatusStep ==
  ASSUME RInv, NEW k \in Known, Live(k), NEW st \in {"open", "lost"} \cup Ended,
         st = "lost" => orders[k].st = "wire",
         orders' = [orders EXCEPT ![k].st = st],
         rec' = rec, excused \subseteq excused', excused' \subseteq Oids,
         mishaps' \in 0..MaxMishaps, proc' \in [Procs -> ProcSet], proc'["wrk"] = proc["wrk"],
         \/ proc'["mon"] = Mon /\ (st = "canceled" => k \in excused')
         \/ proc'["mon"].at \in {"idle", "resolve", "canceled"} /\ MonitorSane'
  PROVE  RInv'
<1> DEFINE o == [orders[k] EXCEPT !.st = st]
<1>1. orders[k] \in OrderSet /\ OrderSane(k)
  BY OrderIs
<1>2. /\ o \in OrderSet /\ o.st = st /\ o.of = orders[k].of /\ o.rev = orders[k].rev
      /\ o.qty = orders[k].qty /\ o.filled = orders[k].filled
  BY <1>1 DEF OrderSet
<1>3. orders' = [orders EXCEPT ![k] = o]
  OBVIOUS
<1> HIDE DEF o
<1>4. o.filled <= o.qty /\ o.filled < o.qty /\ o.st # "wire"
  BY <1>1, <1>2, OrderIs DEF OrderSane, Ended
<1> QED BY <1>2, <1>3, <1>4, AmendStep

LEMMA LandStep == ASSUME RInv, NEW k \in Oids, Land(k) PROVE RInv'
<1>1. /\ k \in Known /\ Live(k) /\ orders[k].st = "wire"
      /\ rec' = rec /\ proc' = proc /\ excused' = excused /\ mishaps' = mishaps
  BY DEF Land, Live
<1>2. PICK st \in {"open", "lost"} : orders' = [orders EXCEPT ![k].st = st]
  BY DEF Land
<1> QED BY <1>1, <1>2, ProcsStay, StatusStep DEF Mon

LEMMA EndAtVenueStep == ASSUME RInv, NEW k \in Oids, EndAtVenue(k) PROVE RInv'
<1>1. /\ k \in Known /\ Live(k) /\ orders' = [orders EXCEPT ![k].st = "expired"]
      /\ rec' = rec /\ proc' = proc /\ excused' = excused /\ mishaps' = mishaps
      /\ "expired" \in Ended
  BY DEF EndAtVenue, Live, Ended
<1> QED BY <1>1, ProcsStay, StatusStep DEF Mon

LEMMA CancelOutsideStep == ASSUME RInv, NEW k \in Oids, CancelOutside(k) PROVE RInv'
<1>1. /\ k \in Known /\ Live(k) /\ orders' = [orders EXCEPT ![k].st = "canceled"]
      /\ rec' = rec /\ proc' = proc /\ excused' = excused \cup {k}
      /\ mishaps < MaxMishaps /\ mishaps' = mishaps + 1
      /\ "canceled" \in Ended
  BY DEF CancelOutside, Live, Ended
<1>2. mishaps < MaxMishaps /\ mishaps \in 0..MaxMishaps
  BY <1>1, ProcsStay
<1>3. mishaps + 1 \in 0..MaxMishaps
  BY <1>2
<1> QED BY <1>1, <1>3, ProcsStay, StatusStep DEF Mon

LEMMA FilledIs ==
  ASSUME RInv, NEW k \in Oids, Fill(k)
  PROVE  \E o \in OrderSet :
           /\ orders' = [orders EXCEPT ![k] = o]
           /\ o.of = orders[k].of /\ o.rev = orders[k].rev /\ o.qty = orders[k].qty
           /\ o.filled <= o.qty /\ (o.st \in {"open", "lost"} => o.filled < o.qty)
           /\ o.st \notin {"wire", "lost", "canceled"}
<1> DEFINE st == IF Rest(orders[k]) = 1 THEN "filled" ELSE orders[k].st
           o == [orders[k] EXCEPT !.filled = @ + 1, !.st = st]
<1>1. /\ k \in Known /\ orders[k].st = "open"
      /\ orders' = [orders EXCEPT ![k].filled = @ + 1,
                                  ![k].st = IF Rest(orders[k]) = 1 THEN "filled" ELSE @]
  BY DEF Fill
<1>2. orders \in Seq(OrderSet) /\ orders[k] \in OrderSet
  BY <1>1, OrderIs DEF RInv, TypeOK, OrderSet
<1>3. /\ orders[k].filled \in Nat /\ orders[k].qty \in Nat /\ orders[k].filled < orders[k].qty
      /\ orders[k].qty <= Qty
  BY <1>1, OrderIs DEF OrderSane, Live
<1>4. st \in {"open", "filled"} /\ (st = "open" => orders[k].filled + 1 < orders[k].qty)
  BY <1>1, <1>3 DEF Rest
<1>5. orders' = [orders EXCEPT ![k] = o]
  BY <1>1, <1>2 DEF Known
<1> HIDE DEF st
<1>6. orders[k].filled + 1 \in 0..Qty
  BY <1>3
<1>7. /\ o \in OrderSet /\ o.st = st /\ o.of = orders[k].of /\ o.rev = orders[k].rev
      /\ o.qty = orders[k].qty /\ o.filled = orders[k].filled + 1
  BY <1>2, <1>4, <1>6 DEF OrderSet, Ended
<1> HIDE DEF o
<1>8. /\ o.filled <= o.qty
      /\ o.st \in {"open", "lost"} => o.filled < o.qty
      /\ o.st \notin {"wire", "lost", "canceled"}
  BY <1>3, <1>4, <1>7
<1> QED BY <1>5, <1>7, <1>8

LEMMA FillStep == ASSUME RInv, NEW k \in Oids, Fill(k) PROVE RInv'
<1>1. /\ k \in Known /\ Live(k)
      /\ rec' = rec /\ proc' = proc /\ excused' = excused /\ mishaps' = mishaps
  BY DEF Fill, Live
<1>2. PICK o \in OrderSet :
        /\ orders' = [orders EXCEPT ![k] = o]
        /\ o.of = orders[k].of /\ o.rev = orders[k].rev /\ o.qty = orders[k].qty
        /\ o.filled <= o.qty /\ (o.st \in {"open", "lost"} => o.filled < o.qty)
        /\ o.st \notin {"wire", "lost", "canceled"}
  BY FilledIs
<1>3. /\ proc' \in [Procs -> ProcSet] /\ excused' \subseteq Oids /\ mishaps' \in 0..MaxMishaps
      /\ proc'["wrk"] = proc["wrk"] /\ proc'["mon"] = Mon
  BY <1>1, ProcsStay DEF Mon
<1> QED BY <1>1, <1>2, <1>3, AmendStep

LEMMA CancelExpiredStep == RInv /\ CancelExpired => RInv'
<1> SUFFICES ASSUME RInv, CancelExpired PROVE RInv'
  OBVIOUS
<1> DEFINE k == Mon.oid
<1>1. Mon.at = "listed" /\ k \in Known /\ rec' = rec /\ mishaps' = mishaps
  BY DEF CancelExpired, RInv, MonitorSane
<1>2. CASE Done("mon") /\ UNCHANGED <<orders, excused>>
  BY <1>1, <1>2, AbandonStep
<1>3. CASE /\ orders[k].st = "open" /\ orders' = [orders EXCEPT ![k].st = "canceled"]
           /\ excused' = excused \cup {k}
           /\ Goto("mon", "resolve") \/ Done("mon")
  <2>1. proc \in [Procs -> ProcSet] /\ Mon \in ProcSet /\ excused' \subseteq Oids
        /\ mishaps' \in 0..MaxMishaps
    BY <1>1, <1>3, ProcsStay, Types DEF Mon, RInv, Typed
  <2>2. /\ proc' \in [Procs -> ProcSet] /\ proc'["wrk"] = proc["wrk"]
        /\ \/ proc'["mon"].at = "resolve" /\ proc'["mon"].oid = k
           \/ proc'["mon"].at = "idle"
    <3>1. CASE Goto("mon", "resolve")
      <4> DEFINE z == [proc["mon"] EXCEPT !.at = "resolve"]
      <4>1. z \in ProcSet /\ z.at = "resolve" /\ z.oid = k
        BY <2>1 DEF ProcSet, Mon
      <4>2. proc' = [proc EXCEPT !["mon"] = z]
        BY <3>1 DEF Goto
      <4> HIDE DEF z
      <4> QED BY <2>1, <4>1, <4>2
    <3>2. CASE Done("mon")
      BY <2>1, <3>2, IdleIs DEF Done
    <3> QED BY <1>3, <3>1, <3>2
  <2>3. Known' = Known /\ orders'[k].st = "canceled"
    <3>1. orders \in Seq(OrderSet) /\ orders[k] \in OrderSet
      BY <1>1, OrderIs DEF RInv, TypeOK, OrderSet
    <3> QED BY <1>1, <1>3, <3>1 DEF OrderSet, Known
  <2>4. MonitorSane'
    BY <1>1, <2>2, <2>3 DEF MonitorSane, Mon
  <2>5. Live(k) /\ "canceled" \in Ended
    BY <1>3 DEF Live, Ended
  <2> QED BY <1>1, <1>3, <2>1, <2>2, <2>4, <2>5, StatusStep
<1> QED BY <1>2, <1>3 DEF CancelExpired

\* cancel_order, for a record that waits for it
LEMMA CancelOldStep == RInv /\ CancelOld => RInv'
<1> SUFFICES ASSUME RInv, CancelOld PROVE RInv'
  OBVIOUS
<1> DEFINE k == Mon.oid
           z == [proc["mon"] EXCEPT !.at = "canceled"]
<1>1. /\ Mon.at = "leased" /\ rec' = rec /\ excused' = excused /\ mishaps' = mishaps
      /\ proc' = [proc EXCEPT !["mon"] = z]
  BY DEF CancelOld, Goto
<1>2. /\ k \in Known /\ orders[k].st \notin {"wire", "lost"}
      /\ Mon.rec # 0 /\ rec[Mon.rec].life # "unused" /\ rec[Mon.rec].old = k
      /\ Mine("mon") => rec[Mon.rec].life = "awaiting" \/ k \in excused
  BY <1>1 DEF RInv, MonitorSane
<1>3. proc \in [Procs -> ProcSet] /\ Mon \in ProcSet /\ excused' \subseteq Oids
      /\ mishaps' \in 0..MaxMishaps
  BY <1>1, ProcsStay, Types DEF Mon, RInv, Typed
<1>4. z \in ProcSet /\ z.at = "canceled" /\ z.oid = k /\ z.rec = Mon.rec
  BY <1>3 DEF ProcSet, Mon
<1> HIDE DEF z
<1>5. proc' \in [Procs -> ProcSet] /\ proc'["wrk"] = proc["wrk"] /\ proc'["mon"] = z
  BY <1>1, <1>3, <1>4
<1>6. Mine("mon")' = Mine("mon")
  BY <1>1, <1>4, <1>5 DEF Mine, Queued, Mon
<1>7. CASE orders' = orders
  <2>1. Known' = Known
    BY <1>7 DEF Known
  <2>2. MonitorSane' /\ ClaimSane("mon")'
    BY <1>1, <1>2, <1>4, <1>5, <1>6, <1>7, <2>1 DEF MonitorSane, ClaimSane, Mon
  <2> QED BY <1>1, <1>3, <1>4, <1>7, <2>2, ProcStep
<1>8. CASE orders[k].st = "open" /\ orders' = [orders EXCEPT ![k].st = "canceled"]
  <2>1. Known' = Known /\ orders'[k].st = "canceled"
    <3>1. orders \in Seq(OrderSet) /\ orders[k] \in OrderSet
      BY <1>2, OrderIs DEF RInv, TypeOK, OrderSet
    <3> QED BY <1>2, <1>8, <3>1 DEF OrderSet, Known
  <2>2. MonitorSane'
    BY <1>1, <1>2, <1>4, <1>5, <1>6, <2>1 DEF MonitorSane, Mon
  <2>3. Live(k) /\ "canceled" \in Ended
    BY <1>8 DEF Live, Ended
  <2> QED BY <1>1, <1>2, <1>3, <1>4, <1>5, <1>8, <2>2, <2>3, StatusStep
<1> QED BY <1>7, <1>8 DEF CancelOld

\* The request leaves: its client id has not been used for anything that may stand.
LEMMA SendStep == ASSUME RInv, NEW p \in Procs, Send(p) PROVE RInv'
<1>0. PICK n \in Nat : n = Len(orders) + 1
  BY Types DEF RInv, Typed
<1> DEFINE r == proc[p].rec
           x == rec[r]
           rev == proc[p].rev
           o == [of |-> r, rev |-> rev, st |-> "wire", qty |-> proc[p].qty, filled |-> 0]
           z == [proc[p] EXCEPT !.at = "sent", !.oid = n]
<1>1. /\ proc[p].at = "begun" /\ Len(orders) < MaxOrders /\ orders' = Append(orders, o)
      /\ proc' = [proc EXCEPT ![p].at = "sent", ![p].oid = n]
      /\ rec' = rec /\ excused' = excused /\ mishaps' = mishaps
  BY <1>0 DEF Send
<1>2. /\ proc \in [Procs -> ProcSet] /\ proc[p] \in ProcSet /\ rec \in [Recs -> RecSet]
      /\ excused \subseteq Oids /\ mishaps \in 0..MaxMishaps /\ Len(orders) \in Nat
      /\ Known = 1..Len(orders) /\ orders \in Seq(OrderSet)
  BY Types DEF RInv, Typed, TypeOK, OrderSet
<1>3. /\ proc[p].qty >= 1 /\ rev <= x.rev /\ \A k \in Sent(r, rev) : Lost(k)
      /\ \/ x.life = "pending" /\ x.sub = "claimed" /\ x.owner = p /\ x.rev = rev
         \/ x.life = "gone" /\ x.old \in excused
  BY <1>1 DEF RInv, SubmitSane, Owns
<1>4. r \in Recs /\ rev \in 0..MaxOrders /\ proc[p].qty \in 1..Qty /\ x \in RecSet /\ Fits(r, x)
  <2>1. r \in Recs /\ rev \in 0..MaxOrders /\ proc[p].qty \in 0..Qty
    BY <1>2 DEF ProcSet
  <2>2. proc[p].qty \in 1..Qty
    BY <1>3, <2>1
  <2> QED BY <1>2, <2>1, <2>2 DEF RInv
<1>5. o \in OrderSet
  BY <1>4 DEF OrderSet
<1>6. /\ o.of = r /\ o.rev = rev /\ o.st = "wire" /\ o.qty = proc[p].qty /\ o.filled = 0
  OBVIOUS
<1>7. z \in ProcSet /\ z.at = "sent" /\ z.oid = n /\ z.rec = r /\ z.rev = rev
  <2>1. n \in 0..MaxOrders
    BY <1>0, <1>1, <1>2
  <2> QED BY <1>2, <2>1 DEF ProcSet
<1>8. proc' = [proc EXCEPT ![p] = z]
  BY <1>1
<1> HIDE DEF o, z
<1>9. /\ orders' \in Seq(OrderSet) /\ Len(orders') = n
      /\ Known' = Known \cup {n} /\ n \notin Known
      /\ orders'[n] = o
      /\ \A j \in Known : orders'[j] = orders[j]
  BY <1>0, <1>1, <1>2, <1>5, OneMoreOrder
<1>10. /\ proc' \in [Procs -> ProcSet] /\ proc'[p] = z /\ \A q \in Procs : q # p => proc'[q] = proc[q]
  BY <1>2, <1>7, <1>8
<1>11. n \in Nat /\ x.rev \in Nat /\ x.rev <= Len(orders) /\ rev < n /\ rev \in Nat
  <2>1. x.rev \in Nat /\ rev \in Nat /\ Len(orders) \in Nat
    BY <1>2, <1>4 DEF RecSet
  <2>2. x.rev <= Len(orders) /\ rev <= x.rev
    BY <1>3, <1>4 DEF Fits
  <2> QED BY <1>0, <2>1, <2>2
<1>12. TypeOK'
  <2>1. Len(orders') <= MaxOrders
    BY <1>0, <1>1, <1>2, <1>9
  <2> QED BY <1>1, <1>2, <1>9, <1>10, <2>1 DEF TypeOK, OrderSet, RecSet, ProcSet
<1>13. \A j \in Known : Lost(j)' = Lost(j) /\ Live(j)' = Live(j)
  BY <1>9 DEF Lost, Live
<1>14. Live(n)' /\ ~Lost(n)'
  BY <1>6, <1>9 DEF Live, Lost
<1>15. IdsUsedOnce'
  <2>1. ASSUME NEW j \in Known, orders[j].of = r, orders[j].rev = rev PROVE Lost(j)
    BY <1>3, <2>1 DEF Sent, OrdersOf
  <2> QED BY <1>6, <1>9, <1>13, <2>1 DEF RInv, IdsUsedOnce
<1>16. \A j \in Known' : OrderSane(j)'
  <2>1. OrderSane(n)'
    BY <1>4, <1>6, <1>9, <1>11 DEF OrderSane
  <2>2. ASSUME NEW j \in Known PROVE OrderSane(j)'
    BY <1>9, <1>13 DEF RInv, OrderSane
  <2> QED BY <1>9, <2>1, <2>2
<1>17. ASSUME NEW s \in Recs PROVE Fits(s, rec[s])'
  <2> DEFINE y == rec[s]
  <2>1. Fits(s, y) /\ rec'[s] = y
    BY <1>1 DEF RInv
  <2>2. /\ OrdersOf(s)' = IF s = r THEN OrdersOf(s) \cup {n} ELSE OrdersOf(s)
        /\ OrdersOf(s) \subseteq Known
    BY <1>6, <1>9 DEF OrdersOf
  <2>3. /\ \A rv : Sent(s, rv) \subseteq Known
        /\ Sent(s, y.rev) \subseteq Sent(s, y.rev)'
        /\ Sent(s, y.rev)' \subseteq Sent(s, y.rev) \cup {n}
        /\ n \in Sent(s, y.rev)' => s = r /\ y.rev = rev
    BY <1>1, <1>6, <1>9 DEF Sent, OrdersOf
  <2>4. y.rev <= Len(orders')
    <3>1. y \in RecSet
      BY <1>2
    <3> QED BY <1>0, <1>2, <1>9, <2>1, <3>1 DEF Fits, RecSet
  <2>5. /\ y.life \in {"awaiting", "pending", "accepted"} => y.qty >= 1
        /\ s = 0 => y.old = 0 /\ y.life \notin {"unused", "awaiting"}
        /\ s # 0 /\ y.life # "unused" => y.old \in Known'
        /\ s # 0 /\ y.life \in {"pending", "accepted"} => orders'[y.old].st = "canceled"
    BY <1>9, <2>1 DEF Fits
  <2>6. y.life = "accepted" =>
          y.oid \in Sent(s, y.rev)' /\ orders'[y.oid].st \notin {"wire", "lost"}
    BY <1>9, <2>1, <2>3 DEF Fits
  <2>7. y.life = "pending" /\ y.sub = "refused" => \A j \in Sent(s, y.rev)' : Lost(j)'
    BY <1>3, <1>13, <2>1, <2>3 DEF Fits
  <2>8. ASSUME NEW j \in OrdersOf(s)
        PROVE  /\ orders'[j].rev <= y.rev
               /\ y.life \in {"pending", "accepted", "gone"}
               /\ Live(j)' => \/ y.life = "gone" /\ y.old \in excused
                              \/ y.life = "accepted" /\ y.oid = j
                              \/ y.life = "pending" /\ y.sub # "refused" /\ y.rev = orders'[j].rev
    BY <1>9, <1>13, <2>1, <2>2 DEF Fits
  <2>9. s = r => /\ orders'[n].rev <= y.rev
                 /\ y.life \in {"pending", "accepted", "gone"}
                 /\ \/ y.life = "gone" /\ y.old \in excused
                    \/ y.life = "pending" /\ y.sub # "refused" /\ y.rev = orders'[n].rev
    BY <1>3, <1>6, <1>9
  <2>10. ASSUME NEW j \in OrdersOf(s)'
         PROVE  /\ orders'[j].rev <= y.rev
                /\ y.life \in {"pending", "accepted", "gone"}
                /\ Live(j)' => \/ y.life = "gone" /\ y.old \in excused'
                               \/ y.life = "accepted" /\ y.oid = j
                               \/ y.life = "pending" /\ y.sub # "refused" /\ y.rev = orders'[j].rev
    BY <1>1, <2>2, <2>8, <2>9
  <2>11. Sent(s, rec[s].rev)' = Sent(s, y.rev)'
    BY <1>1
  <2> QED BY <2>1, <2>4, <2>5, <2>6, <2>7, <2>10, <2>11 DEF Fits
<1>18. ClaimSane(p)' /\ SubmitSane(p)'
  <2>1. {k \in Known' : orders'[k].of = r /\ orders'[k].rev = rev} = Sent(r, rev) \cup {n}
    BY <1>6, <1>9 DEF Sent, OrdersOf
  <2>2. /\ Sent(proc[p].rec, proc[p].rev)' = Sent(r, rev) \cup {n}
        /\ Sent(r, rev) \subseteq Known
    BY <1>7, <1>10, <2>1 DEF Sent, OrdersOf
  <2>3. Mine(p)' => x.life # "gone"
    BY <1>1, <1>7, <1>10 DEF Mine, Queued
  <2>4. ClaimSane(p)'
    BY <1>1, <1>3, <1>7, <1>10, <2>3 DEF ClaimSane, Owns
  <2>5. \A j \in Sent(proc[p].rec, proc[p].rev)' : j = n \/ Lost(j)'
    BY <1>3, <1>13, <2>2
  <2>6. SubmitSane(p)'
    BY <1>1, <1>3, <1>7, <1>10, <2>2, <2>5 DEF SubmitSane, Owns
  <2> QED BY <2>4, <2>6
<1>19. ASSUME NEW q \in Procs, q # p PROVE ClaimSane(q)' /\ SubmitSane(q)'
  <2> DEFINE s == proc[q].rec
             y == rec[s]
  <2>1. ClaimSane(q) /\ SubmitSane(q) /\ proc'[q] = proc[q]
    BY <1>10, <1>19 DEF RInv
  <2>2. Mine(q)' = Mine(q) /\ Owns(q)' = Owns(q)
    BY <1>1, <2>1 DEF Mine, Queued, Owns
  <2>3. ASSUME NEW rv, ~(s = r /\ rv = rev)
        PROVE  {k \in Known' : orders'[k].of = s /\ orders'[k].rev = rv} = Sent(s, rv)
    BY <1>6, <1>9, <2>3 DEF Sent, OrdersOf
  <2>4. /\ Sent(s, y.rev)' = {k \in Known' : orders'[k].of = s /\ orders'[k].rev = y.rev}
        /\ Sent(s, proc[q].rev)' = {k \in Known' : orders'[k].of = s /\ orders'[k].rev = proc[q].rev}
        /\ \A rv : Sent(s, rv) \subseteq Known
    BY <1>1, <2>1 DEF Sent, OrdersOf
  <2>5. ASSUME Mine(q), proc[q].at = "active" PROVE \A k \in Sent(s, y.rev)' : Lost(k)'
    <3>1. /\ y.life = "pending" /\ (y.sub = "claimed" => y.owner = "dead")
          /\ \A k \in Sent(s, y.rev) : Lost(k)
      BY <2>1, <2>5 DEF ClaimSane
    <3>2. ~(s = r /\ y.rev = rev)
      BY <1>3, <3>1
    <3> QED BY <1>13, <2>3, <2>4, <3>1, <3>2
  <2>6. ASSUME proc[q].at \in {"begun", "sent"}
        PROVE  /\ Sent(s, proc[q].rev)' = Sent(s, proc[q].rev)
               /\ Sent(s, proc[q].rev) \subseteq Known
    <3>1. ~(s = r /\ proc[q].rev = rev)
      BY <1>1, <1>19, <2>6 DEF RInv, SubmittersApart
    <3> QED BY <2>3, <2>4, <3>1
  <2>7. ClaimSane(q)'
    BY <1>1, <2>1, <2>2, <2>5 DEF ClaimSane
  <2>8. SubmitSane(q)'
    <3>1. CASE proc[q].at = "begun"
      <4>1. \A k \in Sent(s, proc[q].rev)' : Lost(k)'
        BY <1>13, <2>1, <2>6, <3>1 DEF SubmitSane
      <4>2. /\ proc[q].qty >= 1 /\ proc[q].rev <= y.rev
            /\ Owns(q)' \/ (y.life = "gone" /\ y.old \in excused)
        BY <2>1, <2>2, <3>1 DEF SubmitSane
      <4>3. rec'[proc'[q].rec] = y /\ excused' = excused
        BY <1>1, <2>1
      <4> HIDE DEF y
      <4> QED BY <2>1, <3>1, <4>1, <4>2, <4>3 DEF SubmitSane
    <3>2. CASE proc[q].at = "sent"
      <4>1. /\ proc[q].oid \in Sent(s, proc[q].rev)'
            /\ \A k \in Sent(s, proc[q].rev)' : k = proc[q].oid \/ Lost(k)'
        BY <1>13, <2>1, <2>6, <3>2 DEF SubmitSane
      <4> QED BY <1>1, <2>1, <2>2, <3>2, <4>1 DEF SubmitSane
    <3>3. CASE proc[q].at \notin {"begun", "sent"}
      BY <2>1, <3>3 DEF SubmitSane
    <3> QED BY <3>1, <3>2, <3>3
  <2> QED BY <2>7, <2>8
<1>20. MonitorSane'
  <2>1. CASE p = "mon"
    BY <1>7, <1>10, <2>1 DEF MonitorSane, Mon
  <2>2. CASE p = "wrk"
    <3>1. MonitorSane /\ Mon' = Mon
      BY <1>10, <2>2 DEF RInv, Mon
    <3>2. Mine("mon")' = Mine("mon")
      BY <1>1, <3>1 DEF Mine, Queued, Mon
    <3> HIDE DEF Mon
    <3> QED BY <1>1, <1>9, <3>1, <3>2 DEF MonitorSane
  <2> QED BY <2>1, <2>2
<1>21. SubmittersApart'
  <2>1. \A q \in Procs : q # p /\ proc[q].at \in {"begun", "sent"} /\ proc[q].rec = r => proc[q].rev # rev
    BY <1>1 DEF RInv, SubmittersApart
  <2> QED BY <1>7, <1>10, <2>1 DEF RInv, SubmittersApart
<1> QED BY <1>12, <1>15, <1>16, <1>17, <1>18, <1>19, <1>20, <1>21 DEF RInv

--------------------------------------------------------------------------------
(* The invariant *)

LEMMA InitHolds == Init => RInv
<1> SUFFICES ASSUME Init PROVE RInv
  OBVIOUS
<1> DEFINE o == [of |-> 0, rev |-> 0, st |-> "open", qty |-> Qty, filled |-> 0]
<1>0. 0 \in Recs /\ 1 \in 0..MaxOrders /\ 0 \in 0..MaxOrders /\ 0 \in 0..Qty /\ Qty \in 1..Qty
      /\ 0 \in 0..MaxMishaps
  BY DEF Recs
<1>1. /\ orders = <<o>> /\ excused = {} /\ mishaps = 0
      /\ rec = [r \in Recs |-> IF r = 0 THEN First ELSE Unused]
      /\ proc = [p \in Procs |-> Idle]
  BY DEF Init
<1>2. o \in OrderSet
  BY <1>0 DEF OrderSet
<1>3. /\ First \in RecSet /\ First.life = "accepted" /\ First.sub = "refused" /\ First.qty = Qty
      /\ First.old = 0 /\ First.oid = 1 /\ First.rev = 0 /\ First.holder = "none"
  <2>1. Qty \in 0..Qty
    OBVIOUS
  <2>2. First \in RecSet
    BY <1>0, <2>1, UnusedIs, Zenon DEF First, RecSet
  <2> QED BY <2>2, UnusedIs, Zenon DEF First, RecSet
<1>4. /\ orders \in Seq(OrderSet) /\ Len(orders) = 1 /\ Known = {1} /\ orders[1] = o
  BY <1>1, <1>2 DEF Known
<1> HIDE DEF o
<1>5. o.of = 0 /\ o.rev = 0 /\ o.st = "open" /\ o.qty = Qty /\ o.filled = 0
  BY DEF o
<1>6. TypeOK
  BY <1>0, <1>1, <1>3, <1>4, UnusedIs, IdleIs DEF TypeOK, OrderSet, RecSet, ProcSet
<1>7. IdsUsedOnce /\ \A k \in Known : OrderSane(k)
  BY <1>4, <1>5 DEF IdsUsedOnce, OrderSane, Live, Lost
<1>8. ASSUME NEW r \in Recs PROVE Fits(r, rec[r])
  <2>1. CASE r = 0
    <3>1. rec[r] = First /\ OrdersOf(r) = {1} /\ Sent(r, 0) = {1}
      BY <1>1, <1>4, <1>5, <2>1 DEF OrdersOf, Sent
    <3> HIDE DEF First
    <3> QED BY <1>3, <1>4, <1>5, <2>1, <3>1 DEF Fits, Live
  <2>2. CASE r # 0
    <3>1. rec[r] = Unused /\ OrdersOf(r) = {}
      BY <1>1, <1>4, <1>5, <2>2 DEF OrdersOf
    <3>2. Unused.rev <= Len(orders)
      BY <1>4, UnusedIs
    <3> QED BY <2>2, <3>1, <3>2, UnusedIs DEF Fits
  <2> QED BY <2>1, <2>2
<1>9. \A p \in Procs : proc[p].at = "idle"
  BY <1>1, IdleIs
<1>10. MonitorSane /\ SubmittersApart /\ \A p \in Procs : ClaimSane(p) /\ SubmitSane(p)
  BY <1>9 DEF MonitorSane, SubmittersApart, ClaimSane, SubmitSane, Mon
<1> QED BY <1>6, <1>7, <1>8, <1>10 DEF RInv

LEMMA StutterHolds == RInv /\ UNCHANGED vars => RInv'
<1> SUFFICES ASSUME RInv, UNCHANGED vars PROVE RInv'
  OBVIOUS
<1>1. /\ rec' = rec /\ orders' = orders /\ excused' = excused /\ mishaps' = mishaps
      /\ proc' = proc
  BY DEF vars
<1>2. \A p \in Procs : Untouched(p)
  BY <1>1, UnwrittenUntouched
<1>3. MonitorSane'
  BY <1>1 DEF RInv, MonitorSane, Mon, Mine, Queued, Known
<1>4. SubmittersApart'
  BY <1>1, ApartStays
<1>5. /\ rec \in [Recs -> RecSet] /\ proc \in [Procs -> ProcSet] /\ excused \subseteq Oids
      /\ mishaps \in 0..MaxMishaps
  BY Types DEF RInv, Typed
<1> QED BY <1>1, <1>2, <1>3, <1>4, <1>5, RecordsStep

LEMMA NextHolds == RInv /\ Next => RInv'
<1>1. RInv /\ MonitorStep => RInv'
  BY ListStep, CancelExpiredStep, ResolveStep, EnqueueStep, ClaimReplacementStep,
     PreflightRefusesStep, CancelOldStep, StatusFailsStep, NotCanceledStep, ActivateStep
     DEF MonitorStep
<1>2. RInv /\ WorkerStep => RInv'
  BY ClaimStep, AdoptLiveStep, ExpireStep, LookLaterStep, AwaitCancelStep, PollAcceptedStep,
     LookupFoundStep, AbsentStep DEF WorkerStep
<1>3. ASSUME RInv, NEW p \in Procs, Submit(p) \/ Abandon(p) \/ Crash(p) PROVE RInv'
  BY <1>3, BeginStep, PlaceRefusedStep, SendStep, AnswerStep, AbandonStep, CrashStep
     DEF Submit, Abandon
<1>4. RInv /\ Venue => RInv'
  BY LandStep, FillStep, EndAtVenueStep, CancelOutsideStep DEF Venue
<1> QED BY <1>1, <1>2, <1>3, <1>4, LapseStep DEF Next

THEOREM Invariant == Spec => []RInv
<1>1. RInv /\ [Next]_vars => RInv'
  BY NextHolds, StutterHolds
<1> QED BY InitHolds, <1>1, PTL DEF Spec

\* What the outbox, the processes and the venue may hold.
THEOREM TypeCorrect == Spec => []TypeOK
<1>1. RInv => TypeOK
  BY DEF RInv
<1> QED BY <1>1, Invariant, PTL

\* An open order always has a record that leads to it (ReplaceOrder): the record
\* it was submitted for cannot have moved on while the order stands, because each
\* client id is used again only when what went out under it is lost.
THEOREM Tracked == Spec => []OpenOrdersAreTracked
<1>1. ASSUME RInv PROVE OpenOrdersAreTracked
  <2> SUFFICES ASSUME NEW k \in Known,
                      orders[k].st = "open", rec[orders[k].of].old \notin excused
               PROVE  \E r \in Recs :
                        \/ rec[r].life = "accepted" /\ rec[r].oid = k
                        \/ /\ rec[r].life = "pending" /\ rec[r].sub # "refused"
                           /\ k \in Under(r)
    BY DEF OpenOrdersAreTracked
  <2> DEFINE r == orders[k].of
  <2>1. r \in Recs /\ k \in OrdersOf(r) /\ Live(k)
    BY <1>1, OrderIs DEF OrderSet, OrdersOf, Live
  <2>2. Fits(r, rec[r])
    BY <1>1, <2>1 DEF RInv
  <2>3. \/ rec[r].life = "accepted" /\ rec[r].oid = k
        \/ rec[r].life = "pending" /\ rec[r].sub # "refused" /\ rec[r].rev = orders[k].rev
    BY <2>1, <2>2 DEF Fits
  <2> QED BY <2>1, <2>3 DEF Under
<1> QED BY <1>1, Invariant, PTL

--------------------------------------------------------------------------------
(* A canceled order is owed its rest *)

Owed(k) == orders[k].st = "canceled" /\ Rest(orders[k]) > 0
Serves(r, k) == rec[r].old = k /\ (Queued(r) \/ Found(r) # {})

LEMMA SurvivesIs ==
  ReplacementSurvives <=> \A k \in Known \ excused : Owed(k) => \E r \in Recs : Serves(r, k)
BY DEF ReplacementSurvives, Owed, Serves

\* Nothing replaces order k: it is not canceled, has no rest, or was given up.
Dispensable(k) == k \notin Known \/ k \in excused' \/ ~Owed(k)

\* What may be written over record r: it stays in the queue, or leaves it when an
\* order of it is at the venue or none is needed.
Keeps(r, y) ==
  /\ y.old = rec[r].old
  /\ \/ y.life \in {"awaiting", "pending", "accepted"}
     \/ y.rev = rec[r].rev /\ (y.life = rec[r].life \/ Found(r) # {} \/ Dispensable(rec[r].old))

LEMMA RecordsServe ==
  ASSUME RInv, ReplacementSurvives, orders' = orders, excused \subseteq excused',
         \A r \in Recs : rec'[r] = rec[r] \/ rec[r].life = "unused" \/ Keeps(r, rec'[r])
  PROVE  ReplacementSurvives'
<1>1. Known' = Known /\ \A k \in Known : Owed(k)' = Owed(k)
  BY DEF Known, Owed
<1>2. SUFFICES ASSUME NEW k \in Known, k \notin excused', Owed(k) PROVE \E r \in Recs : Serves(r, k)'
  BY <1>1 DEF ReplacementSurvives, Owed, Serves
<1>3. PICK r \in Recs : Serves(r, k)
  BY <1>2, SurvivesIs
<1>4. rec[r].life # "unused"
  <2>1. Found(r) \subseteq OrdersOf(r) /\ Fits(r, rec[r])
    BY DEF Found, Under, OrdersOf, RInv
  <2> QED BY <1>3, <2>1 DEF Serves, Queued, Fits
<1>5. rec'[r].rev = rec[r].rev => Found(r)' = Found(r)
  BY <1>1 DEF Found, Under
<1>6. CASE rec'[r] = rec[r]
  BY <1>3, <1>5, <1>6 DEF Serves, Queued
<1>7. CASE Keeps(r, rec'[r])
  <2>1. ~Dispensable(rec[r].old)
    BY <1>2, <1>3 DEF Dispensable, Serves
  <2> QED BY <1>3, <1>5, <1>7, <2>1 DEF Serves, Queued, Keeps
<1> QED BY <1>4, <1>6, <1>7

\* One record is written.
LEMMA WriteServes ==
  ASSUME RInv, ReplacementSurvives, orders' = orders, excused \subseteq excused',
         NEW r \in Recs, NEW y, rec' = [rec EXCEPT ![r] = y],
         rec[r].life = "unused" \/ Keeps(r, y)
  PROVE  ReplacementSurvives'
<1>1. rec \in [Recs -> RecSet]
  BY Types DEF RInv, Typed
<1>2. rec'[r] = y /\ \A s \in Recs : s # r => rec'[s] = rec[s]
  BY <1>1
<1> QED BY <1>2, RecordsServe

LEMMA CompleteServes ==
  ASSUME RInv, ReplacementSurvives, orders' = orders, excused \subseteq excused',
         NEW p \in Procs, NEW y, Complete(p, y), Mine(p) => Keeps(proc[p].rec, y)
  PROVE  ReplacementSurvives'
<1>1. proc[p].rec \in Recs
  BY RecOfProc
<1>2. CASE Mine(p)
  BY <1>1, <1>2, WriteServes DEF Complete
<1>3. CASE ~Mine(p)
  BY <1>3, RecordsServe DEF Complete
<1> QED BY <1>2, <1>3

\* A venue step: orders that were found still are.
LEMMA OrdersServe ==
  ASSUME RInv, ReplacementSurvives, rec' = rec, excused \subseteq excused', Known \subseteq Known',
         \A j \in Known :
           /\ orders'[j].of = orders[j].of /\ orders'[j].rev = orders[j].rev
           /\ orders[j].st \notin {"wire", "lost"} => orders'[j].st \notin {"wire", "lost"},
         \A k \in Known' \ excused' :
           Owed(k)' => k \in Known /\ (Owed(k) \/ \E r \in Recs : Serves(r, k))
  PROVE  ReplacementSurvives'
<1>1. SUFFICES ASSUME NEW k \in Known', k \notin excused', Owed(k)'
               PROVE  \E r \in Recs : Serves(r, k)'
  BY DEF ReplacementSurvives, Owed, Serves
<1>2. PICK r \in Recs : Serves(r, k)
  BY <1>1, SurvivesIs
<1>3. Found(r) \subseteq Found(r)'
  BY DEF Found, Under
<1> QED BY <1>2, <1>3 DEF Serves, Queued

\* What is at the venue is found under the client id it was sent under.
LEMMA AcceptedIsFound ==
  ASSUME RInv, NEW r \in Recs, rec[r].life = "accepted" PROVE Found(r) # {}
<1>1. Fits(r, rec[r])
  BY DEF RInv
<1> QED BY <1>1 DEF Fits, Sent, OrdersOf, Found, Under

LEMMA KeepsGone ==
  ASSUME RInv, NEW r \in Recs,
         rec[r].life = "accepted" \/ Found(r) # {} \/ Dispensable(rec[r].old)
  PROVE  Keeps(r, Gone(rec[r]))
<1>1. rec[r] \in RecSet
  BY Types DEF RInv, Typed
<1>2. /\ Gone(rec[r]).old = rec[r].old /\ Gone(rec[r]).rev = rec[r].rev
  BY <1>1, WritesAre
<1> QED BY <1>2, AcceptedIsFound DEF Keeps

LEMMA KeepsOld ==
  ASSUME NEW r, NEW y, y.old = rec[r].old, y.rev = rec[r].rev,
         y.life = "pending" \/ Dispensable(rec[r].old)
  PROVE  Keeps(r, y)
BY DEF Keeps

LEMMA KeepsQueued ==
  ASSUME RInv, NEW r \in Recs, Queued(r), NEW p \in Procs, NEW k
  PROVE  /\ Keeps(r, Unleased(rec[r])) /\ Keeps(r, Refused(rec[r])) /\ Keeps(r, Unknown(rec[r]))
         /\ Keeps(r, Leased(rec[r], p)) /\ Keeps(r, Begun(rec[r], p))
         /\ Keeps(r, Accepted(rec[r], k))
<1> DEFINE x == rec[r]
<1>1. x \in RecSet
  BY Types DEF RInv, Typed
<1>2. x.life \in {"awaiting", "pending", "accepted"}
  BY DEF Queued
<1> HIDE DEF x
<1>3. /\ Unleased(x).old = x.old /\ Unleased(x).life = x.life
      /\ Refused(x).old = x.old /\ Refused(x).life = x.life /\ Refused(x) \in RecSet
  BY <1>1, WritesAre DEF Agrees
<1>4. Unknown(x).old = x.old /\ Unknown(x).life = x.life
  BY <1>1 DEF Unknown, Unleased, RecSet
<1>5. Leased(x, p).old = x.old /\ Leased(x, p).life = x.life
      /\ Begun(x, p).old = x.old /\ Begun(x, p).life = x.life
  BY <1>1, LeasedIs DEF Agrees
<1>6. Accepted(x, k).old = x.old /\ Accepted(x, k).life = "accepted"
  BY <1>3, Zenon DEF Accepted, RecSet
<1> QED BY <1>2, <1>3, <1>4, <1>5, <1>6 DEF Keeps, x

LEMMA MineIsQueued == \A p \in Procs : Mine(p) => Queued(proc[p].rec)
BY DEF Mine

\* One order changes at the venue.
LEMMA AmendServes ==
  ASSUME RInv, ReplacementSurvives, NEW k \in Known, NEW o \in OrderSet,
         orders' = [orders EXCEPT ![k] = o], o.of = orders[k].of, o.rev = orders[k].rev,
         orders[k].st \notin {"wire", "lost"} => o.st \notin {"wire", "lost"},
         o.st = "canceled" => k \in excused' \/ \E r \in Recs : Serves(r, k),
         rec' = rec, excused \subseteq excused'
  PROVE  ReplacementSurvives'
<1>1. orders \in Seq(OrderSet)
  BY DEF RInv, TypeOK, OrderSet
<1>2. Known' = Known /\ \A j \in Known : orders'[j] = IF j = k THEN o ELSE orders[j]
  BY <1>1, OneOrderChanges
<1>3. \A j \in Known' \ excused' :
        Owed(j)' => j \in Known /\ (Owed(j) \/ \E r \in Recs : Serves(r, j))
  BY <1>2 DEF Owed
<1>4. \A j \in Known :
        /\ orders'[j].of = orders[j].of /\ orders'[j].rev = orders[j].rev
        /\ orders[j].st \notin {"wire", "lost"} => orders'[j].st \notin {"wire", "lost"}
  BY <1>2
<1> QED BY <1>2, <1>3, <1>4, OrdersServe

LEMMA StatusServes ==
  ASSUME RInv, ReplacementSurvives, NEW k \in Known, NEW st \in {"open", "lost"} \cup Ended,
         orders' = [orders EXCEPT ![k].st = st],
         orders[k].st \notin {"wire", "lost"} => st # "lost",
         st = "canceled" => k \in excused' \/ \E r \in Recs : Serves(r, k),
         rec' = rec, excused \subseteq excused'
  PROVE  ReplacementSurvives'
<1> DEFINE o == [orders[k] EXCEPT !.st = st]
<1>1. /\ o \in OrderSet /\ o.st = st /\ o.of = orders[k].of /\ o.rev = orders[k].rev
  BY OrderIs DEF OrderSet
<1>2. orders' = [orders EXCEPT ![k] = o]
  OBVIOUS
<1>3. st # "wire"
  BY DEF Ended
<1> HIDE DEF o
<1> QED BY <1>1, <1>2, <1>3, AmendServes

LEMMA ActivatedServes ==
  ASSUME RInv, ReplacementSurvives, NEW p \in Procs, NEW lease \in BOOLEAN,
         Mine(p), rec[proc[p].rec].life = "awaiting",
         orders[rec[proc[p].rec].old].st = "canceled",
         rec' = Activated(p, orders[rec[proc[p].rec].old], lease),
         orders' = orders, excused' = excused
  PROVE  ReplacementSurvives'
<1> DEFINE r == proc[p].rec
           x == rec[r]
           y == rec'[r]
<1>1. /\ r \in Recs /\ y.old = x.old /\ y.rev = x.rev
      /\ y.life = "pending" \/ Rest(orders[x.old]) = 0
  BY ActivatedRecord DEF Mine
<1>2. Keeps(r, y)
  <2>1. Rest(orders[x.old]) = 0 => Dispensable(x.old)
    BY DEF Dispensable, Owed
  <2>2. y.life = "pending" \/ Dispensable(x.old)
    BY <1>1, <2>1
  <2> HIDE DEF y
  <2> QED BY <1>1, <2>2, KeepsOld
<1>3. ASSUME NEW s \in Recs, s # r, rec'[s] # rec[s] PROVE Keeps(s, rec'[s])
  BY <1>3, ActivatedOthers, KeepsGone
<1> QED BY <1>2, <1>3, RecordsServe

LEMMA MonitorServes ==
  ASSUME RInv, ReplacementSurvives, MonitorStep PROVE ReplacementSurvives'
<1>1. CASE \E k \in Oids : List(k)
  BY <1>1, RecordsServe DEF List
<1>2. CASE CancelExpired
  <2> DEFINE k == Mon.oid
  <2>1. CASE orders[k].st = "open" /\ orders' = [orders EXCEPT ![k].st = "canceled"]
             /\ excused' = excused \cup {k} /\ rec' = rec
    <3>1. k \in Known /\ "canceled" \in Ended
      BY <1>2 DEF CancelExpired, RInv, MonitorSane, Ended
    <3> HIDE DEF k
    <3> QED BY <2>1, <3>1, StatusServes
  <2>2. CASE orders' = orders /\ rec' = rec /\ excused' = excused
    BY <2>2, RecordsServe
  <2> QED BY <1>2, <2>1, <2>2 DEF CancelExpired
<1>3. CASE Resolve
  <2>1. ASSUME NEW r \in Recs, rec'[r] # rec[r] PROVE Keeps(r, rec'[r])
    <3>1. rec[r].life = "accepted" /\ rec'[r] = Gone(rec[r])
      BY <1>3, <2>1 DEF Resolve
    <3> QED BY <3>1, KeepsGone
  <2> QED BY <1>3, <2>1, RecordsServe DEF Resolve
<1>4. CASE Enqueue
  <2>1. CASE rec' = rec
    BY <1>4, <2>1, RecordsServe DEF Enqueue
  <2>2. CASE rec' # rec
    <3>1. PICK y : Free # {} /\ rec' = [rec EXCEPT ![Min(Free)] = y]
      BY <1>4, <2>2 DEF Enqueue
    <3>2. Min(Free) \in Free
      BY <3>1, MinMaxOids DEF Free
    <3>3. Min(Free) \in Recs /\ rec[Min(Free)].life = "unused"
      BY <3>2 DEF Free
    <3> QED BY <1>4, <3>1, <3>3, WriteServes DEF Enqueue
  <2> QED BY <2>1, <2>2
<1>5. CASE ClaimReplacement
  <2>1. CASE rec' = rec
    BY <1>5, <2>1, RecordsServe DEF ClaimReplacement
  <2>2. CASE Queued(Mon.rec) /\ rec' = [rec EXCEPT ![Mon.rec] = Leased(@, "mon")]
    <3>1. Mon.rec \in Recs
      BY RecOfProc DEF Mon
    <3>2. rec' = [rec EXCEPT ![Mon.rec] = Leased(rec[Mon.rec], "mon")]
      BY <2>2
    <3> QED BY <1>5, <2>2, <3>1, <3>2, KeepsQueued, WriteServes DEF ClaimReplacement
  <2> QED BY <1>5, <2>1, <2>2 DEF ClaimReplacement
<1>6. CASE PreflightRefuses
  <2>1. Dispensable(rec[Mon.rec].old)
    BY <1>6 DEF PreflightRefuses, Dispensable, Owed, RInv, MonitorSane
  <2>2. Keeps(Mon.rec, Gone(rec[Mon.rec]))
    BY <2>1, KeepsGone, RecOfProc DEF Mon
  <2> QED BY <1>6, <2>2, CompleteServes DEF PreflightRefuses, Mon
<1>7. CASE CancelOld
  <2> DEFINE k == Mon.oid
  <2>1. CASE orders[k].st = "open" /\ orders' = [orders EXCEPT ![k].st = "canceled"]
    <3>1. /\ k \in Known /\ excused' = excused /\ rec' = rec /\ "canceled" \in Ended
          /\ rec[Mon.rec].life = "awaiting" /\ rec[Mon.rec].old = k /\ Mon.rec \in Recs
      BY <1>7, <2>1, RecOfProc DEF CancelOld, RInv, MonitorSane, Mon, Ended
    <3>2. Serves(Mon.rec, k)
      BY <3>1 DEF Serves, Queued
    <3> HIDE DEF k
    <3> QED BY <2>1, <3>1, <3>2, StatusServes
  <2>2. CASE orders' = orders
    BY <1>7, <2>2, RecordsServe DEF CancelOld
  <2> QED BY <1>7, <2>1, <2>2 DEF CancelOld
<1>8. CASE StatusFails
  BY <1>8, CompleteServes, KeepsQueued, MineIsQueued, RecOfProc DEF StatusFails, Mon
<1>9. CASE NotCanceled
  <2>1. Dispensable(rec[Mon.rec].old)
    BY <1>9 DEF NotCanceled, CancelConfirmed, Dispensable, Owed, RInv, MonitorSane
  <2>2. Keeps(Mon.rec, Gone(rec[Mon.rec]))
    BY <2>1, KeepsGone, RecOfProc DEF Mon
  <2>3. Mine("mon") => Keeps(Mon.rec, Unleased(rec[Mon.rec]))
    BY KeepsQueued, MineIsQueued, RecOfProc DEF Mon
  <2> DEFINE y == IF orders[Mon.oid].st \in Ended THEN Gone(rec[Mon.rec]) ELSE Unleased(rec[Mon.rec])
  <2>4. Mine("mon") => Keeps(Mon.rec, y)
    BY <2>2, <2>3
  <2>5. Complete("mon", y) /\ orders' = orders /\ excused' = excused
    BY <1>9 DEF NotCanceled
  <2> HIDE DEF y
  <2> QED BY <2>4, <2>5, CompleteServes DEF Mon
<1>10. CASE Activate
  <2>1. Mon.at = "canceled" /\ orders[Mon.oid].st = "canceled" /\ rec[Mon.rec].old = Mon.oid
        /\ orders' = orders /\ excused' = excused
    BY <1>10 DEF Activate, CancelConfirmed, RInv, MonitorSane
  <2>2. CASE rec' = rec
    BY <2>1, <2>2, RecordsServe
  <2>3. CASE Activates("mon", orders[Mon.oid]) /\ rec' = Activated("mon", orders[Mon.oid], TRUE)
    BY <2>1, <2>3, ActivatedServes DEF Activates, Mon
  <2> QED BY <1>10, <2>2, <2>3 DEF Activate
<1> QED BY <1>1, <1>2, <1>3, <1>4, <1>5, <1>6, <1>7, <1>8, <1>9, <1>10 DEF MonitorStep

LEMMA WorkerServes ==
  ASSUME RInv, ReplacementSurvives, WorkerStep PROVE ReplacementSurvives'
<1>1. ASSUME NEW r \in Recs, Claim(r) PROVE ReplacementSurvives'
  <2>1. Queued(r) /\ rec' = [rec EXCEPT ![r] = Leased(rec[r], "wrk")]
    BY <1>1 DEF Claim, Claimable
  <2> QED BY <1>1, <2>1, KeepsQueued, WriteServes DEF Claim
<1>2. ASSUME NEW r \in Recs, AdoptLive(r) PROVE ReplacementSurvives'
  <2>1. Queued(r) /\ rec' = [rec EXCEPT ![r] = Accepted(rec[r], Max(Found(r)))]
    BY <1>2 DEF AdoptLive, Queued
  <2>2. Keeps(r, Accepted(rec[r], Max(Found(r))))
    BY <2>1, KeepsQueued
  <2> QED BY <1>2, <2>1, <2>2, WriteServes DEF AdoptLive
<1>3. ASSUME NEW r \in Recs, Expire(r) PROVE ReplacementSurvives'
  <2>1. /\ rec' = [rec EXCEPT ![r] = Gone(rec[r])]
        /\ excused' = excused \cup ({rec[r].old} \cap Oids) /\ orders' = orders
    BY <1>3 DEF Expire
  <2>2. Dispensable(rec[r].old)
    BY <2>1, Types DEF Dispensable, RInv, Typed
  <2> QED BY <2>1, <2>2, KeepsGone, WriteServes
<1>4. CASE LookLater
  BY <1>4, CompleteServes, KeepsQueued, MineIsQueued, RecOfProc DEF LookLater, Wrk
<1>5. CASE AwaitCancel
  <2> DEFINE x == rec[Wrk.rec]
             o == orders[x.old]
  <2>1. /\ Wrk.at = "awaiting" /\ orders' = orders /\ excused' = excused
        /\ IF o.st = "canceled"
           THEN IF Activates("wrk", o) THEN rec' = Activated("wrk", o, FALSE)
                                       ELSE Complete("wrk", Unleased(x))
           ELSE o.st \in Ended /\ Complete("wrk", Gone(x))
    BY <1>5 DEF AwaitCancel, CancelConfirmed
  <2>2. CASE o.st = "canceled" /\ Activates("wrk", o)
    BY <2>1, <2>2, ActivatedServes DEF Activates, Wrk
  <2>3. CASE o.st = "canceled" /\ ~Activates("wrk", o)
    BY <2>1, <2>3, CompleteServes, KeepsQueued, MineIsQueued, RecOfProc DEF Wrk
  <2>4. CASE o.st # "canceled"
    <3>1. Dispensable(x.old)
      BY <2>4 DEF Dispensable, Owed
    <3>2. Keeps(Wrk.rec, Gone(x))
      BY <3>1, KeepsGone, RecOfProc DEF Wrk
    <3> QED BY <2>1, <2>4, <3>2, CompleteServes DEF Wrk
  <2> QED BY <2>2, <2>3, <2>4
<1>6. CASE PollAccepted
  <2> DEFINE x == rec[Wrk.rec]
             o == orders[x.oid]
             y == IF o.st = "expired" THEN Revised(x, o) ELSE Gone(x)
  <2>1. Wrk.at = "accepted" /\ Complete("wrk", y) /\ orders' = orders /\ excused' = excused
    BY <1>6 DEF PollAccepted, Complete, Wrk
  <2>2. ASSUME Mine("wrk") PROVE Keeps(Wrk.rec, y)
    <3>1. Wrk.rec \in Recs /\ x.life = "accepted"
      BY <2>1, <2>2, RecOfProc DEF RInv, ClaimSane, Wrk
    <3>2. x \in RecSet /\ Fits(Wrk.rec, x)
      BY <3>1, Types DEF RInv, Typed
    <3>3. Found(Wrk.rec) # {}
      BY <3>1, AcceptedIsFound
    <3>4. CASE o.st = "expired"
      <4> HIDE DEF x
      <4>1. /\ Revised(x, o).old = x.old
            /\ \/ Revised(x, o).life = "pending"
               \/ Revised(x, o).rev = x.rev
        <5>1. Rest(o) = 0 => Revised(x, o).rev = x.rev
          BY <3>2, WritesAre DEF Revised
        <5>2. Rest(o) # 0 => Revised(x, o).life = "pending"
          BY <3>2, WritesAre DEF Revised, RecSet, Agrees
        <5> QED BY <3>1, <3>2, <3>4, <5>1, <5>2, FitsRevised
      <4>2. y = Revised(x, o)
        BY <3>4
      <4> HIDE DEF y
      <4> QED BY <3>3, <4>1, <4>2 DEF Keeps, x
    <3>5. CASE o.st # "expired"
      BY <3>1, <3>5, KeepsGone
    <3> QED BY <3>4, <3>5
  <2> HIDE DEF y
  <2> QED BY <2>1, <2>2, CompleteServes DEF Wrk
<1>7. CASE LookupFound
  <2>1. Wrk.rec \in Recs /\ Queued(Wrk.rec)
        /\ Complete("wrk", Accepted(rec[Wrk.rec], Max(Found(Wrk.rec))))
        /\ orders' = orders /\ excused' = excused
    BY <1>7, RecOfProc, MineIsQueued DEF LookupFound, Wrk
  <2>2. Keeps(Wrk.rec, Accepted(rec[Wrk.rec], Max(Found(Wrk.rec))))
    BY <2>1, KeepsQueued
  <2> QED BY <2>1, <2>2, CompleteServes DEF Wrk
<1>8. CASE Absent
  BY <1>8, RecordsServe DEF Absent
<1> QED BY <1>1, <1>2, <1>3, <1>4, <1>5, <1>6, <1>7, <1>8 DEF WorkerStep

LEMMA SubmitServes ==
  ASSUME RInv, ReplacementSurvives, NEW p \in Procs, Submit(p) PROVE ReplacementSurvives'
<1> DEFINE r == proc[p].rec
           x == rec[r]
<1>1. r \in Recs /\ (Mine(p) => Queued(r))
  BY RecOfProc, MineIsQueued
<1>2. CASE Begin(p)
  <2>1. CASE Mine(p)
    <3>1. Complete(p, Begun(x, p)) /\ orders' = orders /\ excused' = excused
      BY <1>2, <2>1 DEF Begin
    <3> QED BY <1>1, <3>1, KeepsQueued, CompleteServes
  <2>2. CASE ~Mine(p)
    BY <1>2, <2>2, RecordsServe DEF Begin
  <2> QED BY <2>1, <2>2
<1>3. CASE PlaceRefused(p)
  <2>1. CASE Complete(p, Refused(x)) /\ excused' = excused
    BY <1>1, <1>3, <2>1, KeepsQueued, CompleteServes DEF PlaceRefused
  <2>2. CASE Complete(p, Gone(x)) /\ excused' = excused \cup ({x.old} \cap Oids)
    <3>1. Dispensable(x.old)
      BY <2>2, Types DEF Dispensable, RInv, Typed
    <3>2. Keeps(r, Gone(x))
      BY <1>1, <3>1, KeepsGone
    <3> QED BY <1>3, <2>2, <3>2, CompleteServes DEF PlaceRefused
  <2> QED BY <1>3, <2>1, <2>2 DEF PlaceRefused
<1>4. CASE Send(p)
  <2> DEFINE o == [of |-> r, rev |-> proc[p].rev, st |-> "wire", qty |-> proc[p].qty, filled |-> 0]
  <2>1. /\ orders' = Append(orders, o) /\ rec' = rec /\ excused' = excused
        /\ orders \in Seq(OrderSet)
    BY <1>4 DEF Send, RInv, TypeOK, OrderSet
  <2>2. o \in OrderSet
    <3>1. proc[p] \in ProcSet
      BY ProcsStay
    <3>2. proc[p].qty >= 1
      BY <1>4 DEF Send, RInv, SubmitSane
    <3>3. proc[p].qty \in 1..Qty /\ proc[p].rev \in 0..MaxOrders
      BY <3>1, <3>2 DEF ProcSet
    <3> QED BY <1>1, <3>3 DEF OrderSet
  <2>3. o.st = "wire"
    OBVIOUS
  <2> HIDE DEF o
  <2>4. PICK n : /\ Known' = Known \cup {n} /\ n \notin Known /\ orders'[n] = o
                 /\ \A j \in Known : orders'[j] = orders[j]
    BY <2>1, <2>2, OneMoreOrder
  <2>5. \A j \in Known' \ excused' :
          Owed(j)' => j \in Known /\ (Owed(j) \/ \E s \in Recs : Serves(s, j))
    BY <2>3, <2>4 DEF Owed
  <2> QED BY <2>1, <2>4, <2>5, OrdersServe
<1>5. CASE Answer(p)
  <2> DEFINE k == proc[p].oid
  <2>1. /\ orders' = orders /\ excused' = excused
        /\ Complete(p, Accepted(x, k)) \/ Complete(p, Refused(x)) \/ Complete(p, Unknown(x))
    BY <1>5 DEF Answer
  <2>2. Mine(p) => Keeps(r, Accepted(x, k)) /\ Keeps(r, Refused(x)) /\ Keeps(r, Unknown(x))
    BY <1>1, KeepsQueued
  <2> HIDE DEF k
  <2> QED BY <2>1, <2>2, CompleteServes
<1> QED BY <1>2, <1>3, <1>4, <1>5 DEF Submit

LEMMA CrashServes ==
  ASSUME RInv, ReplacementSurvives, NEW p \in Procs, Crash(p) PROVE ReplacementSurvives'
<1>1. ASSUME NEW r \in Recs PROVE Keeps(r, rec'[r])
  <2> DEFINE y == [rec[r] EXCEPT !.holder = IF @ = p THEN "none" ELSE @,
                                 !.owner = IF @ = p THEN "dead" ELSE @]
  <2>1. rec'[r] = y /\ rec[r] \in RecSet
    BY Types DEF Crash, RInv, Typed
  <2>2. y.old = rec[r].old /\ y.life = rec[r].life /\ y.rev = rec[r].rev
    BY <2>1 DEF RecSet
  <2> HIDE DEF y
  <2> QED BY <2>1, <2>2 DEF Keeps
<1> QED BY <1>1, RecordsServe DEF Crash

LEMMA LapseServes ==
  ASSUME RInv, ReplacementSurvives, NEW r \in Recs, Lapse(r) PROVE ReplacementSurvives'
<1> DEFINE y == [rec[r] EXCEPT !.leased = FALSE]
<1>1. /\ rec[r] \in RecSet /\ rec' = [rec EXCEPT ![r] = y]
      /\ orders' = orders /\ excused' = excused
  BY Types DEF Lapse, RInv, Typed
<1>2. y.old = rec[r].old /\ y.life = rec[r].life /\ y.rev = rec[r].rev
  BY <1>1 DEF RecSet
<1> HIDE DEF y
<1>3. Keeps(r, y)
  BY <1>2 DEF Keeps
<1> QED BY <1>1, <1>3, WriteServes

LEMMA VenueServes ==
  ASSUME RInv, ReplacementSurvives, Venue PROVE ReplacementSurvives'
<1> SUFFICES ASSUME NEW k \in Oids, Land(k) \/ Fill(k) \/ EndAtVenue(k) \/ CancelOutside(k)
             PROVE  ReplacementSurvives'
  BY DEF Venue
<1>1. k \in Known /\ rec' = rec /\ excused \subseteq excused'
  BY DEF Land, Fill, EndAtVenue, CancelOutside
<1>2. CASE Land(k)
  <2>1. PICK st \in {"open", "lost"} : orders' = [orders EXCEPT ![k].st = st]
    BY <1>2 DEF Land
  <2> QED BY <1>1, <1>2, <2>1, StatusServes DEF Land
<1>3. CASE Fill(k)
  <2>1. PICK o \in OrderSet :
          /\ orders' = [orders EXCEPT ![k] = o]
          /\ o.of = orders[k].of /\ o.rev = orders[k].rev /\ o.st \notin {"wire", "lost", "canceled"}
    BY <1>3, FilledIs
  <2> QED BY <1>1, <2>1, AmendServes
<1>4. CASE EndAtVenue(k)
  <2>1. orders' = [orders EXCEPT ![k].st = "expired"] /\ "expired" \in Ended
    BY <1>4 DEF EndAtVenue, Ended
  <2> QED BY <1>1, <2>1, StatusServes
<1>5. CASE CancelOutside(k)
  <2>1. /\ orders' = [orders EXCEPT ![k].st = "canceled"] /\ "canceled" \in Ended
        /\ k \in excused'
    BY <1>5 DEF CancelOutside, Ended
  <2> QED BY <1>1, <2>1, StatusServes
<1> QED BY <1>2, <1>3, <1>4, <1>5

\* An order that was canceled for a replacement is replaced (ReplaceOrder): no
\* crash, lost answer, lapsed lease or step of the other process takes its record
\* out of the outbox before an order of it is at the venue, its rest is gone, or it
\* was given up.
THEOREM Survives == Spec => []ReplacementSurvives
<1>1. Init => ReplacementSurvives
  <2> SUFFICES ASSUME Init PROVE ReplacementSurvives
    OBVIOUS
  <2> DEFINE o == [of |-> 0, rev |-> 0, st |-> "open", qty |-> Qty, filled |-> 0]
  <2>1. orders = <<o>>
    BY DEF Init
  <2>2. o.st # "canceled"
    OBVIOUS
  <2> HIDE DEF o
  <2>3. \A k \in Known : orders[k] = o
    BY <2>1 DEF Known
  <2> QED BY <2>2, <2>3 DEF ReplacementSurvives
<1>2. RInv /\ ReplacementSurvives /\ [Next]_vars => ReplacementSurvives'
  <2> SUFFICES ASSUME RInv, ReplacementSurvives, [Next]_vars PROVE ReplacementSurvives'
    OBVIOUS
  <2>1. CASE MonitorStep
    BY <2>1, MonitorServes
  <2>2. CASE WorkerStep
    BY <2>2, WorkerServes
  <2>3. ASSUME NEW p \in Procs, Submit(p) \/ Abandon(p) \/ Crash(p) PROVE ReplacementSurvives'
    BY <2>3, SubmitServes, CrashServes, RecordsServe DEF Abandon
  <2>4. CASE Venue
    BY <2>4, VenueServes
  <2>5. ASSUME NEW r \in Recs, Lapse(r) PROVE ReplacementSurvives'
    BY <2>5, LapseServes
  <2>6. CASE UNCHANGED vars
    BY <2>6, RecordsServe DEF vars
  <2> QED BY <2>1, <2>2, <2>3, <2>4, <2>5, <2>6 DEF Next
<1> QED BY <1>1, <1>2, Invariant, PTL DEF Spec
--------------------------------------------------------------------------------
(* One order at a time, while nobody else cancels *)

\* No order of record r is on its way to the venue, and no process is about to send one.
Unsent(r) ==
  /\ \A k \in OrdersOf(r) : orders[k].st # "wire"
  /\ \A p \in Procs : proc'[p].at = "begun" => proc'[p].rec # r

\* What a step that leaves the venue alone does to record r.
Kept(r) ==
  /\ rec'[r].life = rec[r].life /\ rec'[r].qty = rec[r].qty
  /\ rec'[r].old = rec[r].old /\ rec'[r].rev = rec[r].rev
Dropped(r) == rec'[r].life = "gone" /\ (rec[r].life = "pending" => Unsent(r))
Woken(r) ==
  /\ rec[r].life = "awaiting" /\ rec'[r].life = "pending"
  /\ rec'[r].old = rec[r].old /\ rec'[r].rev = rec[r].rev
  /\ orders[rec[r].old].st = "canceled" /\ rec'[r].qty = Rest(orders[rec[r].old])
Adopted(r) ==
  /\ rec[r].life = "pending" /\ rec'[r].life = "accepted"
  /\ rec'[r].old = rec[r].old /\ rec'[r].rev = rec[r].rev
  /\ \E k \in Sent(r, rec[r].rev) : Acked(k)
Renewed(r) ==
  /\ rec[r].life = "accepted" /\ rec'[r].life = "pending"
  /\ rec'[r].old = rec[r].old /\ rec'[r].rev = rec[r].rev + 1
  /\ orders[rec[r].oid].st = "expired" /\ rec'[r].qty = Rest(orders[rec[r].oid])
Created(r) ==
  /\ rec[r].life = "unused" /\ rec'[r].life = "awaiting"
  /\ orders[rec'[r].old].st # "canceled"
  /\ \A s \in Recs \ {r} : /\ rec'[s] = rec[s]
                           /\ rec[s].life = "awaiting" => rec[s].old # rec'[r].old
Moves(r) == Kept(r) \/ Dropped(r) \/ Woken(r) \/ Adopted(r) \/ Renewed(r) \/ Created(r)

\* A record that has begun a submit, and no order yet, or an order on its way, is
\* outstanding.
LEMMA WireIsOutstanding ==
  ASSUME RInv, NEW b \in Known, Standing(b), NEW k \in Known, orders[k].st = "wire"
  PROVE  LET r == orders[k].of
         IN  /\ r \in Recs /\ Outstanding(r, rec[r]) /\ k \in Sent(r, rec[r].rev)
             /\ orders[k].qty <= Rest(orders[b])
<1> DEFINE r == orders[k].of
<1>1. r \in Recs /\ k \in OrdersOf(r)
  BY OrderIs DEF OrderSet, OrdersOf
<1>2. rec[r].life = "pending" /\ orders[k].rev = rec[r].rev /\ orders[k].qty <= Rest(orders[b])
  BY <1>1 DEF Standing, Backed
<1>3. \A j \in Sent(r, rec[r].rev) : ~Acked(j)
  BY <1>1, <1>2 DEF RInv, IdsUsedOnce, Sent, OrdersOf, Acked, Lost
<1> QED BY <1>1, <1>2, <1>3 DEF Outstanding, Sent

\* Only one record asks for the rest, and only once the order has ended.
LEMMA OneOutstanding ==
  ASSUME RInv, Calm, NEW b \in Known, Standing(b), NEW r \in Recs, Outstanding(r, rec[r])
  PROVE  /\ orders[b].st \in {"expired", "canceled"}
         /\ \A s \in Recs : Outstanding(s, rec[s]) => s = r
         /\ \A s \in Recs \ {0} : rec[s].life = "awaiting" => orders[rec[s].old].st # "canceled"
         /\ \A s \in Recs : rec[s].life \in {"pending", "accepted"} =>
              \A k \in Sent(s, rec[s].rev) : orders[k].st # "expired"
<1>1. \A s \in Recs : Backed(s, rec[s], b)
  BY DEF Standing
<1>2. Continues(r, rec[r], b) /\ rec[r].life = "pending"
  BY <1>1 DEF Backed, Outstanding
<1>3. orders[b].st \in {"expired", "canceled"}
  BY <1>2 DEF Continues
<1>4. ASSUME NEW s \in Recs, Outstanding(s, rec[s]) PROVE s = r
  <2>1. Continues(s, rec[s], b) /\ rec[s].life = "pending"
    BY <1>1, <1>4 DEF Backed, Outstanding
  <2> QED BY <1>2, <2>1 DEF Continues, Calm, Queued
<1>5. ASSUME NEW s \in Recs \ {0}, rec[s].life = "awaiting", orders[rec[s].old].st = "canceled"
      PROVE  FALSE
  <2>1. rec[s].old = b
    BY <1>1, <1>5 DEF Backed
  <2>2. r # 0 /\ rec[r].old = b
    BY <1>2, <1>5, <2>1 DEF Continues
  <2> QED BY <1>2, <1>5, <2>1, <2>2 DEF Calm, Queued
<1>6. ASSUME NEW s \in Recs, rec[s].life \in {"pending", "accepted"},
             NEW k \in Sent(s, rec[s].rev), orders[k].st = "expired"
      PROVE  FALSE
  <2>1. k = b
    BY <1>1, <1>6 DEF Backed
  <2>2. orders[b].of = r /\ s = r
    BY <1>2, <1>6, <2>1 DEF Continues, Sent, OrdersOf
  <2> QED BY <1>6, <2>2 DEF Outstanding, Acked
<1> QED BY <1>3, <1>4, <1>5, <1>6

LEMMA RecIs ==
  ASSUME RInv, NEW r \in Recs
  PROVE  rec[r] \in RecSet /\ Fits(r, rec[r]) /\ rec[r].rev \in Nat /\ rec[r].qty \in Nat
BY Types DEF RInv, Typed, RecSet

\* A step that leaves the venue alone leaves the rest where it stands.
LEMMA MovesBacked ==
  ASSUME RInv, NEW b \in Known, Standing(b), NEW r \in Recs, Moves(r)
  PROVE  Backed(r, rec'[r], b)
<1> DEFINE x == rec[r]
           y == rec'[r]
<1>1. Backed(r, x, b) /\ Fits(r, x) /\ x.rev \in Nat
  BY RecIs DEF Standing
<1>2. x.life # "pending" => \A k \in OrdersOf(r) : orders[k].st # "wire"
  BY <1>1 DEF Backed
<1>3. CASE Kept(r)
  BY <1>1, <1>3 DEF Kept, Backed, Outstanding, Continues
<1>4. CASE Dropped(r)
  BY <1>2, <1>4 DEF Dropped, Unsent, Backed, Outstanding
<1>5. CASE Woken(r)
  <2>1. OrdersOf(r) = {} /\ r # 0 /\ x.old = b
    BY <1>1, <1>5 DEF Woken, Fits, Backed
  <2>2. Sent(r, y.rev) = {}
    BY <2>1 DEF Sent
  <2>3. y.life = "pending" /\ y.old = b /\ orders[b].st = "canceled" /\ y.qty = Rest(orders[b])
    BY <1>5, <2>1 DEF Woken
  <2>4. y.qty <= Rest(orders[b])
    BY <2>3, OrderIs DEF Rest
  <2> QED BY <2>1, <2>2, <2>3, <2>4 DEF Backed, Continues
<1>6. CASE Adopted(r)
  <2>1. PICK k \in Sent(r, x.rev) : Acked(k)
    BY <1>6 DEF Adopted
  <2>2. \A j \in OrdersOf(r) : orders[j].st # "wire"
    BY <1>1, <2>1 DEF Backed, RInv, IdsUsedOnce, Sent, OrdersOf, Acked, Lost
  <2> QED BY <1>1, <1>6, <2>2 DEF Adopted, Backed, Outstanding
<1>7. CASE Renewed(r)
  <2>1. x.oid \in Sent(r, x.rev) /\ x.oid = b /\ orders[b].of = r /\ orders[b].st = "expired"
    BY <1>1, <1>7 DEF Renewed, Fits, Backed, Sent, OrdersOf
  <2>2. Sent(r, y.rev) = {}
    <3>1. \A k \in OrdersOf(r) : orders[k].rev <= x.rev /\ orders[k].rev \in Nat
      BY <1>1, OrderIs DEF Fits, OrdersOf, OrderSet
    <3> QED BY <1>1, <1>7, <3>1 DEF Renewed, Sent
  <2>3. y.life = "pending" /\ y.qty = Rest(orders[b])
    BY <1>7, <2>1 DEF Renewed
  <2>4. y.qty <= Rest(orders[b])
    BY <2>3, OrderIs DEF Rest
  <2> QED BY <1>2, <1>7, <2>1, <2>2, <2>3, <2>4 DEF Renewed, Backed, Continues
<1>8. CASE Created(r)
  <2>1. OrdersOf(r) = {}
    BY <1>1, <1>8 DEF Created, Fits
  <2> QED BY <1>8, <2>1 DEF Created, Backed, Outstanding
<1> QED BY <1>3, <1>4, <1>5, <1>6, <1>7, <1>8 DEF Moves

\* Two records never wait to replace the same order.
LEMMA MovesUnique ==
  ASSUME RInv, RInv', orders' = orders, Calm, \A r \in Recs : Moves(r),
         NEW r \in Recs \ {0}, NEW s \in Recs \ {0}, Queued(r)', Queued(s)', rec'[r].old = rec'[s].old
  PROVE  r = s
<1>1. ASSUME NEW q \in {r, s}, ~Created(q) PROVE Queued(q) /\ rec[q].old = rec'[q].old
  BY <1>1 DEF Moves, Kept, Dropped, Woken, Adopted, Renewed, Queued
<1>2. ASSUME NEW q \in Recs \ {0}, NEW t \in Recs \ {0}, Created(q), q # t,
             rec'[q].old = rec'[t].old, Queued(t)'
      PROVE  FALSE
  <2>1. rec'[t] = rec[t] /\ orders[rec[t].old].st # "canceled" /\ rec[t].life # "awaiting"
    BY <1>2 DEF Created
  <2>2. rec[t].life \in {"pending", "accepted"}
    BY <1>2, <2>1 DEF Queued
  <2> QED BY <2>1, <2>2 DEF RInv, Fits
<1> QED BY <1>1, <1>2 DEF Calm

LEMMA MovesCalm ==
  ASSUME RInv, RInv', orders' = orders, Calm, \A r \in Recs : Moves(r),
         \A p \in Procs : proc'[p].at = "begun" =>
           \/ proc'[p] = proc[p]
           \/ /\ rec'[proc'[p].rec].life = "pending"
              /\ proc'[p].qty = rec'[proc'[p].rec].qty,
         proc'["mon"].at \in {"listed", "queued", "leased"} =>
           \/ Mon.at \in {"listed", "queued", "leased"} /\ proc'["mon"].oid = Mon.oid
           \/ orders[proc'["mon"].oid].st # "canceled"
  PROVE  Calm'
<1>1. ASSUME NEW p \in Procs, proc'[p].at = "begun"
      PROVE  Owns(p)' /\ proc'[p].qty = rec'[proc'[p].rec].qty
  <2> DEFINE r == proc'[p].rec
  <2>1. rec'[r].life = "pending" /\ proc'[p].qty = rec'[r].qty
    <3>1. CASE proc'[p] = proc[p]
      <4>1. /\ r \in Recs /\ rec[r].life = "pending" /\ proc[p].qty = rec[r].qty
            /\ proc[p].rev = rec[r].rev
        BY <1>1, <3>1, RecOfProc DEF Calm, Owns
      <4>2. \A k \in Sent(r, rec[r].rev) : ~Acked(k)
        BY <1>1, <3>1, <4>1 DEF RInv, SubmitSane, Lost, Acked
      <4>3. Kept(r)
        BY <1>1, <4>1, <4>2 DEF Moves, Dropped, Unsent, Woken, Adopted, Renewed, Created
      <4> QED BY <3>1, <4>1, <4>3 DEF Kept
    <3> QED BY <1>1, <3>1
  <2>2. SubmitSane(p)'
    BY DEF RInv
  <2> QED BY <1>1, <2>1, <2>2 DEF SubmitSane, Owns
<1>2. Mon'.at \in {"listed", "queued", "leased"} => orders'[Mon'.oid].st # "canceled"
  BY DEF Calm, Mon
<1>3. \A r, s \in Recs \ {0} : Queued(r)' /\ Queued(s)' /\ rec'[r].old = rec'[s].old => r = s
  BY MovesUnique
<1>4. \A k \in Known' : ~Acked(k)' => orders'[k].filled = 0
  BY DEF Calm, Acked, Known
<1> QED BY <1>1, <1>2, <1>3, <1>4 DEF Calm

\* The step of the invariant when the venue does not change.
LEMMA OneMoves ==
  ASSUME RInv, RInv', OneInv, orders' = orders, \A r \in Recs : Moves(r),
         \A p \in Procs : proc'[p].at = "begun" =>
           \/ proc'[p] = proc[p]
           \/ /\ rec'[proc'[p].rec].life = "pending"
              /\ proc'[p].qty = rec'[proc'[p].rec].qty,
         proc'["mon"].at \in {"listed", "queued", "leased"} =>
           \/ Mon.at \in {"listed", "queued", "leased"} /\ proc'["mon"].oid = Mon.oid
           \/ orders[proc'["mon"].oid].st # "canceled"
  PROVE  OneInv'
<1>1. PICK b \in Known : Standing(b)
  BY DEF OneInv
<1>2. Calm'
  BY MovesCalm DEF OneInv
<1>3. ASSUME NEW r \in Recs PROVE Backed(r, rec[r], b)'
  <2>1. Backed(r, rec'[r], b)
    BY <1>1, MovesBacked
  <2> QED BY <2>1 DEF Backed, Outstanding, Continues, Sent, OrdersOf, Acked, Known
<1>4. Standing(b)' /\ Known' = Known
  BY <1>1, <1>3 DEF Standing, Acked, Known
<1> QED BY <1>2, <1>4 DEF OneInv

\* ... and when only processes move, or a claimed record is completed.
LEMMA KeptMoves ==
  ASSUME NEW r \in Recs, rec'[r] = rec[r] \/ Agrees(rec[r], rec'[r])
  PROVE  Moves(r)
BY DEF Moves, Kept, Agrees

LEMMA CompleteMoves ==
  ASSUME RInv, RInv', OneInv, NEW q \in Procs, NEW y, Complete(q, y), Done(q), orders' = orders,
         Mine(q) /\ rec'[proc[q].rec] = y => Moves(proc[q].rec)
  PROVE  OneInv'
<1> DEFINE r == proc[q].rec
<1>1. r \in Recs /\ rec \in [Recs -> RecSet] /\ proc \in [Procs -> ProcSet]
  BY RecOfProc, Types DEF RInv, Typed
<1>2. proc'[q].at = "idle" /\ \A p \in Procs : p # q => proc'[p] = proc[p]
  BY <1>1 DEF Done, Idle
<1>3. \A s \in Recs : Moves(s)
  BY <1>1, KeptMoves DEF Complete
<1> QED BY <1>2, <1>3, OneMoves DEF Mon

\* A process whose claim is lost, or that gives it up, leaves the records alone.
LEMMA ProcsMove ==
  ASSUME RInv, RInv', OneInv, NEW q \in Procs, orders' = orders, rec' = rec,
         \A p \in Procs : p # q => proc'[p] = proc[p],
         proc'[q].at # "begun",
         q = "mon" => \/ proc'[q].at \notin {"listed", "queued", "leased"}
                      \/ orders[proc'[q].oid].st # "canceled"
  PROVE  OneInv'
<1>1. \A r \in Recs : Moves(r)
  BY KeptMoves
<1> QED BY <1>1, OneMoves DEF Mon

LEMMA WritesKeep ==
  ASSUME NEW x \in RecSet, NEW p,
         NEW y \in {Unleased(x), Refused(x), Unknown(x), Begun(x, p), Leased(x, p)}
  PROVE  y.life = x.life /\ y.qty = x.qty /\ y.old = x.old /\ y.rev = x.rev
<1>1. CASE y = Unleased(x)
  BY <1>1, WritesAre DEF Agrees
<1>2. CASE y = Refused(x)
  BY <1>2, WritesAre
<1>3. CASE y = Unknown(x)
  BY <1>3 DEF Unknown, Unleased, RecSet
<1>4. CASE y = Begun(x, p)
  BY <1>4 DEF Begun, RecSet
<1>5. CASE y = Leased(x, p)
  BY <1>5 DEF Leased, RecSet
<1> QED BY <1>1, <1>2, <1>3, <1>4, <1>5

LEMMA AcceptedIs ==
  ASSUME NEW x \in RecSet, NEW k
  PROVE  Accepted(x, k).life = "accepted" /\ Accepted(x, k).old = x.old /\ Accepted(x, k).rev = x.rev
<1>1. Refused(x) \in RecSet /\ Refused(x).old = x.old /\ Refused(x).rev = x.rev
  BY WritesAre
<1> QED BY <1>1, Zenon DEF Accepted, RecSet

\* A record whose order is not canceled is not submitted.
LEMMA StandsAwaiting ==
  ASSUME RInv, NEW r \in Recs \ {0}, Queued(r), orders[rec[r].old].st # "canceled"
  PROVE  rec[r].life = "awaiting"
BY DEF RInv, Fits, Queued

LEMMA MineStands ==
  ASSUME RInv, Mine("mon"), Mon.at \in {"queued", "leased", "canceled"},
         orders[Mon.oid].st # "canceled"
  PROVE  rec[Mon.rec].life = "awaiting"
<1>1. Mon.rec \in Recs \ {0} /\ Queued(Mon.rec) /\ rec[Mon.rec].old = Mon.oid
  BY RecOfProc, MineIsQueued DEF RInv, MonitorSane, Mon
<1> QED BY <1>1, StandsAwaiting

LEMMA GoneIs == ASSUME RInv, NEW r \in Recs PROVE Gone(rec[r]).life = "gone"
BY RecIs, WritesAre

\* activate_claimed_replacement
LEMMA ActivatedMoves ==
  ASSUME RInv, NEW p \in Procs, NEW lease \in BOOLEAN, Mine(p),
         rec[proc[p].rec].life = "awaiting",
         orders[rec[proc[p].rec].old].st = "canceled",
         rec' = Activated(p, orders[rec[proc[p].rec].old], lease),
         NEW r \in Recs
  PROVE  Moves(r)
<1>1. CASE r = proc[p].rec
  <2>1. /\ rec'[r].old = rec[r].old /\ rec'[r].rev = rec[r].rev
        /\ \/ rec'[r].life = "gone"
           \/ rec'[r].life = "pending" /\ rec'[r].qty = Rest(orders[rec[r].old])
    BY <1>1, ActivatedRecord DEF Mine
  <2> QED BY <1>1, <2>1 DEF Moves, Dropped, Woken
<1>2. CASE r # proc[p].rec /\ rec'[r] # rec[r]
  <2>1. rec[r].life = "accepted" /\ rec'[r].life = "gone"
    BY <1>2, ActivatedOthers
  <2> QED BY <2>1 DEF Moves, Dropped
<1> QED BY <1>1, <1>2, KeptMoves

\* monitororder
LEMMA MonitorMoves ==
  ASSUME RInv, RInv', OneInv, orders' = orders, MonitorStep
  PROVE  OneInv'
<1> USE DEF Mon
<1>0. proc \in [Procs -> ProcSet] /\ Mon \in ProcSet /\ Mon.rec \in Recs
      /\ rec \in [Recs -> RecSet] /\ Calm
  BY RecOfProc, Types DEF RInv, Typed, OneInv
<1>1. ASSUME NEW k \in Oids, List(k) PROVE OneInv'
  <2>1. /\ proc'["mon"] = [Idle EXCEPT !.at = "listed", !.oid = k]
        /\ \A p \in Procs : p # "mon" => proc'[p] = proc[p]
        /\ rec' = rec /\ orders[k].st = "open"
    BY <1>0, <1>1 DEF List
  <2>2. proc'["mon"].at = "listed" /\ proc'["mon"].oid = k
    BY <2>1 DEF Idle
  <2> QED BY <2>1, <2>2, ProcsMove
<1>2. ASSUME NEW at \in {"idle", "resolve", "canceled"}, rec' = rec,
             \/ Done("mon") /\ at = "idle"
             \/ Goto("mon", at)
      PROVE  OneInv'
  <2>1. proc'["mon"].at = at /\ \A p \in Procs : p # "mon" => proc'[p] = proc[p]
    BY <1>0, <1>2 DEF Done, Goto, Idle, ProcSet
  <2> QED BY <1>2, <2>1, ProcsMove
<1>3. CASE CancelExpired
  BY <1>2, <1>3 DEF CancelExpired
<1>4. CASE Resolve
  <2>1. ASSUME NEW r \in Recs PROVE Moves(r)
    <3>1. \/ rec'[r] = rec[r]
          \/ rec[r].life = "accepted" /\ rec'[r] = Gone(rec[r])
      BY <1>4 DEF Resolve
    <3> QED BY <3>1, KeptMoves, GoneIs DEF Moves, Dropped
  <2>2. proc'["mon"].at = "idle" /\ \A p \in Procs : p # "mon" => proc'[p] = proc[p]
    BY <1>0, <1>4 DEF Resolve, Done, Idle
  <2> QED BY <2>1, <2>2, OneMoves
<1>5. CASE Enqueue
  <2>1. /\ Mon.at = "listed" /\ orders[Mon.oid].st # "canceled"
        /\ proc'["mon"].at = "queued" /\ proc'["mon"].oid = Mon.oid
        /\ \A p \in Procs : p # "mon" => proc'[p] = proc[p]
    <3>1. PICK n : proc' = [proc EXCEPT !["mon"].at = "queued", !["mon"].rec = n]
      BY <1>5 DEF Enqueue
    <3>2. /\ proc'["mon"] = [Mon EXCEPT !.at = "queued", !.rec = n]
          /\ \A p \in Procs : p # "mon" => proc'[p] = proc[p]
      BY <1>0, <3>1
    <3>3. proc'["mon"].at = "queued" /\ proc'["mon"].oid = Mon.oid
      BY <1>0, <3>2 DEF ProcSet
    <3>4. Mon.at = "listed" /\ orders[Mon.oid].st # "canceled"
      BY <1>0, <1>5 DEF Enqueue, Calm
    <3> QED BY <3>2, <3>3, <3>4
  <2>2. CASE rec' = rec
    BY <2>1, <2>2, ProcsMove
  <2>3. CASE rec' # rec
    <3> DEFINE n == Min(Free)
    <3>1. /\ Waiting(Mon.oid) = {} /\ Free # {}
          /\ \E q \in Rest(orders[Mon.oid])..orders[Mon.oid].qty :
               rec' = [rec EXCEPT ![n] = [Unused EXCEPT !.life = "awaiting", !.qty = q, !.old = Mon.oid]]
      BY <1>5, <2>3 DEF Enqueue
    <3>2. n \in Recs /\ rec[n].life = "unused"
      BY <3>1, MinMaxOids DEF Free
    <3> HIDE DEF n
    <3>3. /\ rec'[n].life = "awaiting" /\ rec'[n].old = Mon.oid
          /\ \A s \in Recs \ {n} : rec'[s] = rec[s]
      BY <1>0, <3>1, <3>2 DEF Unused
    <3>4. Created(n)
      BY <2>1, <3>1, <3>2, <3>3 DEF Created, Waiting
    <3>5. \A r \in Recs : Moves(r)
      BY <3>3, <3>4, KeptMoves DEF Moves
    <3> QED BY <2>1, <3>5, OneMoves
  <2> QED BY <2>2, <2>3
<1>6. CASE ClaimReplacement
  <2>1. CASE rec' = rec /\ Done("mon")
    BY <1>2, <2>1
  <2>2. CASE rec' = [rec EXCEPT ![Mon.rec] = Leased(rec[Mon.rec], "mon")] /\ Goto("mon", "leased")
    <3>1. Kept(Mon.rec) /\ \A s \in Recs : s # Mon.rec => rec'[s] = rec[s]
      BY <1>0, <2>2, WritesKeep DEF Kept
    <3>2. \A r \in Recs : Moves(r)
      BY <3>1, KeptMoves DEF Moves
    <3>3. /\ proc'["mon"].at = "leased" /\ proc'["mon"].oid = Mon.oid /\ Mon.at = "queued"
          /\ \A p \in Procs : p # "mon" => proc'[p] = proc[p]
      BY <1>0, <1>6, <2>2 DEF Goto, ClaimReplacement, ProcSet
    <3> QED BY <3>2, <3>3, OneMoves
  <2> QED BY <1>6, <2>1, <2>2 DEF ClaimReplacement
<1>7. CASE PreflightRefuses
  <2>1. Mine("mon") => rec[Mon.rec].life = "awaiting"
    BY <1>0, <1>7, MineStands DEF PreflightRefuses, Calm
  <2>2. Mine("mon") /\ rec'[Mon.rec] = Gone(rec[Mon.rec]) => Moves(Mon.rec)
    BY <1>0, <2>1, GoneIs DEF Moves, Dropped
  <2> QED BY <1>7, <2>2, CompleteMoves DEF PreflightRefuses
<1>8. CASE CancelOld
  BY <1>2, <1>8 DEF CancelOld
<1>9. rec'[Mon.rec] = Unleased(rec[Mon.rec]) => Moves(Mon.rec)
  BY <1>0, WritesKeep DEF Moves, Kept
<1>10. CASE StatusFails
  BY <1>9, <1>10, CompleteMoves DEF StatusFails
<1>11. CASE NotCanceled
  <2>1. Mine("mon") => rec[Mon.rec].life = "awaiting"
    BY <1>0, <1>11, MineStands DEF NotCanceled, CancelConfirmed
  <2>2. Mine("mon") /\ rec'[Mon.rec] = Gone(rec[Mon.rec]) => Moves(Mon.rec)
    BY <1>0, <2>1, GoneIs DEF Moves, Dropped
  <2>3. CASE Complete("mon", Gone(rec[Mon.rec]))
    BY <1>11, <2>2, <2>3, CompleteMoves DEF NotCanceled
  <2>4. CASE Complete("mon", Unleased(rec[Mon.rec]))
    BY <1>9, <1>11, <2>4, CompleteMoves DEF NotCanceled
  <2> QED BY <1>11, <2>3, <2>4 DEF NotCanceled
<1>12. CASE Activate
  <2>1. CASE rec' = rec /\ Done("mon")
    BY <1>2, <2>1
  <2>2. CASE Activates("mon", orders[Mon.oid]) /\ rec' = Activated("mon", orders[Mon.oid], TRUE)
    <3>1. rec[Mon.rec].old = Mon.oid /\ orders[Mon.oid].st = "canceled"
      BY <1>12 DEF Activate, CancelConfirmed, RInv, MonitorSane
    <3>2. \A r \in Recs : Moves(r)
      BY <2>2, <3>1, ActivatedMoves DEF Activates
    <3>3. /\ proc'["mon"].at \in {"idle", "active"}
          /\ \A p \in Procs : p # "mon" => proc'[p] = proc[p]
      BY <1>0, <1>12, <2>2 DEF Activate, Done, Goto, Idle, ProcSet
    <3> QED BY <3>2, <3>3, OneMoves
  <2> QED BY <1>12, <2>1, <2>2 DEF Activate
<1> QED BY <1>1, <1>3, <1>4, <1>5, <1>6, <1>7, <1>8, <1>10, <1>11, <1>12 DEF MonitorStep

\* The worker
LEMMA WorkerMoves ==
  ASSUME RInv, RInv', OneInv, orders' = orders, WorkerStep
  PROVE  OneInv'
<1> USE DEF Wrk
<1>0. /\ proc \in [Procs -> ProcSet] /\ Wrk \in ProcSet /\ Wrk.rec \in Recs
      /\ rec \in [Recs -> RecSet] /\ Calm
  BY RecOfProc, Types DEF RInv, Typed, OneInv
<1>1. ASSUME NEW r \in Recs, NEW y, rec' = [rec EXCEPT ![r] = y], rec'[r] = y => Moves(r),
             \A p \in Procs : proc'[p] = proc[p] \/ (p = "wrk" /\ proc'[p].at # "begun")
      PROVE  OneInv'
  <2>1. rec'[r] = y /\ \A s \in Recs : s # r => rec'[s] = rec[s]
    BY <1>0, <1>1
  <2>2. \A s \in Recs : Moves(s)
    BY <1>1, <2>1, KeptMoves
  <2>3. proc'["mon"] = proc["mon"]
    BY <1>1
  <2> QED BY <1>1, <2>2, <2>3, OneMoves DEF Mon
<1>2. ASSUME NEW r \in Recs, Claim(r) PROVE OneInv'
  <2>1. rec' = [rec EXCEPT ![r] = Leased(rec[r], "wrk")]
        /\ rec[r].life \in {"awaiting", "pending", "accepted"}
    BY <1>2 DEF Claim, Claimable, Queued
  <2>2. rec'[r] = Leased(rec[r], "wrk") => Moves(r)
    BY RecIs, WritesKeep DEF Moves, Kept
  <2>3. \A p \in Procs : proc'[p] = proc[p] \/ (p = "wrk" /\ proc'[p].at # "begun")
    BY <1>0, <1>2, <2>1 DEF Claim, Idle
  <2> QED BY <1>1, <2>1, <2>2, <2>3
<1>3. ASSUME NEW r \in Recs, rec[r].life = "pending", Found(r) # {},
             rec'[r] = Accepted(rec[r], Max(Found(r)))
      PROVE  Moves(r)
  <2>1. /\ Max(Found(r)) \in Sent(r, rec[r].rev) /\ Acked(Max(Found(r)))
    BY <1>3, FoundIsSent DEF Acked
  <2>2. /\ Accepted(rec[r], Max(Found(r))).life = "accepted"
        /\ Accepted(rec[r], Max(Found(r))).old = rec[r].old
        /\ Accepted(rec[r], Max(Found(r))).rev = rec[r].rev
    BY RecIs, AcceptedIs
  <2> QED BY <1>3, <2>1, <2>2 DEF Moves, Adopted
<1>4. ASSUME NEW r \in Recs, AdoptLive(r) PROVE OneInv'
  BY <1>1, <1>3, <1>4 DEF AdoptLive
<1>5. ASSUME NEW r \in Recs, Expire(r) PROVE OneInv'
  <2>1. rec' = [rec EXCEPT ![r] = Gone(rec[r])] /\ proc' = proc
        /\ rec[r].life = "pending" /\ rec[r].sub = "refused"
    BY <1>5 DEF Expire
  <2>2. \A k \in OrdersOf(r) : orders[k].st # "wire"
    BY <2>1, RecIs, LostMeansNotLive DEF Fits, Live
  <2>3. Unsent(r)
    BY <2>1, <2>2, <1>0 DEF Unsent, Calm, Owns
  <2>4. rec'[r] = Gone(rec[r]) => Moves(r)
    BY <2>3, GoneIs DEF Moves, Dropped
  <2> QED BY <1>1, <2>1, <2>4
<1>6. rec'[Wrk.rec] = Unleased(rec[Wrk.rec]) => Moves(Wrk.rec)
  BY <1>0, WritesKeep DEF Moves, Kept
<1>7. CASE LookLater
  BY <1>6, <1>7, CompleteMoves DEF LookLater
<1>8. CASE AwaitCancel
  <2> DEFINE o == orders[rec[Wrk.rec].old]
  <2>1. Wrk.at = "awaiting" /\ Done("wrk")
        /\ IF o.st = "canceled"
           THEN IF Activates("wrk", o) THEN rec' = Activated("wrk", o, FALSE)
                                       ELSE Complete("wrk", Unleased(rec[Wrk.rec]))
           ELSE Complete("wrk", Gone(rec[Wrk.rec]))
    BY <1>8 DEF AwaitCancel, CancelConfirmed
  <2>2. Mine("wrk") => rec[Wrk.rec].life = "awaiting"
    BY <2>1 DEF RInv, ClaimSane
  <2>3. CASE o.st = "canceled" /\ Activates("wrk", o)
    <3>1. \A r \in Recs : Moves(r)
      BY <2>1, <2>3, ActivatedMoves DEF Activates
    <3>2. proc'["wrk"].at = "idle" /\ proc'["mon"] = proc["mon"]
      BY <1>0, <2>1 DEF Done, Idle
    <3> QED BY <3>1, <3>2, OneMoves DEF Mon
  <2>4. CASE Complete("wrk", Unleased(rec[Wrk.rec]))
    BY <1>6, <2>1, <2>4, CompleteMoves
  <2>5. CASE Complete("wrk", Gone(rec[Wrk.rec]))
    <3>1. Mine("wrk") /\ rec'[Wrk.rec] = Gone(rec[Wrk.rec]) => Moves(Wrk.rec)
      BY <1>0, <2>2, GoneIs DEF Moves, Dropped
    <3> QED BY <2>1, <2>5, <3>1, CompleteMoves
  <2> QED BY <2>1, <2>3, <2>4, <2>5
<1>9. CASE PollAccepted
  <2> DEFINE x == rec[Wrk.rec]
             o == orders[x.oid]
             y == IF o.st = "expired" THEN Revised(x, o) ELSE Gone(x)
  <2>1. Wrk.at = "accepted" /\ Done("wrk") /\ Complete("wrk", y)
    BY <1>9 DEF PollAccepted, Complete
  <2>2. ASSUME Mine("wrk"), rec'[Wrk.rec] = y PROVE Moves(Wrk.rec)
    <3>1. x.life = "accepted" /\ x \in RecSet
      BY <1>0, <2>1, <2>2 DEF RInv, ClaimSane
    <3>2. CASE y = Gone(x)
      BY <1>0, <2>2, <3>1, <3>2, GoneIs DEF Moves, Dropped
    <3>3. CASE y # Gone(x)
      <4>1. y = Revised(x, o) /\ o.st = "expired" /\ Rest(o) # 0
        BY <3>3 DEF Revised
      <4>2. y.life = "pending" /\ y.qty = Rest(o) /\ y.old = x.old /\ y.rev = x.rev + 1
        BY <3>1, <4>1, WritesAre DEF Revised, RecSet, Agrees
      <4> QED BY <2>2, <3>1, <4>1, <4>2 DEF Moves, Renewed
    <3> QED BY <3>2, <3>3
  <2> HIDE DEF y
  <2> QED BY <2>1, <2>2, CompleteMoves
<1>10. CASE LookupFound
  <2>1. Mine("wrk") /\ Found(Wrk.rec) # {} /\ Done("wrk") /\ rec[Wrk.rec].life = "pending"
        /\ Complete("wrk", Accepted(rec[Wrk.rec], Max(Found(Wrk.rec))))
    BY <1>10 DEF LookupFound, RInv, ClaimSane
  <2> QED BY <1>0, <1>3, <2>1, CompleteMoves
<1>11. CASE Absent
  <2>1. rec' = rec /\ proc'["wrk"].at = "active" /\ proc'["mon"] = proc["mon"]
    BY <1>0, <1>11 DEF Absent, Goto, ProcSet
  <2> QED BY <2>1, ProcsMove
<1> QED BY <1>2, <1>4, <1>5, <1>7, <1>8, <1>9, <1>10, <1>11 DEF WorkerStep

\* Submits, leases, crashes
LEMMA SubmitMoves ==
  ASSUME RInv, RInv', OneInv, orders' = orders, NEW p \in Procs, Submit(p)
  PROVE  OneInv'
<1> DEFINE r == proc[p].rec
           x == rec[r]
<1>0. /\ proc \in [Procs -> ProcSet] /\ proc[p] \in ProcSet /\ r \in Recs
      /\ rec \in [Recs -> RecSet] /\ x \in RecSet /\ Calm
  BY RecOfProc, Types DEF RInv, Typed, OneInv
<1>1. ASSUME NEW y \in {Refused(x), Unknown(x)}, Complete(p, y), Done(p) PROVE OneInv'
  <2>1. rec'[r] = y => Moves(r)
    BY <1>0, WritesKeep DEF Moves, Kept
  <2> QED BY <1>1, <2>1, CompleteMoves
<1>2. CASE Begin(p)
  <2>1. CASE Mine(p)
    <3>1. /\ rec' = [rec EXCEPT ![r] = Begun(x, p)]
          /\ proc' = [proc EXCEPT ![p].at = "begun", ![p].qty = x.qty, ![p].rev = x.rev]
          /\ x.life = "pending"
      BY <1>2, <2>1 DEF Begin, Complete, RInv, ClaimSane
    <3>2. /\ proc'[p].rec = r /\ proc'[p].qty = x.qty /\ proc'[p].at = "begun"
          /\ \A q \in Procs : q # p => proc'[q] = proc[q]
      BY <1>0, <3>1 DEF ProcSet
    <3>3. Kept(r) /\ \A s \in Recs : s # r => rec'[s] = rec[s]
      BY <1>0, <3>1, WritesKeep DEF Kept
    <3>4. \A s \in Recs : Moves(s)
      BY <3>3, KeptMoves DEF Moves
    <3>5. rec'[proc'[p].rec].life = "pending" /\ proc'[p].qty = rec'[proc'[p].rec].qty
      BY <3>1, <3>2, <3>3 DEF Kept
    <3> QED BY <3>2, <3>4, <3>5, OneMoves DEF Mon
  <2>2. CASE ~Mine(p)
    <3>1. rec' = rec /\ proc'[p].at = "idle" /\ \A q \in Procs : q # p => proc'[q] = proc[q]
      BY <1>0, <1>2, <2>2 DEF Begin, Done, Idle
    <3> QED BY <3>1, ProcsMove
  <2> QED BY <2>1, <2>2
<1>3. CASE PlaceRefused(p)
  <2>1. CASE Complete(p, Gone(x))
    <3>1. proc[p].at = "begun" /\ Done(p) /\ Owns(p)
          /\ \A k \in Sent(r, x.rev) : Lost(k)
      BY <1>0, <1>3 DEF PlaceRefused, Calm, Owns, RInv, SubmitSane
    <3>2. \A k \in OrdersOf(r) : orders[k].st # "wire"
      BY <1>0, <3>1, LostMeansNotLive DEF Live, Owns
    <3>3. Unsent(r)
      <4>1. proc'[p].at = "idle" /\ \A q \in Procs : q # p => proc'[q] = proc[q]
        BY <1>0, <3>1 DEF Done, Idle
      <4> QED BY <1>0, <3>1, <3>2, <4>1 DEF Unsent, Calm, Owns
    <3>4. rec'[r] = Gone(x) => Moves(r)
      BY <1>0, <3>3, GoneIs DEF Moves, Dropped
    <3> QED BY <2>1, <3>1, <3>4, CompleteMoves
  <2>2. CASE Complete(p, Refused(x))
    BY <1>1, <1>3, <2>2 DEF PlaceRefused
  <2> QED BY <1>3, <2>1, <2>2 DEF PlaceRefused
<1>4. CASE Send(p)
  <2>1. Len(orders') = Len(orders) + 1
    BY <1>4, Types DEF Send, RInv, TypeOK
  <2> QED BY <2>1, Types DEF RInv, Typed
<1>5. CASE Answer(p)
  <2> DEFINE k == proc[p].oid
  <2>1. CASE orders[k].st \notin {"wire", "lost"} /\ Complete(p, Accepted(x, k))
    <3>1. proc[p].at = "sent" /\ Done(p) /\ k \in Sent(r, proc[p].rev)
      BY <1>5 DEF Answer, RInv, SubmitSane
    <3>2. Mine(p) => x.life = "pending" /\ x.rev = proc[p].rev
      BY <3>1 DEF RInv, ClaimSane, Owns
    <3>3. Accepted(x, k).life = "accepted" /\ Accepted(x, k).old = x.old /\ Accepted(x, k).rev = x.rev
      BY <1>0, AcceptedIs
    <3>4. Mine(p) /\ rec'[r] = Accepted(x, k) => Moves(r)
      BY <2>1, <3>1, <3>2, <3>3 DEF Moves, Adopted, Acked
    <3> QED BY <2>1, <3>1, <3>4, CompleteMoves
  <2>2. CASE Complete(p, Refused(x)) \/ Complete(p, Unknown(x))
    BY <1>1, <1>5, <2>2 DEF Answer
  <2> QED BY <1>5, <2>1, <2>2 DEF Answer
<1> QED BY <1>2, <1>3, <1>4, <1>5 DEF Submit

LEMMA OthersMove ==
  ASSUME RInv, RInv', OneInv, orders' = orders,
         \/ \E p \in Procs : Abandon(p) \/ Crash(p)
         \/ \E r \in Recs : Lapse(r)
         \/ UNCHANGED vars
  PROVE  OneInv'
<1>0. proc \in [Procs -> ProcSet] /\ rec \in [Recs -> RecSet]
  BY Types DEF RInv, Typed
<1>1. ASSUME NEW p \in Procs, Done(p), \A r \in Recs : Moves(r) PROVE OneInv'
  <2>1. proc'[p].at = "idle" /\ \A q \in Procs : q # p => proc'[q] = proc[q]
    BY <1>0, <1>1 DEF Done, Idle
  <2> QED BY <1>1, <2>1, OneMoves DEF Mon
<1>2. ASSUME NEW p \in Procs, Abandon(p) PROVE OneInv'
  BY <1>1, <1>2, KeptMoves DEF Abandon
<1>3. ASSUME NEW p \in Procs, Crash(p) PROVE OneInv'
  <2>1. ASSUME NEW r \in Recs PROVE Moves(r)
    <3>1. rec[r] \in RecSet
          /\ rec'[r] = [rec[r] EXCEPT !.holder = IF @ = p THEN "none" ELSE @,
                                      !.owner = IF @ = p THEN "dead" ELSE @]
      BY <1>0, <1>3 DEF Crash
    <3>2. Kept(r)
      BY <3>1 DEF Kept, RecSet
    <3> QED BY <3>2 DEF Moves
  <2> QED BY <1>1, <1>3, <2>1 DEF Crash
<1>4. ASSUME NEW r \in Recs, Lapse(r) PROVE OneInv'
  <2>1. /\ rec[r] \in RecSet /\ rec'[r] = [rec[r] EXCEPT !.leased = FALSE] /\ proc' = proc
        /\ \A s \in Recs : s # r => rec'[s] = rec[s]
    BY <1>0, <1>4 DEF Lapse
  <2>2. Kept(r)
    BY <2>1 DEF Kept, RecSet
  <2>3. \A s \in Recs : Moves(s)
    BY <2>1, <2>2, KeptMoves DEF Moves
  <2> QED BY <2>1, <2>3, OneMoves DEF Mon
<1>5. CASE UNCHANGED vars
  <2>1. \A s \in Recs : Moves(s)
    BY <1>5, KeptMoves DEF vars
  <2> QED BY <1>5, <2>1, OneMoves DEF vars, Mon
<1> QED BY <1>2, <1>3, <1>4, <1>5
--------------------------------------------------------------------------------
(* The venue's steps *)

FilledAt(ords) == [k \in DOMAIN ords |-> ords[k].filled]
WorkingAt(ords) ==
  [k \in DOMAIN ords |-> IF ords[k].st \in {"wire", "open"} THEN Rest(ords[k]) ELSE 0]

LEMMA FilledIsSum ==
  ASSUME NEW ords, IsFiniteSet(DOMAIN ords)
  PROVE  FilledIn(ords) = SumOver(FilledAt(ords), DOMAIN ords)
<1> DEFINE S == DOMAIN ords
           fold(g) == [s \in SUBSET S |-> IF s = {} THEN 0 ELSE ords[Pick(s)].filled + g[s \ {Pick(s)}]]
           h == CHOOSE g : g = fold(g)
<1>1. FilledIn(ords) = h[S]
  BY DEF FilledIn, MapThenSumSet, MapThenFoldSet, Pick
<1>2. ASSUME NEW g PROVE IsFold(FilledAt(ords), g, S) <=> g = fold(g)
  <2>1. ASSUME NEW s \in SUBSET S, s # {} PROVE FilledAt(ords)[Pick(s)] = ords[Pick(s)].filled
    BY <2>1, PickIn DEF FilledAt
  <2>2. fold(g) = [s \in SUBSET S |-> IF s = {} THEN 0
                                      ELSE FilledAt(ords)[Pick(s)] + g[s \ {Pick(s)}]]
    BY <2>1
  <2> QED BY <2>2 DEF IsFold
<1>3. \E g : g = fold(g)
  BY <1>2, FoldExists
<1> HIDE DEF fold
<1>4. h = fold(h)
  BY <1>3
<1> HIDE DEF h
<1>5. SumOver(FilledAt(ords), S) = h[S]
  BY <1>2, <1>4, SumOverIsFold
<1> QED BY <1>1, <1>5

LEMMA WorkingIsSum ==
  ASSUME NEW ords, IsFiniteSet(DOMAIN ords)
  PROVE  WorkingIn(ords) = SumOver(WorkingAt(ords), DOMAIN ords)
<1> DEFINE S == DOMAIN ords
           at(k) == IF ords[k].st \in {"wire", "open"} THEN Rest(ords[k]) ELSE 0
           fold(g) == [s \in SUBSET S |-> IF s = {} THEN 0 ELSE at(Pick(s)) + g[s \ {Pick(s)}]]
           h == CHOOSE g : g = fold(g)
<1>1. WorkingIn(ords) = h[S]
  BY DEF WorkingIn, MapThenSumSet, MapThenFoldSet, Pick
<1>2. ASSUME NEW g PROVE IsFold(WorkingAt(ords), g, S) <=> g = fold(g)
  <2>1. ASSUME NEW s \in SUBSET S, s # {} PROVE WorkingAt(ords)[Pick(s)] = at(Pick(s))
    BY <2>1, PickIn DEF WorkingAt
  <2> HIDE DEF at
  <2>2. fold(g) = [s \in SUBSET S |-> IF s = {} THEN 0
                                      ELSE WorkingAt(ords)[Pick(s)] + g[s \ {Pick(s)}]]
    BY <2>1
  <2> QED BY <2>2 DEF IsFold
<1>3. \E g : g = fold(g)
  BY <1>2, FoldExists
<1> HIDE DEF fold
<1>4. h = fold(h)
  BY <1>3
<1> HIDE DEF h
<1>5. SumOver(WorkingAt(ords), S) = h[S]
  BY <1>2, <1>4, SumOverIsFold
<1> QED BY <1>1, <1>5

\* Orders as the sums need them.
Summable(ords) ==
  /\ IsFiniteSet(DOMAIN ords)
  /\ \A k \in DOMAIN ords : ords[k].qty \in Nat /\ ords[k].filled \in Nat

LEMMA OrdersSummable == RInv => Summable(orders)
<1> SUFFICES ASSUME RInv PROVE Summable(orders)
  OBVIOUS
<1>1. Known = 1..Len(orders) /\ Len(orders) \in Nat
  BY Types DEF RInv, Typed
<1>2. IsFiniteSet(Known)
  BY <1>1, FS_Interval
<1> QED BY <1>2, OrderIs DEF Summable, Known

LEMMA RestInt ==
  ASSUME NEW ords, Summable(ords), NEW k \in DOMAIN ords
  PROVE  Rest(ords[k]) \in Int /\ WorkingAt(ords)[k] \in Int /\ FilledAt(ords)[k] \in Nat
         /\ FilledAt(ords)[k] = ords[k].filled
         /\ WorkingAt(ords)[k] = IF ords[k].st \in {"wire", "open"} THEN Rest(ords[k]) ELSE 0
<1>1. Rest(ords[k]) \in Int
  BY DEF Rest, Summable
<1> QED BY <1>1 DEF WorkingAt, FilledAt, Summable

LEMMA SumsInt ==
  ASSUME NEW ords, Summable(ords)
  PROVE  FilledIn(ords) \in Nat /\ WorkingIn(ords) \in Int
<1>1. IsFiniteSet(DOMAIN ords)
  BY DEF Summable
<1>2. SumOver(FilledAt(ords), DOMAIN ords) \in Nat
  BY <1>1, RestInt, SumOverNat
<1>3. SumOver(WorkingAt(ords), DOMAIN ords) \in Int
  BY <1>1, RestInt, SumOverInt
<1> QED BY <1>1, <1>2, <1>3, FilledIsSum, WorkingIsSum

\* If only order k may be live, its rest is what works.
LEMMA WorkingOne ==
  ASSUME NEW ords, Summable(ords), NEW k \in DOMAIN ords,
         \A j \in DOMAIN ords : ords[j].st \in {"wire", "open"} => j = k
  PROVE  WorkingIn(ords) = IF ords[k].st \in {"wire", "open"} THEN Rest(ords[k]) ELSE 0
<1> DEFINE S == DOMAIN ords
           f == WorkingAt(ords)
           z == [j \in S |-> 0]
<1>1. IsFiniteSet(S) /\ IsFiniteSet(S \ {k}) /\ \A j \in S : f[j] \in Int
  BY RestInt, FS_Subset DEF Summable
<1>2. \A j \in S \ {k} : f[j] = 0
  BY RestInt
<1>3. SumOver(f, S) = f[k] + SumOver(f, S \ {k})
  BY <1>1, SumOverRemove
<1>4. SumOver(f, S \ {k}) = 0
  <2>1. SumOver(f, S \ {k}) = SumOver(z, S \ {k})
    BY <1>1, <1>2, SumOverEqual
  <2>2. SumOver(z, S \ {k}) = 0
    BY <1>1, SumOverZero
  <2> QED BY <2>1, <2>2
<1>5. WorkingIn(ords) = f[k]
  <2>1. f[k] \in Int
    BY <1>1
  <2> HIDE DEF f
  <2>2. SumOver(f, S) = f[k]
    BY <1>3, <1>4, <2>1
  <2> QED BY <1>1, <2>2, WorkingIsSum DEF f
<1> QED BY <1>5, RestInt

LEMMA FilledChanges ==
  ASSUME NEW ords, NEW ords2, Summable(ords), Summable(ords2), DOMAIN ords2 = DOMAIN ords,
         NEW k \in DOMAIN ords, \A j \in DOMAIN ords : j # k => ords2[j] = ords[j]
  PROVE  FilledIn(ords2) = FilledIn(ords) + (ords2[k].filled - ords[k].filled)
<1> DEFINE S == DOMAIN ords
           f == FilledAt(ords)
           g == FilledAt(ords2)
<1>1. IsFiniteSet(S) /\ \A j \in S : f[j] \in Int /\ g[j] \in Int
  BY RestInt DEF Summable
<1>2. \A j \in S \ {k} : f[j] = g[j]
  BY RestInt
<1>3. f[k] = ords[k].filled /\ g[k] = ords2[k].filled
  BY RestInt
<1> HIDE DEF f, g
<1>4. SumOver(g, S) = SumOver(f, S) + (g[k] - f[k])
  BY <1>1, <1>2, SumOverChange
<1>5. FilledIn(ords) = SumOver(f, S) /\ FilledIn(ords2) = SumOver(g, S)
  BY <1>1, FilledIsSum DEF f, g
<1> QED BY <1>3, <1>4, <1>5

LEMMA FilledGrows ==
  ASSUME NEW ords, NEW ords2, Summable(ords), Summable(ords2), NEW k, k \notin DOMAIN ords,
         DOMAIN ords2 = DOMAIN ords \cup {k}, \A j \in DOMAIN ords : ords2[j] = ords[j],
         ords2[k].filled = 0
  PROVE  FilledIn(ords2) = FilledIn(ords)
<1> DEFINE S == DOMAIN ords
           f == FilledAt(ords)
           g == FilledAt(ords2)
<1>1. /\ IsFiniteSet(S) /\ IsFiniteSet(S \cup {k})
      /\ \A j \in S : f[j] \in Int
      /\ \A j \in S \cup {k} : g[j] \in Int
  BY RestInt DEF Summable
<1>2. (\A j \in S : f[j] = g[j]) /\ g[k] = 0
  BY RestInt
<1>3. SumOver(g, S \cup {k}) = SumOver(g, S) + g[k]
  <2> HIDE DEF S, g
  <2>1. k \notin S
    BY DEF S
  <2> QED BY <1>1, <2>1, SumOverInsert
<1>4. SumOver(f, S) = SumOver(g, S) /\ SumOver(f, S) \in Int
  BY <1>1, <1>2, SumOverEqual, SumOverInt
<1>5. FilledIn(ords) = SumOver(f, S) /\ FilledIn(ords2) = SumOver(g, S \cup {k})
  BY <1>1, FilledIsSum
<1> HIDE DEF f, g
<1> QED BY <1>2, <1>3, <1>4, <1>5

LEMMA LiveIsOne ==
  ASSUME RInv, OneInv, NEW j \in Known, NEW k \in Known, Live(j), Live(k)
  PROVE  j = k
<1>1. PICK b \in Known : Standing(b)
  BY DEF OneInv
<1>2. ASSUME NEW i \in Known, NEW h \in Known, orders[i].st = "wire", Live(h) PROVE i = h
  <2> DEFINE r == orders[i].of
  <2>1. r \in Recs /\ Outstanding(r, rec[r]) /\ i \in Sent(r, rec[r].rev)
    BY <1>1, <1>2, WireIsOutstanding
  <2>2. orders[b].st # "open"
    BY <1>1, <2>1, OneOutstanding DEF OneInv
  <2>3. orders[h].st = "wire"
    BY <1>1, <1>2, <2>2 DEF Standing, Live
  <2>4. orders[h].of = r /\ h \in Sent(orders[h].of, rec[orders[h].of].rev)
    BY <1>1, <2>1, <2>3, WireIsOutstanding, OneOutstanding DEF OneInv
  <2> QED BY <1>2, <2>1, <2>3, <2>4 DEF RInv, IdsUsedOnce, Sent, OrdersOf, Lost
<1>3. CASE orders[j].st = "wire" \/ orders[k].st = "wire"
  BY <1>2, <1>3
<1>4. CASE orders[j].st = "open" /\ orders[k].st = "open"
  BY <1>1, <1>4 DEF Standing
<1> QED BY <1>3, <1>4 DEF Live

LEMMA AmendIs ==
  ASSUME RInv, NEW k \in Known, NEW o \in OrderSet, orders' = [orders EXCEPT ![k] = o]
  PROVE  Known' = Known /\ \A j \in Known : orders'[j] = IF j = k THEN o ELSE orders[j]
<1>1. orders \in Seq(OrderSet)
  BY DEF RInv, TypeOK, OrderSet
<1> QED BY <1>1, OneOrderChanges

\* One order changes. Calm says little of the venue.
LEMMA AmendCalm ==
  ASSUME RInv, Calm, NEW k \in Known, NEW o \in OrderSet, orders' = [orders EXCEPT ![k] = o],
         rec' = rec, proc'["wrk"] = proc["wrk"],
         \/ proc'["mon"] = Mon /\ o.st # "canceled"
         \/ proc'["mon"].at \in {"idle", "resolve", "canceled"},
         o.st \in {"wire", "lost"} => o.filled = 0
  PROVE  Calm'
<1>1. Known' = Known /\ \A j \in Known : orders'[j] = IF j = k THEN o ELSE orders[j]
  BY AmendIs
<1>2. Mon'.at \in {"listed", "queued", "leased"} => orders'[Mon'.oid].st # "canceled"
  BY <1>1 DEF Calm, Mon, RInv, MonitorSane
<1>3. \A p \in Procs : proc'[p].at = "begun" => Owns(p)' /\ proc'[p].qty = rec'[proc'[p].rec].qty
  <2>1. ASSUME NEW p \in Procs, proc'[p].at = "begun" PROVE proc'[p] = proc[p]
    BY <2>1 DEF Mon
  <2> QED BY <2>1 DEF Calm, Owns
<1>4. \A r, s \in Recs \ {0} : Queued(r)' /\ Queued(s)' /\ rec'[r].old = rec'[s].old => r = s
  BY DEF Calm, Queued
<1>5. \A j \in Known' : ~Acked(j)' => orders'[j].filled = 0
  BY <1>1 DEF Calm, Acked
<1> QED BY <1>2, <1>3, <1>4, <1>5 DEF Calm

LEMMA AmendSums ==
  ASSUME RInv, RInv', NEW k \in Known, NEW o \in OrderSet, orders' = [orders EXCEPT ![k] = o]
  PROVE  /\ Summable(orders) /\ Summable(orders')
         /\ FilledIn(orders') = FilledIn(orders) + (o.filled - orders[k].filled)
         /\ FilledIn(orders) \in Nat /\ o.filled \in Nat /\ o.qty \in Nat
         /\ orders[k].filled \in Nat /\ orders[k].qty \in Nat
<1>1. Known' = Known /\ \A j \in Known : orders'[j] = IF j = k THEN o ELSE orders[j]
  BY AmendIs
<1>2. Summable(orders)
  BY OrdersSummable
<1>3. o.filled \in Nat /\ o.qty \in Nat /\ orders[k].filled \in Nat /\ orders[k].qty \in Nat
  BY OrderIs DEF OrderSet
<1>4. Summable(orders')
  BY <1>1, <1>2, <1>3 DEF Summable, Known
<1>5. FilledIn(orders') = FilledIn(orders) + (o.filled - orders[k].filled)
  BY <1>1, <1>2, <1>4, FilledChanges DEF Known
<1> QED BY <1>2, <1>3, <1>4, <1>5, SumsInt

\* The order that stands is filled, or ends.
LEMMA OpenChanges ==
  ASSUME RInv, RInv', Calm, NEW b \in Known, Standing(b), NEW k \in Known, orders[k].st = "open",
         NEW o \in OrderSet, orders' = [orders EXCEPT ![k] = o], rec' = rec,
         o.of = orders[k].of, o.rev = orders[k].rev, o.qty = orders[k].qty,
         o.st \notin {"wire", "lost"}
  PROVE  b = k /\ Standing(b)'
<1>1. b = k
  BY DEF Standing
<1>2. Known' = Known /\ \A j \in Known : orders'[j] = IF j = k THEN o ELSE orders[j]
  BY AmendIs
<1>3. \A r \in Recs : ~Outstanding(r, rec[r])
  BY <1>1, OneOutstanding
<1>4. \A j \in Known : orders[j].st # "wire"
  BY <1>3, WireIsOutstanding
<1>5. ASSUME NEW r \in Recs PROVE Backed(r, rec[r], b)'
  <2> DEFINE x == rec[r]
  <2>1. OrdersOf(r)' = OrdersOf(r) /\ \A v : Sent(r, v)' = Sent(r, v)
    BY <1>2 DEF OrdersOf, Sent
  <2>2. ~(\A j \in Sent(r, x.rev) : ~Acked(j)') \/ x.life # "pending"
    BY <1>2, <1>3 DEF Outstanding, Acked, Sent, OrdersOf
  <2>3. \A j \in OrdersOf(r) : orders'[j].st # "wire"
    BY <1>2, <1>4 DEF OrdersOf
  <2>4. Backed(r, x, b) /\ Fits(r, x)
    BY RecIs DEF Standing
  <2>5. x.life = "awaiting" /\ orders'[x.old].st = "canceled" => x.old = b
    BY <1>1, <1>2, <2>4 DEF Backed, Fits
  <2>6. x.life \in {"pending", "accepted"} =>
          \A j \in Sent(r, x.rev) : orders'[j].st = "expired" => j = b
    BY <1>1, <1>2, <2>4 DEF Backed, Sent, OrdersOf
  <2> QED BY <2>1, <2>2, <2>3, <2>5, <2>6 DEF Backed, Outstanding
<1>6. FilledIn(orders') + Rest(orders'[b]) <= Qty
  <2>1. /\ FilledIn(orders') = FilledIn(orders) + (o.filled - orders[k].filled)
        /\ FilledIn(orders) \in Nat /\ o.filled \in Nat /\ orders[k].filled \in Nat
        /\ orders[k].qty \in Nat
    BY AmendSums
  <2>2. FilledIn(orders) + (orders[k].qty - orders[k].filled) <= Qty /\ orders'[b] = o
    BY <1>1, <1>2 DEF Standing, Rest
  <2> QED BY <2>1, <2>2 DEF Rest
<1> QED BY <1>1, <1>2, <1>5, <1>6 DEF Standing, Acked

\* An order on its way is lost.
LEMMA LostLands ==
  ASSUME RInv, RInv', NEW b \in Known, Standing(b), NEW k \in Known, orders[k].st = "wire",
         NEW o \in OrderSet, orders' = [orders EXCEPT ![k] = o], rec' = rec,
         o.of = orders[k].of, o.rev = orders[k].rev, o.qty = orders[k].qty,
         o.filled = orders[k].filled, o.st = "lost"
  PROVE  Standing(b)'
<1>1. b # k /\ Acked(b)
  BY DEF Standing, Acked
<1>2. Known' = Known /\ \A j \in Known : orders'[j] = IF j = k THEN o ELSE orders[j]
  BY AmendIs
<1>3. ASSUME NEW r \in Recs PROVE Backed(r, rec[r], b)'
  <2> DEFINE x == rec[r]
  <2>1. OrdersOf(r)' = OrdersOf(r) /\ \A v : Sent(r, v)' = Sent(r, v)
    BY <1>2 DEF OrdersOf, Sent
  <2>2. \A j \in Known : Acked(j)' <=> Acked(j)
    BY <1>2 DEF Acked
  <2>3. Backed(r, x, b) /\ Fits(r, x)
    BY RecIs DEF Standing
  <2>4. Outstanding(r, x)' <=> Outstanding(r, x)
    BY <2>1, <2>2 DEF Outstanding, Sent, OrdersOf
  <2>5. Continues(r, x, b)' <=> Continues(r, x, b)
    BY <1>1, <1>2 DEF Continues
  <2>6. x.life = "awaiting" /\ orders'[x.old].st = "canceled" => x.old = b
    BY <1>2, <2>3 DEF Backed, Fits
  <2>7. x.life \in {"pending", "accepted"} =>
          \A j \in Sent(r, x.rev) : orders'[j].st = "expired" => j = b
    BY <1>2, <2>3 DEF Backed, Sent, OrdersOf
  <2>8. \A j \in OrdersOf(r) : orders'[j].st = "wire" =>
          x.life = "pending" /\ orders'[j].rev = x.rev /\ orders'[j].qty <= Rest(orders'[b])
    BY <1>1, <1>2, <2>3 DEF Backed, OrdersOf
  <2>9. Outstanding(r, x)' => Continues(r, x, b)' /\ x.qty <= Rest(orders'[b])
    BY <1>1, <1>2, <2>3, <2>4, <2>5 DEF Backed
  <2> QED BY <2>1, <2>6, <2>7, <2>8, <2>9 DEF Backed
<1>4. FilledIn(orders') + Rest(orders'[b]) <= Qty
  <2>1. FilledIn(orders') = FilledIn(orders) + (o.filled - orders[k].filled)
        /\ FilledIn(orders) \in Nat /\ orders[k].filled \in Nat
    BY AmendSums
  <2>2. FilledIn(orders') = FilledIn(orders) /\ orders'[b] = orders[b]
    BY <1>1, <1>2, <2>1
  <2> QED BY <2>2 DEF Standing
<1> QED BY <1>1, <1>2, <1>3, <1>4 DEF Standing, Acked

\* An order on its way arrives: the rest stands under it from now on.
LEMMA OpenLands ==
  ASSUME RInv, RInv', Calm, NEW b \in Known, Standing(b), NEW k \in Known, orders[k].st = "wire",
         NEW o \in OrderSet, orders' = [orders EXCEPT ![k] = o], rec' = rec,
         o.of = orders[k].of, o.rev = orders[k].rev, o.qty = orders[k].qty,
         o.filled = orders[k].filled, o.st = "open"
  PROVE  Standing(k)'
<1> DEFINE q == orders[k].of
<1>1. q \in Recs /\ Outstanding(q, rec[q]) /\ k \in Sent(q, rec[q].rev)
      /\ orders[k].qty <= Rest(orders[b]) /\ b # k
  BY WireIsOutstanding DEF Standing, Acked
<1>2. Known' = Known /\ \A j \in Known : orders'[j] = IF j = k THEN o ELSE orders[j]
  BY AmendIs
<1>3. /\ orders[b].st # "open"
      /\ \A s \in Recs : Outstanding(s, rec[s]) => s = q
      /\ \A s \in Recs \ {0} : rec[s].life = "awaiting" => orders[rec[s].old].st # "canceled"
      /\ \A s \in Recs : rec[s].life \in {"pending", "accepted"} =>
           \A j \in Sent(s, rec[s].rev) : orders[j].st # "expired"
  BY <1>1, OneOutstanding
<1>4. \A j \in Known : orders[j].st = "wire" => j = k
  <2> SUFFICES ASSUME NEW j \in Known, orders[j].st = "wire" PROVE j = k
    OBVIOUS
  <2>1. orders[j].of = q /\ j \in Sent(q, rec[q].rev)
    BY <1>3, WireIsOutstanding
  <2> QED BY <1>1, <2>1 DEF RInv, IdsUsedOnce, Sent, OrdersOf, Lost
<1>5. ASSUME NEW r \in Recs PROVE Backed(r, rec[r], k)'
  <2> DEFINE x == rec[r]
  <2>1. OrdersOf(r)' = OrdersOf(r) /\ \A v : Sent(r, v)' = Sent(r, v)
    BY <1>2 DEF OrdersOf, Sent
  <2>2. Fits(r, x)
    BY RecIs
  <2>3. ~Outstanding(r, x)'
    <3>1. CASE r = q
      BY <1>1, <1>2, <2>1, <3>1 DEF Outstanding, Acked
    <3>2. CASE r # q
      BY <1>2, <1>3, <2>1, <3>2 DEF Outstanding, Acked, Sent, OrdersOf
    <3> QED BY <3>1, <3>2
  <2>4. x.life = "awaiting" => orders'[x.old].st # "canceled"
    BY <1>2, <1>3, <2>2 DEF Fits
  <2>5. x.life \in {"pending", "accepted"} => \A j \in Sent(r, x.rev) : orders'[j].st # "expired"
    BY <1>2, <1>3 DEF Sent, OrdersOf
  <2>6. \A j \in OrdersOf(r) : orders'[j].st # "wire"
    BY <1>2, <1>4 DEF OrdersOf
  <2> QED BY <2>1, <2>3, <2>4, <2>5, <2>6 DEF Backed
<1>6. FilledIn(orders') + Rest(orders'[k]) <= Qty
  <2>1. orders[k].filled = 0
    BY DEF Calm, Acked
  <2>2. /\ FilledIn(orders') = FilledIn(orders) + (o.filled - orders[k].filled)
        /\ FilledIn(orders) \in Nat /\ orders[k].qty \in Nat
    BY AmendSums
  <2>3. Rest(o) = orders[k].qty /\ FilledIn(orders') = FilledIn(orders)
    BY <2>1, <2>2 DEF Rest
  <2>4. Rest(orders[b]) \in Int /\ FilledIn(orders) + Rest(orders[b]) <= Qty
    <3>1. orders[b].qty \in Nat /\ orders[b].filled \in Nat
      BY OrderIs
    <3> QED BY <3>1 DEF Rest, Standing
  <2>5. orders'[k] = o
    BY <1>2
  <2> QED BY <1>1, <2>2, <2>3, <2>4, <2>5
<1>7. \A j \in Known : orders'[j].st = "open" => j = k
  BY <1>2, <1>3 DEF Standing
<1> QED BY <1>2, <1>5, <1>6, <1>7 DEF Standing, Acked

\* What a step does to the promise, in its variables.
Promised == [Promise!PromiseNext]_<<Qty - FilledIn(orders), WorkingIn(orders)>>

LEMMA NothingMoves == ASSUME orders' = orders PROVE Promised
BY DEF Promised

\* Only the order at work is filled or ends.
LEMMA AmendPromised ==
  ASSUME RInv, RInv', OneInv, OneInv', NEW k \in Known, Live(k),
         NEW o \in OrderSet, orders' = [orders EXCEPT ![k] = o], o.qty = orders[k].qty,
         \/ o.filled = orders[k].filled
         \/ o.filled = orders[k].filled + 1 /\ (o.st \in {"wire", "open"} \/ o.filled = o.qty)
  PROVE  Promised
<1>1. Known' = Known /\ orders'[k] = o
  <2>1. Known' = Known /\ \A j \in Known : orders'[j] = IF j = k THEN o ELSE orders[j]
    BY AmendIs
  <2> QED BY <2>1
<1>2. /\ Summable(orders) /\ Summable(orders')
      /\ FilledIn(orders') = FilledIn(orders) + (o.filled - orders[k].filled)
      /\ FilledIn(orders) \in Nat /\ o.filled \in Nat /\ orders[k].filled \in Nat
      /\ orders[k].qty \in Nat
  BY AmendSums
<1>3. \A j \in Known : Live(j) => j = k
  BY LiveIsOne
<1>4. \A j \in Known : orders'[j].st \in {"wire", "open"} => j = k
  <2>1. \A j \in Known : j # k => orders'[j] = orders[j]
    BY AmendIs
  <2> QED BY <1>3, <2>1 DEF Live
<1>5. WorkingIn(orders) = Rest(orders[k])
  <2>1. WorkingIn(orders) = IF orders[k].st \in {"wire", "open"} THEN Rest(orders[k]) ELSE 0
    BY <1>2, <1>3, WorkingOne DEF Live, Known
  <2> QED BY <2>1 DEF Live
<1>6. WorkingIn(orders') = IF o.st \in {"wire", "open"} THEN Rest(o) ELSE 0
  BY <1>1, <1>2, <1>4, WorkingOne DEF Known
<1>7. orders[k].filled < orders[k].qty
  BY OrderIs DEF OrderSane
<1>8. CASE o.filled = orders[k].filled
  <2>1. FilledIn(orders') = FilledIn(orders) /\ WorkingIn(orders) > 0
        /\ WorkingIn(orders') \in {0, WorkingIn(orders)}
    BY <1>2, <1>5, <1>6, <1>7, <1>8 DEF Rest
  <2> QED BY <1>2, <2>1 DEF Promised, Promise!PromiseNext, Promise!Ended
<1>9. CASE o.filled = orders[k].filled + 1 /\ (o.st \in {"wire", "open"} \/ o.filled = o.qty)
  <2>1. FilledIn(orders') = FilledIn(orders) + 1 /\ WorkingIn(orders) > 0
        /\ WorkingIn(orders') = WorkingIn(orders) - 1
    BY <1>2, <1>5, <1>6, <1>7, <1>9 DEF Rest
  <2>2. Promise!Filled
    BY <1>2, <2>1 DEF Promise!Filled
  <2> QED BY <2>2 DEF Promised, Promise!PromiseNext
<1> QED BY <1>8, <1>9

\* Only one order changes its status.
LEMMA StatusMoves ==
  ASSUME RInv, RInv', OneInv, NEW k \in Known, Live(k), NEW st \in {"open", "lost"} \cup Ended,
         st = "lost" => orders[k].st = "wire", st \in Ended => orders[k].st = "open",
         st = "open" => orders[k].st = "wire",
         orders' = [orders EXCEPT ![k].st = st], rec' = rec, proc'["wrk"] = proc["wrk"],
         \/ proc'["mon"] = Mon /\ st # "canceled"
         \/ proc'["mon"].at \in {"idle", "resolve", "canceled"}
  PROVE  OneInv' /\ Promised
<1> DEFINE o == [orders[k] EXCEPT !.st = st]
<1>1. /\ o \in OrderSet /\ o.st = st /\ o.of = orders[k].of /\ o.rev = orders[k].rev
      /\ o.qty = orders[k].qty /\ o.filled = orders[k].filled
      /\ orders' = [orders EXCEPT ![k] = o]
  BY OrderIs DEF OrderSet
<1> HIDE DEF o
<1>2. PICK b \in Known : Standing(b)
  BY DEF OneInv
<1>3. o.st \in {"wire", "lost"} => o.filled = 0
  BY <1>1 DEF OneInv, Calm, Acked, Ended
<1>4. Calm'
  BY <1>1, <1>3, AmendCalm DEF OneInv
<1>5. Known' = Known
  BY <1>1, AmendIs
<1>6. \E c \in Known : Standing(c)'
  <2> Calm
    BY DEF OneInv
  <2>1. CASE st = "open"
    <3>1. orders[k].st = "wire" /\ o.st = "open"
      BY <1>1, <2>1
    <3>2. Standing(k)'
      BY <1>1, <1>2, <3>1, OpenLands
    <3> QED BY <3>2
  <2>2. CASE st = "lost"
    <3>1. orders[k].st = "wire" /\ o.st = "lost"
      BY <1>1, <2>2
    <3>2. Standing(b)'
      BY <1>1, <1>2, <3>1, LostLands
    <3> QED BY <3>2
  <2>3. CASE st \in Ended
    <3>1. o.st \notin {"wire", "lost"}
      BY <1>1, <2>3 DEF Ended
    <3> QED BY <1>1, <1>2, <2>3, <3>1, OpenChanges
  <2> QED BY <2>1, <2>2, <2>3
<1>7. OneInv'
  BY <1>4, <1>5, <1>6 DEF OneInv
<1> QED BY <1>1, <1>7, AmendPromised

LEMMA FillMoves ==
  ASSUME RInv, RInv', OneInv, NEW k \in Oids, Fill(k)
  PROVE  OneInv' /\ Promised
<1> DEFINE st == IF Rest(orders[k]) = 1 THEN "filled" ELSE orders[k].st
           o == [orders[k] EXCEPT !.filled = @ + 1, !.st = st]
<1>1. /\ k \in Known /\ orders[k].st = "open" /\ rec' = rec /\ proc' = proc
      /\ orders' = [orders EXCEPT ![k].filled = @ + 1,
                                  ![k].st = IF Rest(orders[k]) = 1 THEN "filled" ELSE @]
  BY DEF Fill
<1>2. /\ orders[k] \in OrderSet /\ orders[k].filled \in Nat /\ orders[k].qty \in Nat
      /\ orders[k].filled < orders[k].qty /\ orders[k].qty <= Qty /\ orders \in Seq(OrderSet)
  BY <1>1, OrderIs DEF OrderSane, Live, RInv, TypeOK, OrderSet
<1>3. st \in {"open", "filled"} /\ (st = "open" \/ orders[k].filled + 1 = orders[k].qty)
  BY <1>1, <1>2 DEF Rest
<1>4. orders' = [orders EXCEPT ![k] = o]
  BY <1>1, <1>2 DEF Known
<1> HIDE DEF st
<1>5. /\ o \in OrderSet /\ o.st = st /\ o.of = orders[k].of /\ o.rev = orders[k].rev
      /\ o.qty = orders[k].qty /\ o.filled = orders[k].filled + 1
  <2>1. orders[k].filled + 1 \in 0..Qty
    BY <1>2
  <2> QED BY <1>2, <1>3, <2>1 DEF OrderSet, Ended
<1> HIDE DEF o
<1>6. o.st \notin {"wire", "lost", "canceled"}
  BY <1>3, <1>5
<1>7. PICK b \in Known : Standing(b)
  BY DEF OneInv
<1>8. Standing(b)' /\ Known' = Known
  <2>1. Calm /\ Known' = Known
    BY <1>1, <1>4, <1>5, AmendIs DEF OneInv
  <2> QED BY <1>1, <1>4, <1>5, <1>6, <1>7, <2>1, OpenChanges
<1>9. Calm'
  BY <1>1, <1>4, <1>5, <1>6, AmendCalm DEF OneInv, Mon
<1>10. OneInv'
  BY <1>8, <1>9 DEF OneInv
<1>11. Live(k)
  BY <1>1 DEF Live
<1>12. o.filled = orders[k].filled + 1 /\ (o.st \in {"wire", "open"} \/ o.filled = o.qty)
  BY <1>3, <1>5
<1> QED BY <1>1, <1>4, <1>5, <1>10, <1>11, <1>12, AmendPromised

\* Who sends asks for the rest, and nothing is at work then.
LEMMA SenderOutstanding ==
  ASSUME RInv, OneInv, NEW b \in Known, Standing(b), NEW p \in Procs, proc[p].at = "begun"
  PROVE  LET r == proc[p].rec
         IN  /\ r \in Recs /\ Outstanding(r, rec[r]) /\ proc[p].rev = rec[r].rev
             /\ proc[p].qty >= 1 /\ proc[p].qty <= Rest(orders[b])
             /\ \A k \in Known : ~Live(k)
<1> DEFINE r == proc[p].rec
<1>1. r \in Recs /\ Owns(p) /\ proc[p].qty = rec[r].qty
      /\ proc[p].qty >= 1 /\ \A k \in Sent(r, proc[p].rev) : Lost(k)
  BY RecOfProc DEF OneInv, Calm, RInv, SubmitSane
<1>2. rec[r].life = "pending" /\ proc[p].rev = rec[r].rev
  BY <1>1 DEF Owns
<1>3. Outstanding(r, rec[r])
  BY <1>1, <1>2 DEF Outstanding, Lost, Acked
<1>4. rec[r].qty <= Rest(orders[b])
  BY <1>1, <1>3 DEF Standing, Backed
<1>5. ASSUME NEW k \in Known, Live(k) PROVE FALSE
  <2>1. orders[k].st # "open"
    BY <1>1, <1>3, OneOutstanding DEF OneInv, Standing
  <2>2. orders[k].st = "wire"
    BY <1>5, <2>1 DEF Live
  <2>3. k \in Sent(r, rec[r].rev)
    BY <1>1, <1>3, <2>2, WireIsOutstanding, OneOutstanding DEF OneInv
  <2> QED BY <1>1, <1>2, <2>2, <2>3 DEF Lost
<1> QED BY <1>1, <1>2, <1>3, <1>4, <1>5

LEMMA SendMoves ==
  ASSUME RInv, RInv', OneInv, NEW p \in Procs, Send(p)
  PROVE  OneInv' /\ Promised
<1> DEFINE r == proc[p].rec
           o == [of |-> r, rev |-> proc[p].rev, st |-> "wire", qty |-> proc[p].qty, filled |-> 0]
           n == Len(orders) + 1
<1>0. PICK b \in Known : Standing(b)
  BY DEF OneInv
<1>1. /\ proc[p].at = "begun" /\ orders' = Append(orders, o) /\ rec' = rec
      /\ proc' = [proc EXCEPT ![p].at = "sent", ![p].oid = n]
  BY DEF Send
<1>2. /\ r \in Recs /\ Outstanding(r, rec[r]) /\ proc[p].rev = rec[r].rev
      /\ proc[p].qty >= 1 /\ proc[p].qty <= Rest(orders[b])
      /\ \A k \in Known : ~Live(k)
  BY <1>0, <1>1, SenderOutstanding
<1>3. proc \in [Procs -> ProcSet] /\ proc[p] \in ProcSet /\ orders \in Seq(OrderSet)
      /\ proc[p].qty \in 1..Qty /\ proc[p].rev \in 0..MaxOrders
  <2>1. proc \in [Procs -> ProcSet] /\ orders \in Seq(OrderSet)
    BY ProcsStay DEF RInv, TypeOK, OrderSet
  <2> QED BY <1>2, <2>1 DEF ProcSet
<1>4. o \in OrderSet
  BY <1>2, <1>3 DEF OrderSet
<1>5. /\ o.st = "wire" /\ o.of = r /\ o.rev = rec[r].rev /\ o.qty = proc[p].qty /\ o.filled = 0
  BY <1>2
<1> HIDE DEF o
<1>6. /\ Known' = Known \cup {n} /\ n \notin Known /\ orders'[n] = o
      /\ \A j \in Known : orders'[j] = orders[j]
  BY <1>1, <1>3, <1>4, OneMoreOrder
<1> HIDE DEF n
<1>7. proc'[p].at = "sent" /\ \A q \in Procs : q # p => proc'[q] = proc[q]
  BY <1>1, <1>3 DEF ProcSet
<1>8. Calm'
  <2>1. Mon'.at \in {"listed", "queued", "leased"} => orders'[Mon'.oid].st # "canceled"
    BY <1>6, <1>7 DEF OneInv, Calm, Mon, RInv, MonitorSane
  <2>2. ASSUME NEW q \in Procs, proc'[q].at = "begun"
        PROVE  Owns(q)' /\ proc'[q].qty = rec'[proc'[q].rec].qty
    <3>1. proc'[q] = proc[q] /\ rec' = rec
      BY <1>1, <1>7, <2>2
    <3>2. Owns(q) /\ proc[q].qty = rec[proc[q].rec].qty
      BY <2>2, <3>1 DEF OneInv, Calm
    <3> QED BY <3>1, <3>2 DEF Owns
  <2>3. \A j \in Known' : ~Acked(j)' => orders'[j].filled = 0
    BY <1>5, <1>6 DEF OneInv, Calm, Acked
  <2>4. \A s, t \in Recs \ {0} : Queued(s)' /\ Queued(t)' /\ rec'[s].old = rec'[t].old => s = t
    BY <1>1 DEF OneInv, Calm, Queued
  <2> QED BY <2>1, <2>2, <2>3, <2>4 DEF Calm
<1>9. ASSUME NEW s \in Recs PROVE Backed(s, rec[s], b)'
  <2> DEFINE x == rec[s]
  <2>1. Backed(s, x, b) /\ Fits(s, x)
    BY <1>0, RecIs DEF Standing
  <2> x' = x
    BY <1>1
  <2>2. \A j \in OrdersOf(s)' : j \in OrdersOf(s) \/ (j = n /\ s = r)
    BY <1>5, <1>6 DEF OrdersOf
  <2>3. \A j \in Sent(s, x.rev)' : j \in Sent(s, x.rev) \/ j = n
    BY <1>6 DEF OrdersOf, Sent
  <2>4. \A j \in Sent(s, x.rev) : j \in Sent(s, x.rev)' /\ (Acked(j)' <=> Acked(j))
    BY <1>6 DEF OrdersOf, Sent, Acked
  <2>5. Outstanding(s, x)' => Outstanding(s, x)
    BY <2>4 DEF Outstanding
  <2>6. orders'[b] = orders[b] /\ (Continues(s, x, b)' <=> Continues(s, x, b))
    BY <1>6 DEF Continues
  <2>7. x.life = "awaiting" /\ orders'[x.old].st = "canceled" => x.old = b
    BY <1>6, <2>1 DEF Backed, Fits
  <2>8. x.life \in {"pending", "accepted"} =>
          \A j \in Sent(s, x.rev)' : orders'[j].st = "expired" => j = b
    BY <1>5, <1>6, <2>1, <2>3 DEF Backed, Sent, OrdersOf
  <2>9. \A j \in OrdersOf(s)' : orders'[j].st = "wire" =>
          x.life = "pending" /\ orders'[j].rev = x.rev /\ orders'[j].qty <= Rest(orders'[b])
    BY <1>2, <1>5, <1>6, <2>1, <2>2, <2>6 DEF Backed, OrdersOf, Outstanding
  <2>10. Outstanding(s, x)' => Continues(s, x, b)' /\ x.qty <= Rest(orders'[b])
    BY <2>1, <2>5, <2>6 DEF Backed
  <2> QED BY <2>7, <2>8, <2>9, <2>10 DEF Backed
<1>10. Summable(orders) /\ Summable(orders') /\ FilledIn(orders') = FilledIn(orders)
       /\ FilledIn(orders) \in Nat
  <2>1. Summable(orders) /\ FilledIn(orders) \in Nat
    BY OrdersSummable, SumsInt
  <2>2. IsFiniteSet(Known \cup {n})
    BY <2>1, FS_AddElement DEF Summable, Known
  <2>3. o.qty \in Nat /\ o.filled \in Nat
    BY <1>4 DEF OrderSet
  <2>4. Summable(orders')
    BY <1>6, <2>1, <2>2, <2>3 DEF Summable, Known
  <2>5. FilledIn(orders') = FilledIn(orders)
    BY <1>5, <1>6, <2>1, <2>4, FilledGrows DEF Known
  <2> QED BY <2>1, <2>4, <2>5
<1>11. OneInv'
  <2>1. \A k \in Known' : orders'[k].st = "open" => k = b
    BY <1>0, <1>5, <1>6 DEF Standing
  <2>2. FilledIn(orders') + Rest(orders'[b]) <= Qty /\ orders'[b].st \notin {"wire", "lost"}
    BY <1>0, <1>6, <1>10 DEF Standing, Acked
  <2>3. Standing(b)'
    BY <1>1, <1>9, <2>1, <2>2 DEF Standing, Acked
  <2> QED BY <1>6, <1>8, <2>3 DEF OneInv
<1>12. WorkingIn(orders) = 0
  <2>1. \A j \in Known : orders[j].st \notin {"wire", "open"}
    BY <1>2 DEF Live
  <2>2. WorkingIn(orders) = IF orders[b].st \in {"wire", "open"} THEN Rest(orders[b]) ELSE 0
    BY <1>10, <2>1, WorkingOne DEF Known
  <2> QED BY <2>1, <2>2
<1>13. WorkingIn(orders') = proc[p].qty
  <2>1. \A j \in Known' : orders'[j].st \in {"wire", "open"} => j = n
    BY <1>2, <1>6 DEF Live
  <2>2. WorkingIn(orders') = IF orders'[n].st \in {"wire", "open"} THEN Rest(orders'[n]) ELSE 0
    BY <1>6, <1>10, <2>1, WorkingOne DEF Known
  <2>3. Rest(o) = proc[p].qty
    BY <1>3, <1>5 DEF Rest
  <2> QED BY <1>5, <1>6, <2>2, <2>3
<1>14. proc[p].qty \in 1..(Qty - FilledIn(orders))
  <2>1. orders[b].qty \in Nat /\ orders[b].filled \in Nat
    BY OrderIs
  <2>2. Rest(orders[b]) \in Int /\ FilledIn(orders) + Rest(orders[b]) <= Qty
    BY <1>0, <2>1 DEF Rest, Standing
  <2> QED BY <1>2, <1>3, <1>10, <2>2
<1>15. Promise!Placed
  BY <1>10, <1>12, <1>13, <1>14 DEF Promise!Placed
<1> QED BY <1>11, <1>15 DEF Promised, Promise!PromiseNext

\* Every step but a foreign cancel keeps the invariant and the promise.
LEMMA OneStep ==
  ASSUME RInv, RInv', OneInv, [Next /\ Alone]_vars
  PROVE  OneInv' /\ Promised
<1>1. ASSUME orders' = orders, MonitorStep \/ WorkerStep PROVE OneInv' /\ Promised
  BY <1>1, MonitorMoves, WorkerMoves, NothingMoves
<1>2. ASSUME MonitorStep, orders' # orders PROVE OneInv' /\ Promised
  <2>1. /\ Mon.at \in {"listed", "leased"} /\ orders[Mon.oid].st = "open" /\ rec' = rec
        /\ orders' = [orders EXCEPT ![Mon.oid].st = "canceled"]
        /\ Done("mon") \/ Goto("mon", "resolve") \/ Goto("mon", "canceled")
    BY <1>2 DEF MonitorStep, List, CancelExpired, Resolve, Enqueue, ClaimReplacement,
            PreflightRefuses, CancelOld, StatusFails, NotCanceled, Activate
  <2>2. Mon.oid \in Known /\ Live(Mon.oid)
    BY <2>1 DEF RInv, MonitorSane, Live
  <2>3. proc'["wrk"] = proc["wrk"] /\ proc'["mon"].at \in {"idle", "resolve", "canceled"}
    <3>1. proc \in [Procs -> ProcSet]
      BY ProcsStay
    <3> QED BY <2>1, <3>1 DEF Done, Goto, Idle, ProcSet
  <2>4. "canceled" \in {"open", "lost"} \cup Ended
    BY DEF Ended
  <2> QED BY <2>1, <2>2, <2>3, <2>4, StatusMoves
<1>3. ASSUME WorkerStep PROVE orders' = orders
  BY <1>3 DEF WorkerStep, Claim, AdoptLive, Expire, LookLater, AwaitCancel, PollAccepted,
          LookupFound, Absent
<1>4. ASSUME NEW p \in Procs, Submit(p) PROVE OneInv' /\ Promised
  <2>1. CASE Send(p)
    BY <2>1, SendMoves
  <2>2. CASE ~Send(p)
    <3>1. orders' = orders
      BY <1>4, <2>2 DEF Submit, Begin, PlaceRefused, Answer
    <3> QED BY <1>4, <3>1, SubmitMoves, NothingMoves
  <2> QED BY <2>1, <2>2
<1>5. ASSUME \/ \E p \in Procs : Abandon(p) \/ Crash(p)
             \/ \E r \in Recs : Lapse(r)
             \/ UNCHANGED vars
      PROVE  OneInv' /\ Promised
  <2>1. orders' = orders
    BY <1>5 DEF Abandon, Crash, Lapse, vars
  <2> QED BY <1>5, <2>1, OthersMove, NothingMoves
<1>6. ASSUME NEW k \in Oids, Fill(k) PROVE OneInv' /\ Promised
  BY <1>6, FillMoves
<1>7. ASSUME NEW k \in Oids, Land(k) PROVE OneInv' /\ Promised
  <2>1. PICK st \in {"open", "lost"} : orders' = [orders EXCEPT ![k].st = st]
    BY <1>7 DEF Land
  <2>2. k \in Known /\ Live(k) /\ orders[k].st = "wire" /\ rec' = rec /\ proc' = proc
        /\ st \notin Ended /\ st # "canceled"
    BY <1>7 DEF Land, Live, Ended
  <2> QED BY <2>1, <2>2, StatusMoves DEF Mon
<1>8. ASSUME NEW k \in Oids, EndAtVenue(k) PROVE OneInv' /\ Promised
  <2>1. /\ k \in Known /\ Live(k) /\ orders[k].st = "open" /\ rec' = rec /\ proc' = proc
        /\ "expired" \in Ended /\ orders' = [orders EXCEPT ![k].st = "expired"]
    BY <1>8 DEF EndAtVenue, Live, Ended
  <2> QED BY <2>1, StatusMoves DEF Mon
<1>9. ASSUME Venue, Alone PROVE OneInv' /\ Promised
  BY <1>6, <1>7, <1>8, <1>9 DEF Venue, Alone
<1> QED BY <1>1, <1>2, <1>3, <1>4, <1>5, <1>9 DEF Next

LEMMA OneInit == Init => OneInv /\ Promise!PromiseInit
<1> SUFFICES ASSUME Init PROVE OneInv /\ Promise!PromiseInit
  OBVIOUS
<1>0. RInv
  BY InitHolds
<1> DEFINE o == [of |-> 0, rev |-> 0, st |-> "open", qty |-> Qty, filled |-> 0]
<1>1. orders = <<o>>
  BY DEF Init
<1>2. o.of = 0 /\ o.rev = 0 /\ o.st = "open" /\ o.qty = Qty /\ o.filled = 0 /\ Rest(o) = Qty
  BY DEF Rest
<1> HIDE DEF o
<1>3. Known = {1} /\ orders[1] = o
  BY <1>1 DEF Known
<1>4. Summable(orders)
  BY <1>0, OrdersSummable
<1>5. WorkingIn(orders) = Qty
  <2>1. WorkingIn(orders) = IF orders[1].st \in {"wire", "open"} THEN Rest(orders[1]) ELSE 0
    BY <1>3, <1>4, WorkingOne DEF Known
  <2> QED BY <1>2, <1>3, <2>1
<1>6. FilledIn(orders) = 0
  <2>1. IsFiniteSet({}) /\ IsFiniteSet(Known)
    BY <1>4, FS_EmptySet DEF Summable, Known
  <2>2. \A j \in Known : FilledAt(orders)[j] = 0
    BY <1>2, <1>3 DEF FilledAt, Known
  <2>3. SumOver(FilledAt(orders), Known) = 0
    BY <2>1, <2>2, SumOverZero
  <2> QED BY <2>1, <2>3, FilledIsSum DEF Known
<1>7. Calm
  <2>1. \A p \in Procs : proc[p].at = "idle"
    BY DEF Init, Idle
  <2>2. \A r \in Recs \ {0} : ~Queued(r)
    BY UnusedIs DEF Init, Queued
  <2> QED BY <1>2, <1>3, <2>1, <2>2 DEF Calm, Mon
<1>8. Standing(1)
  <2>1. ASSUME NEW r \in Recs PROVE Backed(r, rec[r], 1)
    <3>1. rec[r].life \in {"accepted", "unused"}
      BY UnusedIs DEF Init, First, Unused
    <3>2. \A k \in OrdersOf(r) : orders[k].st = "open"
      BY <1>2, <1>3 DEF OrdersOf
    <3> QED BY <3>1, <3>2 DEF Backed, Outstanding, Sent
  <2> QED BY <1>2, <1>3, <1>6, <2>1 DEF Standing, Acked
<1>9. OneInv
  BY <1>3, <1>7, <1>8 DEF OneInv
<1> QED BY <1>5, <1>6, <1>9 DEF Promise!PromiseInit

\* Repricing keeps its promise (ReplaceOrder): however answers are lost, leases lapse,
\* processes crash and the two take turns, and however often the order is replaced,
\* one order at a time works at the venue, for no more than is left of the quantity,
\* as long as nobody else cancels an order.
THEOREM ReplacementKeepsPromise == Spec /\ [][Alone]_vars => KeepsPromise
<1>1. Init => RInv
  BY InitHolds
<1>2. Init => OneInv /\ Promise!PromiseInit
  BY OneInit
<1>3. RInv /\ [Next]_vars => RInv'
  BY NextHolds, StutterHolds
<1>4. RInv /\ RInv' /\ OneInv /\ [Next]_vars /\ [Alone]_vars => OneInv' /\ Promised
  BY OneStep
<1> QED BY <1>1, <1>2, <1>3, <1>4, PTL DEF Spec, KeepsPromise, Promise!PromiseSpec, Promised
=============================================================================
