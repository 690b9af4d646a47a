---------------------------- MODULE ReplaceOrder ----------------------------
(***************************************************************************)
(* Cancel and replace: monitororder reprices an order by a record that     *)
(* waits for the order's cancellation in the outbox (lifecycle             *)
(* awaiting_cancel), cancels it at the venue and submits the rest; the     *)
(* outbox worker finishes what monitororder leaves behind.                 *)
(*                                                                         *)
(* Every section under the queue lock is one action, with the venue call   *)
(* whose final answer it writes down.  A claim token is known by its       *)
(* holder: a process works on one claim at a time.  The outbox itself, its *)
(* capacity and its TTLs, is module OrderOutbox.                           *)
(***************************************************************************)
EXTENDS Integers, Sequences, FiniteSets, FiniteSetsExt

CONSTANTS
  Qty,              \* quantity of the first order
  MaxOrders,        \* bound: orders sent to the venue
  MaxRecords,       \* bound: replacement records
  MaxMishaps        \* bound: crashes, and orders canceled by somebody else

ASSUME BoundAssumption ==
  /\ {Qty, MaxOrders} \subseteq Nat \ {0}
  /\ {MaxRecords, MaxMishaps} \subseteq Nat

VARIABLES
  orders,           \* the venue's orders, numbered by their order ids
  rec,              \* the outbox
  proc,             \* monitororder and the worker: the claim each works on
  excused,          \* history: canceled orders that nothing has to replace
  mishaps           \* crashes and cancels by others so far

vars == <<orders, rec, proc, excused, mishaps>>

Procs == {"mon", "wrk"}
Oids == 1..MaxOrders
Recs == 0..MaxRecords           \* 0 tracks the first order
Ended == {"filled", "canceled", "expired"}

Idle == [at |-> "idle", rec |-> 0, oid |-> 0, qty |-> 0, rev |-> 0]
Unused == [life |-> "unused", sub |-> "refused", qty |-> 0, old |-> 0, oid |-> 0, rev |-> 0,
           holder |-> "none", leased |-> FALSE, owner |-> "none"]
First == [Unused EXCEPT !.life = "accepted", !.qty = Qty, !.oid = 1]

Queued(r) == rec[r].life \in {"awaiting", "pending", "accepted"}
Known == DOMAIN orders
Rest(o) == o.qty - o.filled
\* Orders and requests under the client id of a record's revision
Under(r) == {k \in Known : orders[k].of = r /\ orders[k].rev = rec[r].rev}
Found(r) == {k \in Under(r) : orders[k].st \notin {"wire", "lost"}}

Init ==
  /\ orders = <<[of |-> 0, rev |-> 0, st |-> "open", qty |-> Qty, filled |-> 0]>>
  /\ rec = [r \in Recs |-> IF r = 0 THEN First ELSE Unused]
  /\ proc = [p \in Procs |-> Idle]
  /\ excused = {} /\ mishaps = 0
--------------------------------------------------------------------------------
(* Outbox records *)

\* The exact claim: nobody else has leased or completed the record since.
Mine(p) == Queued(proc[p].rec) /\ rec[proc[p].rec].holder = p

Unleased(x) == [x EXCEPT !.holder = "none", !.leased = FALSE]
Gone(x) == [Unused EXCEPT !.life = "gone", !.old = x.old, !.rev = x.rev]
Leased(x, p) == [x EXCEPT !.holder = p, !.leased = TRUE]
Refused(x) == [Unleased(x) EXCEPT !.sub = "refused", !.owner = "none"]
Unknown(x) == [Unleased(x) EXCEPT !.sub = "unknown", !.owner = "none"]
Accepted(x, k) == [Refused(x) EXCEPT !.life = "accepted", !.oid = k, !.qty = orders[k].qty]
Begun(x, p) == [x EXCEPT !.sub = "claimed", !.owner = p, !.leased = TRUE]

RevisedTwice(x, o) ==                               \* mutant
  [Unleased(x) EXCEPT !.life = "pending", !.sub = "refused", !.qty = Rest(o) - o.filled,
                      !.oid = 0, !.rev = @ + 1]
\* retry_terminal: the rest of an order the venue expired, under a new client id
Revised(x, o) ==
  IF Rest(o) = 0 THEN Gone(x)
  ELSE [Unleased(x) EXCEPT !.life = "pending", !.sub = "refused", !.qty = Rest(o),
                           !.oid = 0, !.rev = @ + 1]

\* A claim that is not the process's own any more writes nothing.
Complete(p, x) ==
  rec' = IF Mine(p) THEN [rec EXCEPT ![proc[p].rec] = x] ELSE rec

Done(p) == proc' = [proc EXCEPT ![p] = Idle]
Goto(p, at) == proc' = [proc EXCEPT ![p].at = at]

ActivatedFilled(o) == o.filled                      \* mutant
ActivatedQty(o) == Rest(o)

CancelAssumed(o) == o.st \in Ended \cup {"open"}     \* mutant
CancelConfirmed(o) == o.st = "canceled"

\* activate_claimed_replacement: the waiting record becomes submittable with
\* what its order has left, and that order's tracker goes.
ActivatesExact(p, o) ==                             \* mutant
  /\ Mine(p) /\ rec[proc[p].rec].life = "awaiting"
  /\ ActivatedQty(o) = rec[proc[p].rec].qty
Activates(p, o) ==
  /\ Mine(p) /\ rec[proc[p].rec].life = "awaiting"
  /\ ActivatedQty(o) <= rec[proc[p].rec].qty

Activated(p, o, lease) ==
  LET r == proc[p].rec
      x == rec[r]
      y == [x EXCEPT !.life = "pending", !.sub = "refused", !.qty = ActivatedQty(o)]
  IN  [s \in Recs |->
         CASE s = r -> IF ActivatedQty(o) = 0 THEN Gone(x) ELSE IF lease THEN y ELSE Unleased(y)
           [] rec[s].life = "accepted" /\ rec[s].oid = x.old -> Gone(rec[s])
           [] OTHER -> rec[s]]
--------------------------------------------------------------------------------
(* monitororder: one listed order at a time *)

Mon == proc["mon"]

List(k) ==
  /\ Mon.at = "idle" /\ k \in Known /\ orders[k].st = "open"
  /\ proc' = [proc EXCEPT !["mon"] = [Idle EXCEPT !.at = "listed", !.oid = k]]
  /\ UNCHANGED <<orders, rec, excused, mishaps>>

\* The order is older than its TTL: it is canceled without a replacement.
CancelExpired ==
  /\ Mon.at = "listed"
  /\ \/ /\ orders[Mon.oid].st = "open"
        /\ orders' = [orders EXCEPT ![Mon.oid].st = "canceled"]
        /\ excused' = excused \cup {Mon.oid}
        /\ Goto("mon", "resolve") \/ Done("mon")        \* the answer may be lost
     \/ Done("mon") /\ UNCHANGED <<orders, excused>>
  /\ UNCHANGED <<rec, mishaps>>

\* resolve_accepted_order
Resolve ==
  /\ Mon.at = "resolve"
  /\ rec' = [r \in Recs |-> IF rec[r].life = "accepted" /\ rec[r].oid = Mon.oid
                            THEN Gone(rec[r]) ELSE rec[r]]
  /\ Done("mon")
  /\ UNCHANGED <<orders, excused, mishaps>>

Waiting(k) == {r \in Recs : rec[r].life = "awaiting" /\ rec[r].old = k}
Free == {r \in Recs : rec[r].life = "unused"}

\* enqueue: one waiting record per order.  The quantity is that of the listing,
\* so it may be more than is left by now.
Enqueue ==
  /\ Mon.at = "listed"
  /\ IF Waiting(Mon.oid) # {}
     THEN /\ proc' = [proc EXCEPT !["mon"].at = "queued", !["mon"].rec = Min(Waiting(Mon.oid))]
          /\ UNCHANGED rec
     ELSE /\ Free # {}
          /\ \E q \in Rest(orders[Mon.oid])..orders[Mon.oid].qty :
               /\ q > 0
               /\ rec' = [rec EXCEPT ![Min(Free)] =
                            [Unused EXCEPT !.life = "awaiting", !.qty = q, !.old = Mon.oid]]
          /\ proc' = [proc EXCEPT !["mon"].at = "queued", !["mon"].rec = Min(Free)]
  /\ UNCHANGED <<orders, excused, mishaps>>

ClaimReplacement ==
  /\ Mon.at = "queued"
  /\ IF Queued(Mon.rec) /\ ~rec[Mon.rec].leased
     THEN rec' = [rec EXCEPT ![Mon.rec] = Leased(@, "mon")] /\ Goto("mon", "leased")
     ELSE UNCHANGED rec /\ Done("mon")
  /\ UNCHANGED <<orders, excused, mishaps>>

\* order_filter_refusal, preflight_order: while the order still stands
PreflightRefuses ==
  /\ Mon.at = "leased"
  /\ Complete("mon", Gone(rec[Mon.rec])) /\ Done("mon")
  /\ UNCHANGED <<orders, excused, mishaps>>

\* The answer to the cancel decides nothing: the status does.
CancelOld ==
  /\ Mon.at = "leased"
  /\ \/ UNCHANGED orders                                  \* lost or refused
     \/ /\ orders[Mon.oid].st = "open"
        /\ orders' = [orders EXCEPT ![Mon.oid].st = "canceled"]
  /\ Goto("mon", "canceled")
  /\ UNCHANGED <<rec, excused, mishaps>>

StatusFails ==
  /\ Mon.at = "canceled"
  /\ Complete("mon", Unleased(rec[Mon.rec])) /\ Done("mon")
  /\ UNCHANGED <<orders, excused, mishaps>>

NotCanceled ==
  /\ Mon.at = "canceled" /\ ~CancelConfirmed(orders[Mon.oid])
  /\ Complete("mon", IF orders[Mon.oid].st \in Ended THEN Gone(rec[Mon.rec])
                                                    ELSE Unleased(rec[Mon.rec]))
  /\ Done("mon")
  /\ UNCHANGED <<orders, excused, mishaps>>

Activate ==
  /\ Mon.at = "canceled" /\ CancelConfirmed(orders[Mon.oid])
  /\ IF Activates("mon", orders[Mon.oid])
     THEN /\ rec' = Activated("mon", orders[Mon.oid], TRUE)
          /\ IF ActivatedQty(orders[Mon.oid]) = 0 THEN Done("mon") ELSE Goto("mon", "active")
     ELSE UNCHANGED rec /\ Done("mon")
  /\ UNCHANGED <<orders, excused, mishaps>>
--------------------------------------------------------------------------------
(* The worker: one record at a time *)

Wrk == proc["wrk"]

ClaimableOnceLapsed(r) == Queued(r) /\ ~rec[r].leased   \* mutant
\* Not leased, and not a submit that may be under way in a living process
Claimable(r) == Queued(r) /\ ~rec[r].leased
                /\ (rec[r].sub = "claimed" /\ rec[r].life = "pending" => rec[r].owner = "dead")

Claim(r) ==
  /\ Wrk.at = "idle" /\ Claimable(r)
  /\ rec' = [rec EXCEPT ![r] = Leased(@, "wrk")]
  /\ proc' = [proc EXCEPT !["wrk"] = [Idle EXCEPT !.at = rec[r].life, !.rec = r]]
  /\ UNCHANGED <<orders, excused, mishaps>>

\* A lapsed claim of a living process: only the order itself settles it.
AdoptLive(r) ==
  /\ Wrk.at = "idle" /\ rec[r].life = "pending" /\ rec[r].sub = "claimed" /\ ~rec[r].leased
  /\ rec[r].owner \in Procs /\ Found(r) # {}
  /\ rec' = [rec EXCEPT ![r] = Accepted(@, Max(Found(r)))]
  /\ UNCHANGED <<orders, proc, excused, mishaps>>

\* A status or a lookup that fails, a price that is not favourable
LookLater ==
  /\ Wrk.at \in {"awaiting", "pending", "accepted"}
  /\ Complete("wrk", Unleased(rec[Wrk.rec])) /\ Done("wrk")
  /\ UNCHANGED <<orders, excused, mishaps>>

\* _process_awaiting_cancel_claim
AwaitCancel ==
  /\ Wrk.at = "awaiting" /\ Done("wrk")
  /\ LET o == orders[rec[Wrk.rec].old]
     IN  IF CancelConfirmed(o)
         THEN IF Activates("wrk", o) THEN rec' = Activated("wrk", o, FALSE)
                                     ELSE Complete("wrk", Unleased(rec[Wrk.rec]))
         ELSE o.st \in Ended /\ Complete("wrk", Gone(rec[Wrk.rec]))
  /\ UNCHANGED <<orders, excused, mishaps>>

\* _process_accepted_claim
PollAccepted ==
  /\ Wrk.at = "accepted" /\ Done("wrk")
  /\ LET x == rec[Wrk.rec]
         o == orders[x.oid]
     IN  IF Mine("wrk")
         THEN /\ o.st \in Ended
              /\ rec' = [rec EXCEPT ![Wrk.rec] = IF o.st = "expired" THEN Revised(x, o) ELSE Gone(x)]
         ELSE UNCHANGED rec
  /\ UNCHANGED <<orders, excused, mishaps>>

LookupFound ==
  /\ Wrk.at = "pending" /\ Mine("wrk")
  /\ rec[Wrk.rec].sub # "refused" /\ Found(Wrk.rec) # {}
  /\ Complete("wrk", Accepted(rec[Wrk.rec], Max(Found(Wrk.rec)))) /\ Done("wrk")
  /\ UNCHANGED <<orders, excused, mishaps>>

\* Refused earlier, or looked up and certainly absent
Absent ==
  /\ Wrk.at = "pending"
  /\ Mine("wrk") /\ rec[Wrk.rec].sub # "refused" =>
       \A k \in Under(Wrk.rec) : orders[k].st = "lost"
  /\ Goto("wrk", "active")
  /\ UNCHANGED <<orders, rec, excused, mishaps>>

\* The TTL of a record nobody works on runs out.
Expire(r) ==
  /\ rec[r].life = "pending" /\ rec[r].sub = "refused" /\ ~rec[r].leased
  /\ rec' = [rec EXCEPT ![r] = Gone(@)]
  /\ excused' = excused \cup ({rec[r].old} \cap Oids)
  /\ UNCHANGED <<orders, proc, mishaps>>
--------------------------------------------------------------------------------
(* Submitting, by either process *)

\* begin_claimed_submit
Begin(p) ==
  /\ proc[p].at = "active"
  /\ LET x == rec[proc[p].rec]
     IN  IF Mine(p)
         THEN /\ Complete(p, Begun(x, p))
              /\ proc' = [proc EXCEPT ![p].at = "begun", ![p].qty = x.qty, ![p].rev = x.rev]
         ELSE UNCHANGED rec /\ Done(p)
  /\ UNCHANGED <<orders, excused, mishaps>>

\* Refused before the request: retried later, or dropped if no retry can help
PlaceRefused(p) ==
  /\ proc[p].at = "begun" /\ Done(p)
  /\ \/ Complete(p, Refused(rec[proc[p].rec])) /\ UNCHANGED excused
     \/ /\ Complete(p, Gone(rec[proc[p].rec]))
        /\ excused' = excused \cup ({rec[proc[p].rec].old} \cap Oids)
  /\ UNCHANGED <<orders, mishaps>>

Send(p) ==
  /\ proc[p].at = "begun" /\ Len(orders) < MaxOrders
  /\ orders' = Append(orders, [of |-> proc[p].rec, rev |-> proc[p].rev, st |-> "wire",
                                qty |-> proc[p].qty, filled |-> 0])
  /\ proc' = [proc EXCEPT ![p].at = "sent", ![p].oid = Len(orders) + 1]
  /\ UNCHANGED <<rec, excused, mishaps>>

\* The venue's answer arrives, or it does not.
Answer(p) ==
  /\ proc[p].at = "sent" /\ Done(p)
  /\ LET k == proc[p].oid
         x == rec[proc[p].rec]
     IN  \/ orders[k].st \notin {"wire", "lost"} /\ Complete(p, Accepted(x, k))
         \/ orders[k].st = "lost" /\ Complete(p, Refused(x))
         \/ Complete(p, Unknown(x))
  /\ UNCHANGED <<orders, excused, mishaps>>
--------------------------------------------------------------------------------
(* The venue, the clock, and crashes *)

Land(k) ==
  /\ k \in Known /\ orders[k].st = "wire"
  /\ \E st \in {"open", "lost"} : orders' = [orders EXCEPT ![k].st = st]
  /\ UNCHANGED <<rec, proc, excused, mishaps>>

Fill(k) ==
  /\ k \in Known /\ orders[k].st = "open"
  /\ orders' = [orders EXCEPT ![k].filled = @ + 1,
                              ![k].st = IF Rest(orders[k]) = 1 THEN "filled" ELSE @]
  /\ UNCHANGED <<rec, proc, excused, mishaps>>

EndAtVenue(k) ==
  /\ k \in Known /\ orders[k].st = "open"
  /\ orders' = [orders EXCEPT ![k].st = "expired"]
  /\ UNCHANGED <<rec, proc, excused, mishaps>>

\* A person, a strategy, or a cancel request that was given up long ago
CancelOutside(k) ==
  /\ k \in Known /\ orders[k].st = "open"
  /\ mishaps < MaxMishaps /\ mishaps' = mishaps + 1
  /\ orders' = [orders EXCEPT ![k].st = "canceled"]
  /\ excused' = excused \cup {k}
  /\ UNCHANGED <<rec, proc>>

Lapse(r) ==
  /\ rec[r].leased
  /\ rec' = [rec EXCEPT ![r].leased = FALSE]
  /\ UNCHANGED <<orders, proc, excused, mishaps>>

\* An exception ends the loop's turn; the claim stays leased.
Abandon(p) ==
  /\ proc[p].at # "idle" /\ Done(p)
  /\ UNCHANGED <<orders, rec, excused, mishaps>>

Crash(p) ==
  /\ mishaps < MaxMishaps /\ mishaps' = mishaps + 1
  /\ Done(p)
  /\ rec' = [r \in Recs |-> [rec[r] EXCEPT !.holder = IF @ = p THEN "none" ELSE @,
                                           !.owner = IF @ = p THEN "dead" ELSE @]]
  /\ UNCHANGED <<orders, excused>>
--------------------------------------------------------------------------------
MonitorStep ==
  \/ \E k \in Oids : List(k)
  \/ CancelExpired \/ Resolve \/ Enqueue \/ ClaimReplacement \/ PreflightRefuses
  \/ CancelOld \/ StatusFails \/ NotCanceled \/ Activate
WorkerStep ==
  \/ \E r \in Recs : Claim(r) \/ AdoptLive(r) \/ Expire(r)
  \/ LookLater \/ AwaitCancel \/ PollAccepted \/ LookupFound \/ Absent
Submit(p) == Begin(p) \/ PlaceRefused(p) \/ Send(p) \/ Answer(p)
Venue == \E k \in Oids : Land(k) \/ Fill(k) \/ EndAtVenue(k) \/ CancelOutside(k)

Next ==
  \/ MonitorStep \/ WorkerStep \/ \E p \in Procs : Submit(p) \/ Abandon(p) \/ Crash(p)
  \/ Venue \/ \E r \in Recs : Lapse(r)

Spec == Init /\ [][Next]_vars

\* Leases run out, and the worker's passes come to every due replacement and are
\* answered now and then.
Fairness ==
  /\ WF_vars(LookLater) /\ SF_vars(AwaitCancel) /\ WF_vars(Submit("wrk"))
  /\ \A r \in Recs \ {0} : WF_vars(Lapse(r)) /\ SF_vars(Claim(r))
LiveSpec == Spec /\ Fairness
--------------------------------------------------------------------------------
\* Types of the variables.
TypeOK ==
  /\ orders \in Seq([of : Recs, rev : 0..MaxOrders, st : {"wire", "lost", "open"} \cup Ended,
                     qty : 1..Qty, filled : 0..Qty])
  /\ Len(orders) <= MaxOrders
  /\ rec \in [Recs -> [life : {"unused", "awaiting", "pending", "accepted", "gone"},
                       sub : {"refused", "claimed", "unknown"}, qty : 0..Qty,
                       old : 0..MaxOrders, oid : 0..MaxOrders, rev : 0..MaxOrders,
                       holder : Procs \cup {"none"}, leased : BOOLEAN,
                       owner : Procs \cup {"none", "dead"}]]
  /\ proc \in [Procs -> [at : {"idle", "listed", "resolve", "queued", "leased", "canceled",
                               "awaiting", "pending", "accepted", "active", "begun", "sent"},
                         rec : Recs, oid : 0..MaxOrders, qty : 0..Qty, rev : 0..MaxOrders]]
  /\ excused \subseteq Oids
  /\ mishaps \in 0..MaxMishaps

\* An order that was canceled for a replacement is replaced: until its rest is
\* ordered, or given up by a TTL or a final refusal, a record of the outbox owes it.
ReplacementSurvives ==
  \A k \in Known \ excused :
    orders[k].st = "canceled" /\ Rest(orders[k]) > 0 =>
      \E r \in Recs : rec[r].old = k /\ (Queued(r) \/ Found(r) # {})

\* An open order always has a record that leads to it: its tracker, or a submit
\* whose outcome is looked up.  Not so if it replaces an order that others
\* canceled: monitororder may then claim the replacement by its id, already
\* submitted by the worker, and remove it after a refusal.
OpenOrdersAreTracked ==
  \A k \in Known :
    orders[k].st = "open" /\ rec[orders[k].of].old \notin excused =>
      \E r \in Recs :
        \/ rec[r].life = "accepted" /\ rec[r].oid = k
        \/ /\ rec[r].life = "pending" /\ rec[r].sub # "refused"
           /\ k \in Under(r)

\* Two replacements of one order are never both at the venue.
ReplacedOnce ==
  \A j, k \in Known :
    j # k /\ {orders[j].st, orders[k].st} \subseteq {"wire", "open"} =>
      rec[orders[j].of].old # rec[orders[k].of].old

\* Repricing keeps the promise of ReplacePromise.
FilledIn(ords) == MapThenSumSet(LAMBDA k : ords[k].filled, DOMAIN ords)
WorkingIn(ords) ==
  MapThenSumSet(LAMBDA k : IF ords[k].st \in {"wire", "open"} THEN Rest(ords[k]) ELSE 0, DOMAIN ords)
Promise == INSTANCE ReplacePromise WITH
  left <- Qty - FilledIn(orders), working <- WorkingIn(orders)
KeepsPromise == Promise!PromiseSpec

\* A replacement does not wait forever for an order that has ended.
EndedOrdersAreNotAwaited ==
  \A r \in Recs \ {0} :
    rec[r].life = "awaiting" /\ orders[rec[r].old].st \in Ended ~> rec[r].life # "awaiting"
=============================================================================
