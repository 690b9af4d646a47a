---------------------------- MODULE RTradePairInv ----------------------------
(***************************************************************************)
(* The inductive strengthening behind the theorems of RTradePair: what the *)
(* store says of a slot and the venue of its orders, what the coordinator  *)
(* remembers of its tickets, in which phases it places what, and why each  *)
(* order that may still trade is one of the tickets.                       *)
(***************************************************************************)
EXTENDS RTradePair

Lost(k) == orders[k].st = "lost"
Works(k) == orders[k].st \in {"wire", "open"}
Visible(k) == k \in Known /\ orders[k].st \in {"open", "ended"}
OrdersOf(s) == {k \in Known : orders[k].slot = s}

OrderSet == [slot : Slots, st : {"wire", "open", "ended", "lost"}, qty : Nat \ {0}, filled : Nat]
IntentSet == [st : {"none", "sent", "known", "absent", "refused"}, oid : {0} \cup Oids]
Phases == {"idle", "reserved", "quoting", "exposed", "closing", "stopping",
           "startup_recovery", "hard_stop_recovery"} \cup Terminal
Reasons == {"none", "pending", "retry", "exhausted", "missing"}
RoundSet == [phase : Phases, why : Reasons, tickets : Seq(Oids), stop : {0} \cup Oids,
             revs : [Sides -> 0..MaxRev], srev : 0..1, blocked : BOOLEAN]
Purposes == {"none", "first", "second", "exit", "stop", "restop"}
JobSet == [why : Purposes, side : Sides, qty : Nat, rev : Nat, permit : BOOLEAN,
           oid : {0} \cup Oids]
Cancels == {"undo", "startup", "flat", "flat2", "expired", "entries", "exit", "stop"}
Thens == {"none", "decide", "reduced"} \cup Cancels
ActSet == [at : Ats, then : Thens, i : Nat \ {0}, net : Int, flag : BOOLEAN, job : JobSet]

\* The venue never fills more than it was asked for, and what still works is not full.
OrderSane(k) ==
  /\ orders[k].filled <= orders[k].qty
  /\ Works(k) => orders[k].filled < orders[k].qty

\* Nothing is sent under a slot again unless what was sent before is lost.
SlotsUsedOnce ==
  \A j, k \in Known : orders[j].slot = orders[k].slot /\ ~Lost(j) /\ ~Lost(k) => j = k

\* What is known of a slot is what the venue shows; what is refused or absent is lost.
IntentSane(s) ==
  /\ intents[s].st = "known" => intents[s].oid \in OrdersOf(s) /\ Visible(intents[s].oid)
  /\ intents[s].st \in {"none", "refused", "absent"} => \A k \in OrdersOf(s) : Lost(k)

\* From the persisted intent to the answer
PlaceSane ==
  /\ act.at \in {"place", "submit", "answer"} =>
       act.job.why # "none" /\ JobSlot \in Slots /\ (act.job.why = "second" => round.tickets # <<>>)
  /\ act.at \in {"submit", "answer"} => intents[JobSlot].st = "sent"
  /\ act.at = "submit" => \A k \in OrdersOf(JobSlot) : Lost(k)
  /\ act.at = "answer" =>
       /\ act.job.oid \in OrdersOf(JobSlot)
       /\ \A k \in OrdersOf(JobSlot) : k = act.job.oid \/ Lost(k)

\* A cancel that is under way has a target, and an exit is only replaced while a
\* revision of it is left.
CancelSane ==
  /\ act.at \in {"cancel", "status"} => act.then \in Cancels
  /\ act.at = "status" => act.then # "expired"
  /\ act.at = "status" \/ (act.at = "cancel" /\ act.then \in {"undo", "exit", "stop"}) => Rest # {}
  /\ act.at \in {"cancel", "status", "exit"} /\ act.then = "exit" =>
       round.revs[ExitSide(act.net)] < MaxRev
  /\ act.at = "exit" => act.then = "exit"
  /\ act.at = "refresh" => act.then \in {"decide", "reduced", "flat", "flat2", "expired"}

\* Each ticket, in memory and in the checkpoint, is an order the venue has shown.
TicketsSane(r) ==
  /\ IsInjective(r.tickets)
  /\ \A i \in DOMAIN r.tickets : Visible(r.tickets[i])

\* What was seen of an order is not more than there is, and not the end of what works.
SeenSane(k) ==
  /\ k \notin Known => seen[k] = Unseen
  /\ k \in Known => seen[k].filled <= orders[k].filled /\ (Works(k) => seen[k].open)

StoreInv ==
  /\ orders \in Seq(OrderSet) /\ Len(orders) <= MaxOrders
  /\ intents \in [Slots -> IntentSet] /\ round \in RoundSet /\ cp \in RoundSet
  /\ seen \in [Oids -> [open : BOOLEAN, filled : Nat]]
  /\ act \in ActSet /\ mishaps \in 0..MaxMishaps
  /\ \A k \in Known : OrderSane(k)
  /\ SlotsUsedOnce /\ \A s \in Slots : IntentSane(s)
  /\ PlaceSane /\ CancelSane
  /\ TicketsSane(round) /\ TicketsSane(cp)
  /\ \A k \in Oids : SeenSane(k)

\* The coordinator knows that it has to recover what is pending.
Pending == round.phase \in {"startup_recovery", "hard_stop_recovery"} /\ round.why = "pending"

\* Quotes are placed and undone before anything is filled, and exits after.
PlacingWhy(whys) == act.at \in {"place", "submit", "answer"} /\ act.job.why \in whys
Underway(thens) == act.at \in {"cancel", "status", "refresh"} /\ act.then \in thens

PhaseInv ==
  /\ PlacingWhy({"first", "second"}) => ~PastQuotes
  /\ act.at = "undo" \/ Underway({"undo"}) => ~PastQuotes
  /\ PlacingWhy({"exit"}) => PastQuotes
  /\ act.at \in {"reduced", "flat2", "price", "exit"} => PastQuotes
  /\ Underway({"entries", "reduced", "flat2", "exit"}) => PastQuotes

\* Where an order may work without being a ticket
Unwatched(k) ==
  \/ act.at \in {"down", "done"}
  \/ act.at = "answer" /\ act.job.oid = k
  \/ act.at \in {"cancel", "status", "undo"} /\ act.then = "undo" /\ act.flag
  \/ /\ Pending
     /\ \/ act.at \in {"idle", "save", "decide", "recover"}
        \/ act.at = "refresh" /\ act.then = "decide"

WatchInv ==
  /\ act.at = "recover" => Pending
  /\ \A k \in Known : Works(k) => k \in Tickets \/ Unwatched(k) \/ LostExit(k)
=============================================================================
