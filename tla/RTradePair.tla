----------------------------- MODULE RTradePair -----------------------------
(***************************************************************************)
(* One round of the rtrade pair coordinator (strategies/rtrade_pair.py)    *)
(* over its venue adapter (rtrade.py) and its store (rtrade_pair_store.py):*)
(* two quotes, the reduction of what one of them fills by an anchored exit *)
(* or a market stop, and the recovery from the stored intents.             *)
(*                                                                         *)
(* Every venue call is one action, and so is every write of the store.     *)
(* The coordinator knows its orders as tickets, with what it last saw of   *)
(* each; the store has an intent per slot (kind, side, revision), from     *)
(* which the client order id is derived, and the last checkpoint.  The     *)
(* sides are symmetric, so the round is BUY first.                         *)
(***************************************************************************)
EXTENDS Integers, Sequences, FiniteSets, FiniteSetsExt, Functions

CONSTANTS
  Qty,           \* quantity of a round
  Ambiguous,     \* submissions whose answer may be lost
  MaxRev,        \* bound: revisions of an exit (_MAX_LIMIT_REVISION)
  MaxOrders,     \* bound: orders sent to the venue
  MaxMishaps     \* bound: crashes, steps ended by an exception, orders ended by others

ASSUME BoundAssumption ==
  /\ {Qty, MaxOrders} \subseteq Nat \ {0} /\ {MaxRev, MaxMishaps} \subseteq Nat
ASSUME AmbiguousAssumption ==
  Ambiguous \subseteq {"first", "second", "exit", "stop", "restop"}

VARIABLES
  orders,        \* the venue's orders, numbered by their order ids
  intents,       \* the store: what is known of each slot
  cp,            \* the store: the last checkpoint
  round,         \* memory: phase, reason, tickets, stop order, revisions
  seen,          \* memory: the last snapshot of each order
  act,           \* where the coordinator is
  mishaps        \* mishaps so far

vars == <<orders, intents, cp, round, seen, act, mishaps>>

Sides == {"BUY", "SELL"}
Oids == 1..MaxOrders
Slots == ({"limit"} \X Sides \X (0..MaxRev)) \cup ({"stop"} \X Sides \X (0..1))
Terminal == {"complete", "expired", "failed", "hard_stop"}

Abs(n) == IF n < 0 THEN -n ELSE n

NoIntent == [st |-> "none", oid |-> 0]
Unseen == [open |-> TRUE, filled |-> 0]
Job(why, side, qty, rev, permit) ==
  [why |-> why, side |-> side, qty |-> qty, rev |-> rev, permit |-> permit, oid |-> 0]
NoJob == Job("none", "BUY", 0, 0, FALSE)
At(where, then) ==
  [at |-> where, then |-> then, i |-> 1, net |-> 0, flag |-> FALSE, job |-> NoJob]
Idle == At("idle", "none")
Saving == At("save", "none")
Placing(j) == [At("place", "none") EXCEPT !.job = j]
Canceling(then, net) == [At("cancel", then) EXCEPT !.net = net]
Fresh == [phase |-> "idle", why |-> "none", tickets |-> <<>>, stop |-> 0,
          revs |-> [s \in Sides |-> 0], srev |-> 0, blocked |-> FALSE]

Init ==
  /\ orders = <<>>
  /\ intents = [s \in Slots |-> NoIntent]
  /\ cp = [Fresh EXCEPT !.phase = "reserved"]
  /\ round = Fresh /\ seen = [k \in Oids |-> Unseen]
  /\ act = Placing(Job("first", "BUY", Qty, 0, FALSE))
  /\ mishaps = 0
--------------------------------------------------------------------------------
(* What the coordinator makes of its tickets *)

Known == DOMAIN orders
Side(k) == orders[k].slot[2]
Tickets == Range(round.tickets)
Active == {k \in Tickets : seen[k].open}

\* _side_totals, _net_qty
FilledOn(side, sn) == MapThenSumSet(LAMBDA k : sn[k].filled, {k \in Tickets : Side(k) = side})
Net == FilledOn("BUY", seen) - FilledOn("SELL", seen)
Traded == \E k \in Tickets : seen[k].filled > 0
ExitSide(net) == IF net > 0 THEN "SELL" ELSE "BUY"

\* The last of the tickets at some places, or 0
LastAt(places) == IF places = {} THEN 0 ELSE round.tickets[Max(places)]
SideAt(side) == {i \in DOMAIN round.tickets : Side(round.tickets[i]) = side}
ActiveExit(net) == LastAt({i \in SideAt(ExitSide(net)) : seen[round.tickets[i]].open})
LatestLimit(side) == LastAt({i \in SideAt(side) : round.tickets[i] # round.stop})

\* _compact_zero_fill_history: ended orders without a fill are forgotten, except
\* the last limit order of each side once something has been filled.
Kept(k) ==
  \/ seen[k].open \/ seen[k].filled > 0 \/ k = round.stop
  \/ Traded /\ k = LatestLimit(Side(k))
  \/ round.phase = "startup_recovery"

\* A set of numbers in ascending order
Ascending(ns) ==
  [i \in 1..Cardinality(ns) |-> CHOOSE n \in ns : Cardinality({m \in ns : m < n}) = i - 1]

KeptTickets ==
  LET at == Ascending({i \in DOMAIN round.tickets : Kept(round.tickets[i])})
  IN  [j \in DOMAIN at |-> round.tickets[at[j]]]

TicketAgain(r, k) == [r EXCEPT !.tickets = Append(@, k)]   \* mutant

\* _append_unique_ticket
WithTicket(r, k) == IF k \in Range(r.tickets) THEN r ELSE [r EXCEPT !.tickets = Append(@, k)]

Finish(phase) == round' = [round EXCEPT !.phase = phase, !.why = "none"]
--------------------------------------------------------------------------------
(* Placing an order: place_limit, place_market_exit *)

JobKind == IF act.job.why \in {"stop", "restop"} THEN "stop" ELSE "limit"
JobSlot == <<JobKind, act.job.side, act.job.rev>>

\* Back in the caller with an order
Placed(k) ==
  LET r == [WithTicket(round, k) EXCEPT !.blocked = FALSE]
      why == act.job.why
  IN  /\ round' = CASE why \in {"first", "exit"} -> r
                    [] why = "second" -> [r EXCEPT !.phase = "quoting"]
                    [] why = "stop" -> [r EXCEPT !.phase = "stopping", !.stop = k]
                    [] why = "restop" ->
                         [r EXCEPT !.phase = "stopping", !.stop = k, !.srev = act.job.rev]
      /\ act' = IF why = "first" THEN Placing(Job("second", "SELL", Qty, 0, FALSE)) ELSE Saving

\* Back in the caller without one.  What is pending may be at the venue; so may
\* whatever an exception interrupted.
Unplaced(how) ==
  LET r == [round EXCEPT !.blocked = @ \/ how = "pending"]
      pending == how # "refused" \/ r.blocked
      why == act.job.why
  IN  /\ round' = CASE why = "first" ->
                         [r EXCEPT !.phase = IF pending THEN "startup_recovery" ELSE "failed",
                                   !.why = IF pending THEN "pending" ELSE "none"]
                    [] why \in {"second", "exit"} -> r
                    [] why = "stop" ->
                         IF pending THEN [r EXCEPT !.phase = "hard_stop_recovery", !.why = "pending"]
                                    ELSE r
                    [] why = "restop" ->
                         [r EXCEPT !.phase = "hard_stop_recovery",
                                   !.why = IF pending THEN "pending" ELSE "retry"]
      /\ act' = IF why = "second" THEN [At("cancel", "undo") EXCEPT !.flag = pending] ELSE Saving

\* The order the venue shows under a slot's client id, or 0
Shown(slot) ==
  LET hits == {k \in Known : orders[k].slot = slot /\ orders[k].st \notin {"wire", "lost"}}
  IN  IF hits = {} THEN 0 ELSE CHOOSE k \in hits : TRUE

\* No request under the slot's client id can still become an order.
CertainlyAbsent(slot) == \A k \in Known : orders[k].slot = slot => orders[k].st = "lost"

IsFresh(slot) == intents[slot].st \in {"none", "refused"}

\* Balance, price or quantity forbid it, or the preflight of a market exit raises.
RefuseEarly ==
  /\ act.at = "place" /\ IsFresh(JobSlot)
  /\ intents' = [intents EXCEPT ![JobSlot] = NoIntent]
  /\ \/ Unplaced("refused")
     \/ act.job.why = "stop" /\ ~act.job.permit /\ Unplaced("raised")
  /\ UNCHANGED <<orders, cp, seen, mishaps>>

PersistIntent ==
  /\ act.at = "place" /\ IsFresh(JobSlot)
  /\ intents' = [intents EXCEPT ![JobSlot] = [st |-> "sent", oid |-> 0]]
  /\ act' = [act EXCEPT !.at = "submit"]
  /\ UNCHANGED <<orders, cp, round, seen, mishaps>>

\* _reconcile_existing_intent: the slot has been submitted before.
Reuse ==
  /\ act.at = "place" /\ ~IsFresh(JobSlot)
  /\ \/ /\ Shown(JobSlot) # 0 /\ intents[JobSlot].st # "absent"
        /\ intents' = [intents EXCEPT ![JobSlot] = [st |-> "known", oid |-> Shown(JobSlot)]]
        /\ Placed(Shown(JobSlot))
     \/ /\ \/ UNCHANGED intents
           \/ intents[JobSlot].st = "sent" /\ CertainlyAbsent(JobSlot)
              /\ intents' = [intents EXCEPT ![JobSlot].st = "absent"]
        /\ Unplaced("pending")
  /\ UNCHANGED <<orders, cp, seen, mishaps>>

\* A definitive refusal, by a guard or by the venue
Refused ==
  /\ intents' = [intents EXCEPT ![JobSlot] =
       IF JobKind = "stop" /\ ~act.job.permit THEN NoIntent ELSE [st |-> "refused", oid |-> 0]]
  /\ Unplaced(IF JobKind = "stop" THEN "raised" ELSE "refused")

RefuseSubmit ==
  /\ act.at = "submit" /\ Refused
  /\ UNCHANGED <<orders, cp, seen, mishaps>>

Send ==
  /\ act.at = "submit" /\ Len(orders) < MaxOrders
  /\ \E q \in 1..act.job.qty :
       orders' = Append(orders, [slot |-> JobSlot, st |-> "wire", qty |-> q, filled |-> 0])
  /\ act' = [act EXCEPT !.at = "answer", !.job.oid = Len(orders) + 1]
  /\ UNCHANGED <<intents, cp, round, seen, mishaps>>

Answer ==
  /\ act.at = "answer"
  /\ LET st == orders[act.job.oid].st
     IN  \/ /\ st \notin {"wire", "lost"}
            /\ intents' = [intents EXCEPT ![JobSlot] = [st |-> "known", oid |-> act.job.oid]]
            /\ Placed(act.job.oid)
         \/ st = "lost" /\ Refused
         \/ act.job.why \in Ambiguous /\ Unplaced("pending") /\ UNCHANGED intents
  /\ UNCHANGED <<orders, cp, seen, mishaps>>
--------------------------------------------------------------------------------
(* Reading the status of every ticket *)

Refreshing(then) == At("refresh", then)

Step ==
  /\ act.at = "idle"
  /\ act' = Refreshing("decide")
  /\ UNCHANGED <<orders, intents, cp, round, seen, mishaps>>

Snapshot(k) == [open |-> orders[k].st = "open", filled |-> orders[k].filled]

Refresh ==
  /\ act.at = "refresh" /\ act.i <= Len(round.tickets)
  /\ seen' = [seen EXCEPT ![round.tickets[act.i]] = Snapshot(round.tickets[act.i])]
  /\ act' = [act EXCEPT !.i = @ + 1]
  /\ UNCHANGED <<orders, intents, cp, round, mishaps>>

Refreshed ==
  /\ act.at = "refresh" /\ act.i > Len(round.tickets)
  /\ round' = [round EXCEPT !.tickets = KeptTickets]
  /\ seen' = [k \in Oids |-> IF k \in Tickets /\ Kept(k) THEN seen[k] ELSE Unseen]
  /\ act' = [At(act.then, "none") EXCEPT !.flag = act.flag]
  /\ UNCHANGED <<orders, intents, cp, mishaps>>
--------------------------------------------------------------------------------
(* Canceling tickets, and what follows *)

\* _cancel_entry_remainder, _cancel_and_reconcile
InScope(k) ==
  CASE act.then = "undo" -> TRUE
    [] act.then \in {"startup", "flat", "flat2", "expired"} -> seen[k].open
    [] act.then = "entries" -> seen[k].open /\ Side(k) # ExitSide(act.net)
    [] act.then \in {"exit", "stop"} -> k = ActiveExit(act.net)

Rest == {i \in DOMAIN round.tickets : i >= act.i /\ InScope(round.tickets[i])}
Target == round.tickets[Min(Rest)]

\* The cancel is refused, or its status unknown or still open.
CancelFailed ==
  CASE act.then \in {"startup", "entries", "exit", "stop"} ->
         act' = Saving /\ UNCHANGED round
    [] act.then \in {"flat", "flat2"} ->
         /\ act' = [act EXCEPT !.at = "cancel", !.i = Min(Rest) + 1, !.flag = TRUE]
         /\ UNCHANGED round
    [] act.then = "expired" ->
         act' = [act EXCEPT !.i = Min(Rest) + 1] /\ UNCHANGED round
    [] act.then = "undo" ->
         /\ round' = [round EXCEPT !.phase = "startup_recovery",
                                   !.why = IF act.flag THEN "pending" ELSE "none"]
         /\ act' = Saving

\* When a quote expires, nobody asks for the status of what was canceled.
Cancel ==
  /\ act.at = "cancel" /\ Rest # {}
  /\ \/ orders' = [orders EXCEPT ![Target].st = IF @ = "open" THEN "ended" ELSE @]
     \/ UNCHANGED orders
  /\ \/ /\ act' = IF act.then = "expired" THEN [act EXCEPT !.i = Min(Rest) + 1]
                                          ELSE [act EXCEPT !.at = "status"]
        /\ UNCHANGED round
     \/ CancelFailed
  /\ UNCHANGED <<intents, cp, seen, mishaps>>

CancelStatus ==
  /\ act.at = "status"
  /\ seen' = [seen EXCEPT ![Target] = Snapshot(Target)]
  /\ IF orders[Target].st = "open"
     THEN CancelFailed
     ELSE /\ act' = [act EXCEPT !.at = IF act.then \in {"exit", "stop", "undo"} THEN act.then ELSE "cancel",
                                !.i = Min(Rest) + 1]
          /\ UNCHANGED round
  /\ UNCHANGED <<orders, intents, cp, mishaps>>

StatusFails ==
  /\ act.at = "status" /\ CancelFailed
  /\ UNCHANGED <<orders, intents, cp, seen, mishaps>>

\* Every ticket in scope has been canceled.
Canceled ==
  /\ act.at = "cancel" /\ Rest = {}
  /\ IF act.then # "startup"
     THEN /\ act' = [Refreshing(IF act.then = "entries" THEN "reduced" ELSE act.then)
                       EXCEPT !.flag = act.flag]
          /\ UNCHANGED round
     ELSE IF Net = 0
     THEN /\ act' = Saving
          /\ Finish(IF \A s \in Sides : FilledOn(s, seen) > 0 THEN "complete" ELSE "failed")
     ELSE /\ act' = Canceling("entries", Net)
          /\ round' = [round EXCEPT !.phase = "exposed"]
  /\ UNCHANGED <<orders, intents, cp, seen, mishaps>>

\* The first leg of a round whose second could not be placed is canceled.
Undone ==
  /\ act.at = "undo"
  /\ round' = [round EXCEPT !.phase = IF act.flag THEN "startup_recovery"
                                      ELSE IF Net # 0 THEN "exposed" ELSE "failed",
                            !.why = IF act.flag THEN "pending" ELSE "none"]
  /\ act' = Saving
  /\ UNCHANGED <<orders, intents, cp, seen, mishaps>>
--------------------------------------------------------------------------------
(* step(): what to do in each phase *)

\* _retry_terminal_hard_stop: one more revision of a stop that ended too early
RetryStop(r) ==
  IF r.srev >= 1
  THEN /\ round' = [r EXCEPT !.phase = "hard_stop_recovery", !.why = "exhausted"]
       /\ act' = Saving
  ELSE \/ /\ round' = r
          /\ act' = Placing(Job("restop", ExitSide(Net), Abs(Net), r.srev + 1, TRUE))
       \/ /\ round' = [r EXCEPT !.phase = "hard_stop_recovery",      \* preflight raises
                                !.why = IF r.blocked THEN "pending" ELSE "retry"]
          /\ act' = Saving

Stopping(r) ==
  IF Net = 0
  THEN round' = [r EXCEPT !.phase = "hard_stop", !.why = "none"] /\ act' = Saving
  ELSE IF r.stop # 0 /\ ~seen[r.stop].open
  THEN RetryStop(r)
  ELSE round' = r /\ act' = Saving

DecideRecovery ==
  /\ act.at = "decide" /\ round.phase \in {"startup_recovery", "hard_stop_recovery"}
  /\ CASE round.why = "pending" ->
            act' = At("recover", "none") /\ UNCHANGED round
       [] round.why = "retry" /\ Net # 0 ->
            RetryStop(round)
       [] OTHER ->
            /\ act' = IF round.phase = "startup_recovery" THEN Canceling("startup", 0) ELSE Saving
            /\ UNCHANGED round
  /\ UNCHANGED <<orders, intents, cp, seen, mishaps>>

DecideStopping ==
  /\ act.at = "decide" /\ round.phase = "stopping" /\ Stopping(round)
  /\ UNCHANGED <<orders, intents, cp, seen, mishaps>>

DecideTraded ==
  /\ act.at = "decide" /\ round.phase \in {"quoting", "exposed", "closing"} /\ Traded
  /\ IF Net = 0 THEN act' = Canceling("flat", 0) /\ UNCHANGED round
                ELSE act' = Canceling("entries", Net) /\ round' = [round EXCEPT !.phase = "exposed"]
  /\ UNCHANGED <<orders, intents, cp, seen, mishaps>>

\* Before and after the quotes' time to live
DecideUntraded ==
  /\ act.at = "decide" /\ round.phase \in {"quoting", "exposed", "closing"} /\ ~Traded
  /\ act' \in {Saving, Canceling("expired", 0)}
  /\ UNCHANGED <<orders, intents, cp, round, seen, mishaps>>

\* _try_complete_flat_exposure
DecideFlat ==
  /\ act.at \in {"flat", "flat2"}
  /\ IF Net # 0
     THEN IF act.at = "flat"
          THEN act' = Canceling("entries", Net) /\ round' = [round EXCEPT !.phase = "exposed"]
          ELSE act' = At("price", "none") /\ UNCHANGED round
     ELSE /\ act' = Saving
          /\ IF act.flag \/ Active # {} THEN round' = [round EXCEPT !.phase = "closing"]
                                       ELSE Finish("complete")
  /\ UNCHANGED <<orders, intents, cp, seen, mishaps>>

DecideReduced ==
  /\ act.at = "reduced"
  /\ IF Net = 0 THEN act' = Canceling("flat2", 0) /\ round' = [round EXCEPT !.phase = "closing"]
                ELSE act' = At("price", "none") /\ UNCHANGED round
  /\ UNCHANGED <<orders, intents, cp, seen, mishaps>>

DecideExpired ==
  /\ act.at = "expired"
  /\ IF Traded THEN act' = Refreshing("decide") /\ UNCHANGED round
     ELSE act' = Saving /\ IF Active # {} THEN UNCHANGED round ELSE Finish("expired")
  /\ UNCHANGED <<orders, intents, cp, seen, mishaps>>
--------------------------------------------------------------------------------
(* An exposure, its stop and its anchored exit *)

Exposed == act.at = "price" /\ Net # 0

NoPrice ==
  /\ act.at = "price" /\ act' = Saving
  /\ UNCHANGED <<orders, intents, cp, round, seen, mishaps>>

\* _submit_hard_stop: the working exit is canceled first.
Breach ==
  /\ Exposed
  /\ act' = IF ActiveExit(Net) # 0 THEN Canceling("stop", Net)
            ELSE Placing(Job("stop", ExitSide(Net), Abs(Net), round.srev, FALSE))
  /\ round' = [round EXCEPT !.why = "none"]
  /\ UNCHANGED <<orders, intents, cp, seen, mishaps>>

\* _ensure_anchored_exit: the exit that works has price and quantity, or it is
\* replaced, or there is none and the next revision is placed.
KeepExit ==
  /\ Exposed /\ ActiveExit(Net) # 0
  /\ orders[ActiveExit(Net)].qty - seen[ActiveExit(Net)].filled = Abs(Net)
  /\ act' = Saving /\ round' = [round EXCEPT !.why = "none"]
  /\ UNCHANGED <<orders, intents, cp, seen, mishaps>>

ReplaceExit ==
  /\ Exposed /\ ActiveExit(Net) # 0 /\ round.revs[ExitSide(Net)] < MaxRev
  /\ act' = Canceling("exit", Net) /\ round' = [round EXCEPT !.why = "none"]
  /\ UNCHANGED <<orders, intents, cp, seen, mishaps>>

NextRevision(side, k) ==
  IF k # 0 /\ orders[k].slot[3] >= round.revs[side] THEN orders[k].slot[3] + 1 ELSE round.revs[side]

PlaceExit ==
  /\ Exposed /\ ActiveExit(Net) = 0
  /\ LET side == ExitSide(Net)
         rev == NextRevision(side, LatestLimit(side))
     IN  /\ rev <= MaxRev
         /\ round' = [round EXCEPT !.revs[side] = rev, !.why = "none"]
         /\ act' = Placing(Job("exit", side, Abs(Net), rev, FALSE))
  /\ UNCHANGED <<orders, intents, cp, seen, mishaps>>

StaleExitQty(net) == Abs(net)   \* mutant

\* What is left after the cancel: fills may have come before it.
ExitQty(net) == Abs(Net)

\* The exposure must not have grown, nor changed its side.
StillReduces(net) == ExitSide(Net) = ExitSide(net) /\ Abs(Net) <= Abs(net)

ExitCanceled ==
  /\ act.at = "exit"
  /\ LET side == ExitSide(act.net)
         bumped == [round EXCEPT !.revs[side] = @ + 1]
     IN  IF Net = 0 THEN Finish("complete") /\ act' = Saving
         ELSE /\ round' = bumped
              /\ act' = IF StillReduces(act.net)
                        THEN Placing(Job("exit", side, ExitQty(act.net), bumped.revs[side], TRUE))
                        ELSE Saving
  /\ UNCHANGED <<orders, intents, cp, seen, mishaps>>

StopExitCanceled ==
  /\ act.at = "stop"
  /\ IF Net = 0 THEN Finish("hard_stop") /\ act' = Saving
     ELSE /\ act' = IF StillReduces(act.net)
                    THEN Placing(Job("stop", ExitSide(act.net), ExitQty(act.net), round.srev, TRUE))
                    ELSE Saving
          /\ UNCHANGED round
  /\ UNCHANGED <<orders, intents, cp, seen, mishaps>>
--------------------------------------------------------------------------------
(* Recovery *)

Unanswered == {s \in Slots : intents[s].st = "sent"}   \* mutant

Stored == {s \in Slots : intents[s].st \notin {"none", "refused"}}
Findable == {s \in Stored : intents[s].st # "absent" /\ Shown(s) # 0}

\* The store after the slots in found were found, those in gone were absent for
\* the last time, and refused ones removed.
Reconciled(found, gone) ==
  [s \in Slots |-> IF s \in found THEN [st |-> "known", oid |-> Shown(s)]
                   ELSE IF s \in gone THEN [st |-> "absent", oid |-> 0]
                   ELSE IF intents[s].st = "refused" THEN NoIntent ELSE intents[s]]

AbsentSoFar == {s \in Stored : intents[s].st = "sent" /\ Shown(s) = 0}   \* mutant

\* Two lookups, minutes apart, have not found it.
Absences == {s \in Stored : intents[s].st = "sent" /\ CertainlyAbsent(s)}

RevsOf(r, slots) ==
  [side \in Sides |-> Max({r.revs[side]} \cup {s[3] : s \in {x \in slots : x[1] = "limit" /\ x[2] = side}})]
StopRev(r, slots) == Max({r.srev} \cup {s[3] : s \in {x \in slots : x[1] = "stop"}})

\* The stop order is the one of the highest revision, if it is not older than best.
StopOrder(r, slots, best) ==
  LET stops == {s \in slots : s[1] = "stop" /\ s[3] >= best}
  IN  IF stops = {} THEN r.stop
      ELSE Shown(CHOOSE s \in stops : \A t \in stops : t[3] <= s[3])

\* recover_pair_intents, _recover_persisted_intents
Recover ==
  /\ act.at = "recover"
  /\ \E found \in SUBSET Findable, gone \in SUBSET Absences :
       LET new == {Shown(s) : s \in found}
           r == [round EXCEPT !.tickets = @ \o Ascending(new \ Range(@)),
                              !.revs = RevsOf(round, found),
                              !.srev = StopRev(round, found),
                              !.stop = StopOrder(round, found, IF @ = 0 THEN 0 ELSE round.srev),
                              !.blocked = found # Stored]
       IN  /\ intents' = Reconciled(found, gone)
           /\ seen' = [k \in Oids |-> IF k \in new THEN Snapshot(k) ELSE seen[k]]
           /\ round' = r
           /\ act' = IF r.blocked THEN Saving
                     ELSE IF r.phase = "startup_recovery" THEN Canceling("startup", 0)
                     ELSE At("recovered", "none")
  /\ UNCHANGED <<orders, cp, mishaps>>

\* The hard stop goes on with the stop order that was found.
RecoveredStop ==
  /\ act.at = "recovered"
  /\ IF Net # 0 /\ round.stop = 0
     THEN act' = Saving /\ round' = [round EXCEPT !.why = "missing"]
     ELSE Stopping([round EXCEPT !.phase = "stopping"])
  /\ UNCHANGED <<orders, intents, cp, seen, mishaps>>

Save ==
  /\ act.at = "save"
  /\ cp' = round
  /\ act' = IF round.phase \in Terminal THEN At("done", "none") ELSE Idle
  /\ UNCHANGED <<orders, intents, round, seen, mishaps>>

Mishap == mishaps < MaxMishaps /\ mishaps' = mishaps + 1

\* An exception leaves step(): no checkpoint, but memory stays.
Abort ==
  /\ Mishap
  /\ act.at \in {"refresh", "price"} \/ (act.at = "place" /\ act.job.why = "exit")
  /\ act' = Idle
  /\ UNCHANGED <<orders, intents, cp, round, seen>>

Crash ==
  /\ Mishap /\ act.at \notin {"done", "down"}
  /\ round' = Fresh /\ seen' = [k \in Oids |-> Unseen] /\ act' = At("down", "none")
  /\ UNCHANGED <<orders, intents, cp>>

\* merge_checkpoint_intents, _adopt_pair_record, from_state
Adopt ==
  /\ act.at = "down"
  /\ LET r == IF cp.phase = "reserved" THEN [cp EXCEPT !.phase = "quoting"] ELSE cp
         mine == {s \in Stored : intents[s].st = "known" /\ intents[s].oid \in Range(r.tickets)}
     IN  \E found \in SUBSET (Findable \ mine), gone \in SUBSET Absences :
           LET pending == Stored \ (found \cup mine)
               here == found \cup mine
               all == {s \in Slots : intents[s].st # "none"}
               srev == StopRev(r, all)
               stop == StopOrder(r, here, IF r.stop = 0 THEN 0 ELSE r.srev)
               phase == CASE \E s \in pending : s[1] = "stop" -> "hard_stop_recovery"
                          [] OTHER -> IF pending # {} THEN "startup_recovery"
                                      ELSE IF \E s \in here : s[1] = "stop" THEN "stopping" ELSE r.phase
               new == {Shown(s) : s \in found}
               m == [r EXCEPT !.tickets = @ \o Ascending(new \ Range(@)),
                              !.revs = RevsOf(r, all), !.srev = srev, !.stop = stop, !.phase = phase,
                              !.why = IF pending # {} THEN "pending" ELSE @, !.blocked = pending # {}]
               over == /\ m.tickets = <<>>
                       /\ \/ phase \notin {"startup_recovery", "hard_stop_recovery"}
                          \/ all # {} /\ \A s \in all : intents[s].st = "absent"
               end == IF over THEN [m EXCEPT !.phase = "failed", !.why = "none", !.blocked = FALSE] ELSE m
           IN  /\ intents' = Reconciled(found, gone)
               /\ round' = end /\ cp' = end
               /\ act' = IF over THEN At("done", "none") ELSE Idle
  /\ UNCHANGED <<orders, seen, mishaps>>
--------------------------------------------------------------------------------
(* The venue *)

Land(k) ==
  /\ k \in Known /\ orders[k].st = "wire"
  /\ \E st \in {"open", "lost"} : orders' = [orders EXCEPT ![k].st = st]
  /\ UNCHANGED <<intents, cp, round, seen, act, mishaps>>

Fill(k) ==
  /\ k \in Known /\ orders[k].st = "open"
  /\ orders' = [orders EXCEPT ![k].filled = @ + 1,
                              ![k].st = IF orders[k].filled + 1 = orders[k].qty THEN "ended" ELSE @]
  /\ UNCHANGED <<intents, cp, round, seen, act, mishaps>>

\* A person cancels it, or a market order finds no more to trade with.
EndAtVenue(k) ==
  /\ k \in Known /\ orders[k].st = "open"
  /\ Mishap
  /\ orders' = [orders EXCEPT ![k].st = "ended"]
  /\ UNCHANGED <<intents, cp, round, seen, act>>
--------------------------------------------------------------------------------
PlaceStep == RefuseEarly \/ PersistIntent \/ Reuse \/ RefuseSubmit \/ Send \/ Answer
CancelStep == Cancel \/ CancelStatus \/ StatusFails \/ Canceled \/ Undone
DecideStep ==
  \/ DecideRecovery \/ DecideStopping \/ DecideTraded \/ DecideUntraded
  \/ DecideFlat \/ DecideReduced \/ DecideExpired
ExitStep ==
  \/ NoPrice \/ Breach \/ KeepExit \/ ReplaceExit \/ PlaceExit
  \/ ExitCanceled \/ StopExitCanceled
RecoverStep == Recover \/ RecoveredStop \/ Adopt
Venue == \E k \in Oids : Land(k) \/ Fill(k) \/ EndAtVenue(k)

Next ==
  \/ Step \/ Refresh \/ Refreshed \/ Save
  \/ PlaceStep \/ CancelStep \/ DecideStep \/ ExitStep \/ RecoverStep
  \/ Abort \/ Crash
  \/ Venue

Spec == Init /\ [][Next]_vars
--------------------------------------------------------------------------------
Working(side) ==
  LET ks == {k \in Known : Side(k) = side /\ orders[k].st \in {"wire", "open"}}
  IN  MapThenSumSet(LAMBDA k : orders[k].qty - orders[k].filled, ks)
FilledAt(side) == MapThenSumSet(LAMBDA k : orders[k].filled, {k \in Known : Side(k) = side})

Promised == INSTANCE RoundPromise WITH
  Qty <- Qty,
  traded <- [s \in Sides |-> FilledAt(s)],
  working <- [s \in Sides |-> Working(s)],
  placed <- {Side(k) : k \in Known},
  ended <- act.at = "done"

Ats == {"idle", "save", "place", "submit", "answer", "refresh", "decide", "cancel", "status",
        "undo", "exit", "stop", "flat", "flat2", "expired", "reduced", "price", "recover",
        "recovered", "down", "done"}

Rounds == [
  phase : {"idle", "reserved", "quoting", "exposed", "closing", "stopping",
           "startup_recovery", "hard_stop_recovery"} \cup Terminal,
  why : {"none", "pending", "retry", "exhausted", "missing"},
  tickets : UNION {[1..n -> Oids] : n \in 0..MaxOrders},
  stop : {0} \cup Oids, revs : [Sides -> 0..MaxRev], srev : 0..1, blocked : BOOLEAN]

\* Types; no order is a ticket twice, nor more than once in the store, and no
\* more is seen of an order than the venue filled.
TypeOK ==
  /\ orders \in Seq([slot : Slots, st : {"wire", "open", "ended", "lost"}, qty : Nat \ {0}, filled : Nat])
  /\ Len(orders) <= MaxOrders
  /\ intents \in [Slots -> [st : {"none", "sent", "known", "absent", "refused"}, oid : {0} \cup Oids]]
  /\ cp \in Rounds /\ round \in Rounds
  /\ seen \in [Oids -> [open : BOOLEAN, filled : Nat]]
  /\ act.at \in Ats /\ mishaps \in 0..MaxMishaps
  /\ Tickets \subseteq Known /\ IsInjective(round.tickets)
  /\ \A k \in Known : seen[k].filled <= orders[k].filled /\ orders[k].filled <= orders[k].qty

\* A quote on each side, then only reductions, then flat.
KeepsPromise == Promised!Promise

\* Recovery finds every order that may still trade.
WorkingOrdersHaveIntents ==
  \A k \in Known : orders[k].st \in {"wire", "open"} =>
    \/ intents[orders[k].slot].st = "sent"
    \/ intents[orders[k].slot] = [st |-> "known", oid |-> k]

\* Past its quotes: something has been filled, or the round is over.
PastQuotes == round.phase \notin {"idle", "reserved", "quoting", "startup_recovery"}

\* An exit whose answer was lost: place_limit returns nothing and the round goes on
\* with exit_place_failed (rtrade_pair.py:684-686), without the order.  Its intent
\* says that it was sent, so that a retry of its revision or a restart asks for it.
LostExit(k) ==
  /\ "exit" \in Ambiguous /\ PastQuotes
  /\ orders[k].slot[1] = "limit" /\ intents[orders[k].slot].st = "sent"

\* Between two steps the coordinator watches every order that may still trade, or
\* knows that it has to recover one first - except an exit whose answer was lost.  A
\* run in which the answers to exits arrive allows no exception.
WorkingOrdersAreWatched ==
  act.at = "idle" =>
    \A k \in Known : orders[k].st \in {"wire", "open"} =>
      \/ k \in Tickets
      \/ round.phase \in {"startup_recovery", "hard_stop_recovery"} /\ round.why = "pending"
      \/ LostExit(k)
=============================================================================
