-------------------------- MODULE TrackedLifecycle --------------------------
(***************************************************************************)
(* TrackedOrderLifecycle (order_lifecycle.py) driven by the re-buy of the  *)
(* trailing stop (trailing_core.py): a strategy that owns its retry keeps  *)
(* one pending intent in its state file, submits it, and finds out on      *)
(* later ticks what became of it.                                          *)
(*                                                                         *)
(* Every tick loads the state file, so the file is the memory of the       *)
(* strategy; only the retry counter also lives in the process.  A save     *)
(* replaces the file or raises, and the exception ends the tick (Abort,    *)
(* and the Unsaved actions where memory has changed by then).              *)
(*                                                                         *)
(* Quantities are units; a quantity below Dust is below the venue's        *)
(* minimum notional.  Wording, audit lines, prices paid, and the age of an *)
(* order (any open order may be old enough) are left out.                  *)
(***************************************************************************)
EXTENDS Integers, FiniteSets

CONSTANTS
  Goal,                   \* quantity sold by the stop, to be bought back
  Dust,                   \* smallest quantity worth an order
  Prices,                 \* what of price and anchor enters the client id
  Oids,                   \* order ids the venue can give
  MissingConfirmations,   \* lookups without a hit that mean absent
  RetryOnLookupError,     \* a failed lookup releases the intent too
  Lag,                    \* lookups that may miss a request the venue gets or has
  MaxAttempts,            \* bound: highest attempt number
  MaxFailures,            \* bound: failed saves, failed calls and restarts
  None

ASSUME QuantityAssumption == Goal \in Nat /\ Dust \in Nat \ {0}
ASSUME LookupAssumption ==
  /\ MissingConfirmations \in Nat \ {0} /\ Lag \in Nat
  /\ RetryOnLookupError \in BOOLEAN
ASSUME BoundAssumption == MaxAttempts \in Nat /\ MaxFailures \in Nat

VARIABLES
  disk,       \* the state file: pending intent, quantity owed, retry count
  count,      \* the retry counter in memory
  pc,         \* where the tick is; "idle" between ticks
  wire,       \* requests on their way to the venue
  orders,     \* the venue's orders
  bought,     \* what the account received
  lag,        \* lookups that missed the request the file names
  failures

vars == <<disk, count, pc, wire, orders, bought, lag, failures>>

Pcs == {"idle", "submit", "sent", "drop", "clear", "bump", "status", "cancel"}
Over == {"closed", "canceled"}           \* OrderStatus.terminal
Cids == [owed : 1..Goal, price : Prices, attempt : 1..MaxAttempts]
Requests == [cid : Cids, qty : 1..Goal]
Pendings == [cid : Cids, outcome : {"none", "accepted", "unknown", "refused"},
             oid : Oids \cup {None}, misses : 0..MissingConfirmations,
             terminal : Over \cup {None}, cancelTried : BOOLEAN]
NoOrder == [status |-> "none"]
Placements == [cid : Cids, qty : 1..Goal, filled : 0..Goal, status : Over \cup {"open"}]
Orders == {NoOrder} \cup Placements
States == [pending : Pendings \cup {None}, owed : 0..Goal, count : Nat]

ASSUME NoneAssumption == None \notin Oids /\ None \notin Pendings

pending == disk.pending
Max2(a, b) == IF a >= b THEN a ELSE b
Placed == {o \in Oids : orders[o].status # "none"}
Open == {o \in Oids : orders[o].status = "open"}
\* Orders of a venue placed under the client id of an intent
PlacedUnder(os, p) ==
  {o \in Oids : os[o].status # "none" /\ p # None /\ os[o].cid = p.cid}
Mine == PlacedUnder(orders, pending)

Init ==
  /\ disk = [pending |-> None, owed |-> Goal, count |-> 0]
  /\ count = 0 /\ pc = "idle" /\ wire = {}
  /\ orders = [o \in Oids |-> NoOrder]
  /\ bought = 0 /\ lag = 0 /\ failures = 0

\* persist(pending): the whole state file
Save(p) == disk' = [disk EXCEPT !.pending = p]

venue == <<wire, orders, bought>>
--------------------------------------------------------------------------------
(* Submission *)

\* _handle_rebuy, build_trailing_order_intent and the first persist of submit.
\* The counter is the higher one of memory and file (sync_trailing_retry_count).
Begin(p) ==
  LET n == Max2(count, disk.count)
  IN  /\ pc = "idle" /\ pending = None
      /\ disk.owed >= Dust /\ n < MaxAttempts
      /\ Save([cid |-> [owed |-> disk.owed, price |-> p, attempt |-> n + 1],
               outcome |-> "none", oid |-> None, misses |-> 0, terminal |-> None,
               cancelTried |-> FALSE])
      /\ count' = n /\ pc' = "submit" /\ lag' = 0
      /\ UNCHANGED <<wire, orders, bought, failures>>

\* A guard or the provider refuses before anything is sent.
Refuse ==
  /\ pc = "submit"
  /\ Save([pending EXCEPT !.outcome = "refused"])
  /\ pc' = "drop"
  /\ UNCHANGED <<count, venue, lag, failures>>

\* _submit_and_clear_if_refused: no retry is counted
Drop ==
  /\ pc = "drop"
  /\ Save(None) /\ pc' = "idle"
  /\ UNCHANGED <<count, venue, lag, failures>>

\* Guards may scale the quantity down.
Send(q) ==
  /\ pc = "submit" /\ q <= disk.owed
  /\ wire' = wire \cup {[cid |-> pending.cid, qty |-> q]}
  /\ pc' = "sent"
  /\ UNCHANGED <<disk, count, orders, bought, lag, failures>>

Accepted(o) ==
  /\ pc = "sent" /\ o \in Mine
  /\ Save([pending EXCEPT !.outcome = "accepted", !.oid = o])
  /\ pc' = "idle"
  /\ UNCHANGED <<count, venue, lag, failures>>

\* A timeout, or a response without an order id
Ambiguous ==
  /\ pc = "sent"
  /\ Save([pending EXCEPT !.outcome = "unknown"])
  /\ pc' = "idle"
  /\ UNCHANGED <<count, venue, lag, failures>>

\* The venue's error says that it took no order (_is_definitive_submit_refusal);
\* the intent stays until the next tick.
Rejected(r) ==
  /\ pc = "sent" /\ r \in wire /\ r.cid = pending.cid
  /\ wire' = wire \ {r}
  /\ Save([pending EXCEPT !.outcome = "refused"])
  /\ pc' = "idle"
  /\ UNCHANGED <<count, orders, bought, lag, failures>>
--------------------------------------------------------------------------------
(* Reconciliation *)

Unidentified ==
  /\ pc = "idle" /\ pending # None
  /\ pending.terminal = None /\ pending.oid = None
  /\ pending.outcome # "refused"

LookupError ==
  /\ Unidentified
  /\ RetryOnLookupError /\ pc' = "clear"
  /\ UNCHANGED <<disk, count, venue, lag, failures>>

\* Bug: the first miss releases the intent.
LookupMissingHasty ==
  /\ Unidentified
  /\ \/ Mine = {} /\ (\A r \in wire : r.cid # pending.cid) /\ lag' = lag
     \/ lag < Lag /\ lag' = lag + 1
  /\ Save([pending EXCEPT !.misses = 1]) /\ pc' = "clear"
  /\ UNCHANGED <<count, venue, failures>>

\* Bug: the last miss starts the count again and releases nothing.
LookupMissingForgetful ==
  /\ Unidentified
  /\ \/ Mine = {} /\ (\A r \in wire : r.cid # pending.cid) /\ lag' = lag
     \/ lag < Lag /\ lag' = lag + 1
  /\ Save([pending EXCEPT !.misses = (pending.misses + 1) % MissingConfirmations])
  /\ UNCHANGED <<count, pc, venue, failures>>

\* The venue knows no such order: because there is none, or not yet.
LookupMissing ==
  /\ Unidentified
  /\ \/ Mine = {} /\ (\A r \in wire : r.cid # pending.cid) /\ lag' = lag
     \/ lag < Lag /\ lag' = lag + 1
  /\ LET m == IF pending.misses < MissingConfirmations THEN pending.misses + 1
                                                       ELSE pending.misses
     IN  /\ Save([pending EXCEPT !.misses = m])
         /\ pc' = IF m < MissingConfirmations THEN "idle" ELSE "clear"
  /\ UNCHANGED <<count, venue, failures>>

LookupFound(o) ==
  /\ Unidentified /\ o \in Mine
  /\ Save([pending EXCEPT !.oid = o, !.misses = 0])
  /\ pc' = "status"
  /\ UNCHANGED <<count, venue, lag, failures>>

\* persist(None) of reconcile, and the counter in memory (_bump_retry)
Clear ==
  /\ \/ pc = "clear"
     \/ pc = "idle" /\ pending # None /\ pending.oid = None /\ pending.outcome = "refused"
  /\ Save(None)
  /\ count' = Max2(Max2(count, disk.count), pending.cid.attempt - 1) + 1
  /\ pc' = "bump"
  /\ UNCHANGED <<venue, lag, failures>>

\* ... and the counter in the file, by a second save
Bump ==
  /\ pc = "bump"
  /\ disk' = [disk EXCEPT !.count = count]
  /\ pc' = "idle"
  /\ UNCHANGED <<count, venue, lag, failures>>

AsksStatus ==
  /\ pc \in {"idle", "status"} /\ pending # None
  /\ pending.oid # None /\ pending.terminal = None

\* Bug: any status is stored as the terminal one.
StatusTerminalBlind ==
  /\ AsksStatus
  /\ Save([pending EXCEPT !.terminal = orders[pending.oid].status])
  /\ pc' = "idle"
  /\ UNCHANGED <<count, venue, lag, failures>>

\* Bug: an order that bought something counts as over.
StatusTerminalEager ==
  /\ AsksStatus
  /\ orders[pending.oid].status \in Over \/ orders[pending.oid].filled > 0
  /\ Save([pending EXCEPT !.terminal = "canceled"])
  /\ pc' = "idle"
  /\ UNCHANGED <<count, venue, lag, failures>>

\* Bug: only a complete fill is recognized as an end.
StatusTerminalClosed ==
  /\ AsksStatus /\ orders[pending.oid].status = "closed"
  /\ Save([pending EXCEPT !.terminal = "closed"])
  /\ pc' = "idle"
  /\ UNCHANGED <<count, venue, lag, failures>>

\* _persist_terminal; the fill is booked from the file, now or after a restart.
StatusTerminal ==
  /\ AsksStatus /\ orders[pending.oid].status \in Over
  /\ Save([pending EXCEPT !.terminal = orders[pending.oid].status])
  /\ pc' = "idle"
  /\ UNCHANGED <<count, venue, lag, failures>>

\* The order is still open: it waits, or it is old and its one cancel is noted.
StatusOpen ==
  /\ AsksStatus /\ pending.oid \in Open
  /\ \/ pc' = "idle" /\ UNCHANGED disk
     \/ /\ ~pending.cancelTried
        /\ Save([pending EXCEPT !.cancelTried = TRUE])
        /\ pc' = "cancel"
  /\ UNCHANGED <<count, venue, lag, failures>>

\* Bug: an accepted cancel ends the intent without asking what was filled.
CancelTrusted ==
  /\ pc = "cancel" /\ pending.oid \in Open
  /\ orders' = [orders EXCEPT ![pending.oid].status = "canceled"]
  /\ Save(None) /\ pc' = "idle"
  /\ UNCHANGED <<count, wire, bought, lag, failures>>

\* market_api.cancel_order: answered, answered too late, or beaten by a fill
Cancel ==
  /\ pc = "cancel"
  /\ IF pending.oid \in Open
       THEN /\ orders' = [orders EXCEPT ![pending.oid].status = "canceled"]
            /\ pc' \in {"status", "idle"}
       ELSE pc' = "idle" /\ UNCHANGED orders
  /\ UNCHANGED <<disk, count, wire, bought, lag, failures>>

\* Bug: takes off what was ordered, not what was filled.
RemainderOrdered ==
  LET order == orders[pending.oid]
      left  == disk.owed - order.qty
  IN  IF order.filled = 0 THEN disk.owed
      ELSE IF pending.terminal # "closed" /\ left >= Dust THEN left ELSE 0

\* The quantity left after an order is over: _finish_pending of a re-buy
Remainder ==
  LET order == orders[pending.oid]
      left  == disk.owed - order.filled
  IN  IF order.filled = 0 THEN disk.owed
      ELSE IF pending.terminal # "closed" /\ left >= Dust THEN left ELSE 0

\* reconcile_trailing_pending_order: a complete fill forgets the retries.
RetriesAfter ==
  IF pending.terminal = "closed" THEN 0
  ELSE Max2(Max2(count, disk.count), pending.cid.attempt - 1) + 1

\* Bug: the retry counter of the file is not part of the booking save.
FinishCountless ==
  /\ pc = "idle" /\ pending # None /\ pending.terminal # None
  /\ count' = RetriesAfter
  /\ disk' = [pending |-> None, owed |-> Remainder, count |-> disk.count]
  /\ UNCHANGED <<pc, venue, lag, failures>>

Finish ==
  /\ pc = "idle" /\ pending # None /\ pending.terminal # None
  /\ count' = RetriesAfter
  /\ disk' = [pending |-> None, owed |-> Remainder, count |-> RetriesAfter]
  /\ UNCHANGED <<pc, venue, lag, failures>>
--------------------------------------------------------------------------------
(* Failures *)

Fail == failures < MaxFailures /\ failures' = failures + 1

\* Finish with its save failing: only the counter in memory has moved.
FinishUnsaved ==
  /\ Fail
  /\ pc = "idle" /\ pending # None /\ pending.terminal # None
  /\ count' = RetriesAfter
  /\ UNCHANGED <<disk, pc, venue, lag>>

\* A save or a call of the tick raises: the rest of the tick is lost.
Abort ==
  /\ Fail
  /\ pc # "idle" /\ pc' = "idle"
  /\ UNCHANGED <<disk, count, venue, lag>>

Crash ==
  /\ Fail
  /\ pc' = "idle" /\ count' = 0
  /\ UNCHANGED <<disk, venue, lag>>
--------------------------------------------------------------------------------
(* The venue *)

\* One open order per client id
Land(r, o) ==
  /\ r \in wire /\ orders[o] = NoOrder
  /\ \A x \in Open : orders[x].cid # r.cid
  /\ wire' = wire \ {r}
  /\ orders' = [orders EXCEPT ![o] =
       [cid |-> r.cid, qty |-> r.qty, filled |-> 0, status |-> "open"]]
  /\ UNCHANGED <<disk, count, pc, bought, lag, failures>>

Lose(r) ==
  /\ r \in wire /\ wire' = wire \ {r}
  /\ UNCHANGED <<disk, count, pc, orders, bought, lag, failures>>

Fill(o, k) ==
  /\ o \in Open /\ k <= orders[o].qty - orders[o].filled
  /\ orders' = [orders EXCEPT
       ![o].filled = @ + k,
       ![o].status = IF orders[o].filled + k = orders[o].qty THEN "closed" ELSE "open"]
  /\ bought' = bought + k
  /\ UNCHANGED <<disk, count, pc, wire, lag, failures>>

\* Canceled or expired at the venue
Expire(o) ==
  /\ o \in Open
  /\ orders' = [orders EXCEPT ![o].status = "canceled"]
  /\ UNCHANGED <<disk, count, pc, wire, bought, lag, failures>>
--------------------------------------------------------------------------------
Tick ==
  \/ \E p \in Prices : Begin(p)
  \/ Refuse \/ Drop
  \/ \E q \in 1..Goal : Send(q)
  \/ \E o \in Oids : Accepted(o) \/ LookupFound(o)
  \/ Ambiguous
  \/ \E r \in wire : Rejected(r)
  \/ LookupError \/ LookupMissing \/ Clear \/ Bump
  \/ StatusTerminal \/ StatusOpen \/ Cancel \/ Finish

Venue ==
  \/ \E r \in wire, o \in Oids : Land(r, o)
  \/ \E r \in wire : Lose(r)
  \/ \E o \in Oids, k \in 1..Goal : Fill(o, k)
  \/ \E o \in Oids : Expire(o)

Next == Tick \/ FinishUnsaved \/ Abort \/ Crash \/ Venue

Spec == Init /\ [][Next]_vars
\* The process ticks (TrailingCore's loop), and the venue settles a request and
\* ends an order; nothing obliges it to fill one.
Fairness ==
  /\ WF_vars(Tick)
  /\ WF_vars(\E r \in wire, o \in Oids : Land(r, o))
  /\ WF_vars(\E r \in wire : Lose(r))

FairSpec == Spec /\ Fairness
--------------------------------------------------------------------------------
(* Properties *)

TypeOK ==
  /\ disk \in States /\ count \in Nat /\ pc \in Pcs
  /\ wire \subseteq Requests /\ orders \in [Oids -> Orders]
  /\ bought \in Nat /\ lag \in 0..Lag /\ failures \in 0..MaxFailures

\* Bought under the pending intent and not yet taken off the ledger
BoughtBy(os, mine) == IF mine = {} THEN 0 ELSE os[CHOOSE o \in mine : TRUE].filled
Part == BoughtBy(orders, Mine)

\* Whatever fails or restarts, a request under way and an order that can still
\* fill belong to the intent in the state file: no order trades unwatched.
LiveOrdersAreTracked ==
  /\ \A o \in Open : o \in Mine
  /\ \A r \in wire : pending # None /\ r.cid = pending.cid

\* The account never holds more than was sold, and while the campaign lasts the
\* ledger plus what the account received make up what was sold: no fill is
\* booked twice, lost by a restart, or booked at another order's quantity.
LedgerExact ==
  /\ bought <= Goal
  /\ disk.owed > 0 => disk.owed + bought = Goal + Part

\* A client id names one order: after an order has ended without buying, the
\* next attempt does not carry its id, even if the process restarted meanwhile.
FreshClientIds ==
  \A a, b \in Placed : orders[a].cid = orders[b].cid => a = b

\* Once the order id of an intent is in the file, the file forgets the intent
\* only by taking what that order bought, final as it is, off the ledger.
KnownOrderIsBooked ==
  [][ (pending # None /\ pending.oid # None /\ disk'.pending = None)
      => LET order == orders[pending.oid]
         IN  /\ order.status \in Over
             /\ disk'.owed \in {disk.owed - order.filled, 0}
             /\ order.filled = 0 => disk'.owed = disk.owed ]_vars

\* Detailed steps are steps of the promise, or change nothing of it.
Promise == INSTANCE RebuyPromise
           WITH owed <- disk.owed, open <- Open # {}, part <- Part
KeepsPromise == Promise!Spec

\* What an order bought is eventually taken off the ledger once it has ended.
FillsGetBooked ==
  (\E o \in Mine : orders[o].status \in Over) ~> (pending = None)

\* A submission whose answer was lost is eventually identified or given up.
AmbiguityEnds ==
  (pending # None /\ pending.oid = None) ~> (pending = None \/ pending.oid # None)
--------------------------------------------------------------------------------
(* The invariant that is kept by every step *)

\* A lookup error does not release an intent, and the venue knows a request
\* before the last of the confirmations the owner asks for.
Careful == ~RetryOnLookupError /\ Lag < MissingConfirmations

\* What the position of the tick says of the pending intent
TickOK ==
  /\ pc = "bump" => pending = None /\ count >= disk.count
  /\ pc \notin {"idle", "bump"} => pending # None /\ pending.terminal = None
  /\ pc \in {"submit", "sent", "drop", "clear"} => pending.oid = None
  /\ pc \in {"submit", "sent"} => pending.misses = 0 /\ pending.outcome = "none"
  /\ pc \in {"status", "cancel"} => pending.oid # None

OrdersOK ==
  /\ \A r \in wire : r.qty <= r.cid.owed
  /\ \A o \in Placed :
       /\ orders[o].qty <= orders[o].cid.owed
       /\ orders[o].filled <= orders[o].qty
       /\ orders[o].status = "closed" => orders[o].filled = orders[o].qty
       /\ orders[o].status = "open" => orders[o].filled < orders[o].qty

\* What holds of the intent whose order is known, whatever the lookups did before:
\* the order in the file exists, and a terminal status in the file is the order's.
KnownOK ==
  pending # None =>
    /\ pending.oid # None => pending.oid \in Placed
    /\ pending.terminal # None =>
         pending.oid # None /\ orders[pending.oid].status = pending.terminal

BookInv ==
  /\ TypeOK /\ TickOK /\ KnownOK
  /\ \A o \in Placed : orders[o].filled <= orders[o].qty

\* The venue has nothing of an intent that is not sent, or that is to be forgotten
Gone == wire = {} /\ Mine = {}

\* One request or one order per intent; while its order id is unknown, the file
\* counts no more misses than the venue has answered wrongly.
OneAtATime ==
  /\ \A r, s \in wire : r = s
  /\ wire # {} => Mine = {}
  /\ pc \in {"submit", "drop", "clear"} => Gone
  /\ pending # None =>
       /\ pending.outcome = "refused" => Gone
       /\ pending.oid # None => pending.oid \in Mine
       /\ pending.terminal # None =>
            pending.oid # None /\ orders[pending.oid].status = pending.terminal
       /\ pending.oid = None => Gone \/ pending.misses <= lag

\* Client ids fall with the ledger and rise with the counter in the file.
IdsOrdered ==
  /\ pending # None => pending.cid.owed = disk.owed /\ pending.cid.attempt > disk.count
  /\ \A o \in Placed \ Mine :
       orders[o].cid.owed > disk.owed \/ orders[o].cid.attempt <= disk.count

LedgerInv ==
  /\ TypeOK /\ TickOK /\ OrdersOK /\ LiveOrdersAreTracked /\ OneAtATime
  /\ IdsOrdered /\ FreshClientIds /\ LedgerExact
=============================================================================
