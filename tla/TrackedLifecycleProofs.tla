----------------------- MODULE TrackedLifecycleProofs -----------------------
(***************************************************************************)
(* Typing and the ledger of TrackedLifecycle, and that it implements       *)
(* RebuyPromise, for every quantity, venue, confirmation policy and bound. *)
(***************************************************************************)
EXTENDS TrackedLifecycle, TLAPS

USE QuantityAssumption, LookupAssumption, BoundAssumption, NoneAssumption

--------------------------------------------------------------------------------
(* Typing *)

\* The fields of a pending intent and of a placed order.
LEMMA PendingFields ==
  ASSUME TypeOK, pending # None
  PROVE  /\ pending \in Pendings /\ disk.owed \in 0..Goal /\ disk.count \in Nat
         /\ pending.cid.owed \in 1..Goal /\ pending.cid.attempt \in 1..MaxAttempts
         /\ pending.misses \in 0..MissingConfirmations
BY DEF TypeOK, States, Pendings, Cids, pending

LEMMA Saves ==
  ASSUME TypeOK, NEW p \in Pendings \cup {None}, Save(p)
  PROVE  /\ disk' \in States
         /\ disk'.pending = p /\ disk'.owed = disk.owed /\ disk'.count = disk.count
BY DEF TypeOK, Save, States

LEMMA RetriesTyped ==
  ASSUME TypeOK, pending # None
  PROVE  /\ RetriesAfter \in Nat
         /\ pending.terminal # "closed" =>
              RetriesAfter >= pending.cid.attempt /\ RetriesAfter > disk.count
BY PendingFields DEF TypeOK, RetriesAfter, Max2

\* The order whose id is in the file
LEMMA KnownOrder ==
  ASSUME TypeOK, OrdersOK, OneAtATime, pending # None, pending.oid # None
  PROVE  /\ pending.oid \in Mine /\ pending.oid \in Placed
         /\ orders[pending.oid] \in Placements
         /\ orders[pending.oid].cid = pending.cid
BY DEF TypeOK, OneAtATime, Mine, PlacedUnder, Placed, Orders, NoOrder

LEMMA RemainderTyped ==
  ASSUME TypeOK, OrdersOK, OneAtATime, IdsOrdered, pending # None, pending.terminal # None
  PROVE  LET filled == orders[pending.oid].filled
         IN  /\ Remainder \in 0..Goal /\ filled \in 0..disk.owed
             /\ filled = 0 => Remainder = disk.owed /\ pending.terminal # "closed"
             /\ filled > 0 => Remainder \in {disk.owed - filled, 0}
             /\ pending.terminal = "closed" => Remainder = 0
<1>1. /\ pending.oid \in Placed /\ orders[pending.oid] \in Placements
      /\ orders[pending.oid].cid = pending.cid
      /\ orders[pending.oid].status = pending.terminal
  BY KnownOrder DEF OneAtATime
<1>2. LET order == orders[pending.oid]
      IN  /\ order.filled \in 0..Goal /\ order.qty \in 1..Goal /\ order.filled <= order.qty
          /\ order.qty <= disk.owed
          /\ pending.terminal = "closed" => order.filled = order.qty
  BY <1>1 DEF Placements, OrdersOK, IdsOrdered
<1> QED BY <1>2, PendingFields DEF Remainder

\* What is left is a quantity, however the intent came to its order.
LEMMA RemainderBooks ==
  ASSUME BookInv, pending # None, pending.terminal # None
  PROVE  LET order == orders[pending.oid]
         IN  /\ order.status \in Over /\ Remainder \in 0..Goal
             /\ Remainder \in {disk.owed - order.filled, 0}
             /\ order.filled = 0 => Remainder = disk.owed
<1>1. pending \in Pendings /\ disk.owed \in 0..Goal
  BY PendingFields DEF BookInv
<1>2. /\ pending.oid \in Placed /\ orders[pending.oid].status = pending.terminal
      /\ pending.terminal \in Over
  BY <1>1 DEF BookInv, KnownOK, Pendings
<1>3. orders[pending.oid].filled \in 0..Goal
  BY <1>2 DEF BookInv, TypeOK, Placed, Orders, NoOrder, Placements
<1> QED BY <1>1, <1>2, <1>3 DEF Remainder

LEMMA NewIntent ==
  ASSUME NEW c \in Cids
  PROVE  [cid |-> c, outcome |-> "none", oid |-> None, misses |-> 0, terminal |-> None,
          cancelTried |-> FALSE] \in Pendings
BY DEF Pendings

LEMMA TickTyped ==
  ASSUME BookInv, Tick
  PROVE  TypeOK'
<1>0. TypeOK /\ TickOK
  BY DEF BookInv
<1>1. ASSUME NEW p \in Prices, Begin(p)
      PROVE  TypeOK'
  <2> DEFINE n == Max2(count, disk.count)
             new == [cid |-> [owed |-> disk.owed, price |-> p, attempt |-> n + 1],
                     outcome |-> "none", oid |-> None, misses |-> 0, terminal |-> None,
                     cancelTried |-> FALSE]
  <2>1. n \in Nat /\ n < MaxAttempts /\ disk.owed \in 1..Goal
    BY <1>0, <1>1 DEF Begin, TypeOK, States, Max2
  <2>2. new \in Pendings
    BY <1>0, <2>1 DEF Pendings, Cids
  <2>3. disk' \in States
    BY <1>0, <1>1, <2>2, Saves DEF Begin
  <2> QED BY <1>0, <1>1, <2>1, <2>3 DEF Begin, TypeOK, Pcs
<1>2. CASE Refuse
  <2>1. [pending EXCEPT !.outcome = "refused"] \in Pendings
    BY <1>0, <1>2, PendingFields DEF Refuse, TickOK, Pendings
  <2> QED BY <1>0, <1>2, <2>1, Saves DEF Refuse, TypeOK, Pcs, venue
<1>3. CASE Drop
  BY <1>0, <1>3, Saves DEF Drop, TypeOK, Pcs, venue
<1>4. ASSUME NEW q \in 1..Goal, Send(q)
      PROVE  TypeOK'
  <2>1. [cid |-> pending.cid, qty |-> q] \in Requests
    BY <1>0, <1>4, PendingFields DEF Send, TickOK, Pendings, Requests
  <2> QED BY <1>0, <1>4, <2>1 DEF Send, TypeOK, Pcs
<1>5. ASSUME NEW o \in Oids, Accepted(o)
      PROVE  TypeOK'
  <2>1. [pending EXCEPT !.outcome = "accepted", !.oid = o] \in Pendings
    BY <1>0, <1>5, PendingFields DEF Accepted, TickOK, Pendings
  <2> QED BY <1>0, <1>5, <2>1, Saves DEF Accepted, TypeOK, Pcs, venue
<1>6. ASSUME NEW o \in Oids, LookupFound(o)
      PROVE  TypeOK'
  <2>1. [pending EXCEPT !.oid = o, !.misses = 0] \in Pendings
    <3>1. pending \in Pendings /\ 0 \in 0..MissingConfirmations
      BY <1>0, <1>6, PendingFields DEF LookupFound, Unidentified
    <3> QED BY <1>0, <3>1 DEF Pendings
  <2> QED BY <1>0, <1>6, <2>1, Saves DEF LookupFound, TypeOK, Pcs, venue
<1>7. CASE Ambiguous
  <2>1. [pending EXCEPT !.outcome = "unknown"] \in Pendings
    BY <1>0, <1>7, PendingFields DEF Ambiguous, TickOK, Pendings
  <2> QED BY <1>0, <1>7, <2>1, Saves DEF Ambiguous, TypeOK, Pcs, venue
<1>8. ASSUME NEW r \in wire, Rejected(r)
      PROVE  TypeOK'
  <2>1. [pending EXCEPT !.outcome = "refused"] \in Pendings
    BY <1>0, <1>8, PendingFields DEF Rejected, TickOK, Pendings
  <2> QED BY <1>0, <1>8, <2>1, Saves DEF Rejected, TypeOK, Pcs
<1>9. CASE LookupError
  BY <1>0, <1>9 DEF LookupError, TypeOK, Pcs, venue
<1>10. CASE LookupMissing
  <2> DEFINE m == IF pending.misses < MissingConfirmations THEN pending.misses + 1
                                                           ELSE pending.misses
  <2>1. m \in 0..MissingConfirmations
    BY <1>0, <1>10, PendingFields DEF LookupMissing, Unidentified
  <2>2. [pending EXCEPT !.misses = m] \in Pendings
    BY <1>0, <1>10, <2>1, PendingFields DEF LookupMissing, Unidentified, Pendings
  <2>3. disk' \in States
    BY <1>0, <1>10, <2>2, Saves DEF LookupMissing
  <2>4. lag' \in 0..Lag
    BY <1>0, <1>10 DEF LookupMissing, TypeOK
  <2> QED BY <1>0, <1>10, <2>3, <2>4 DEF LookupMissing, TypeOK, Pcs, venue
<1>11. CASE Clear
  <2>1. count' \in Nat
    BY <1>0, <1>11, PendingFields DEF Clear, TickOK, TypeOK, Max2
  <2> QED BY <1>0, <1>11, <2>1, Saves DEF Clear, TypeOK, Pcs, venue
<1>12. CASE Bump
  BY <1>0, <1>12 DEF Bump, TypeOK, States, Pcs, venue
<1>13. CASE StatusTerminal
  <2>1. [pending EXCEPT !.terminal = orders[pending.oid].status] \in Pendings
    BY <1>0, <1>13, PendingFields DEF StatusTerminal, AsksStatus, Pendings
  <2> QED BY <1>0, <1>13, <2>1, Saves DEF StatusTerminal, TypeOK, Pcs, venue
<1>14. CASE StatusOpen
  <2>1. [pending EXCEPT !.cancelTried = TRUE] \in Pendings
    BY <1>0, <1>14, PendingFields DEF StatusOpen, AsksStatus, Pendings
  <2> QED BY <1>0, <1>14, <2>1, Saves DEF StatusOpen, TypeOK, Pcs, venue
<1>15. CASE Cancel
  <2>1. orders' \in [Oids -> Orders]
    BY <1>0, <1>15 DEF Cancel, Open, TypeOK, Orders, Placements, NoOrder, Over
  <2> QED BY <1>0, <1>15, <2>1 DEF Cancel, TypeOK, Pcs
<1>16. CASE Finish
  <2>1. RetriesAfter \in Nat /\ Remainder \in 0..Goal
    BY <1>0, <1>16, RetriesTyped, RemainderBooks DEF Finish
  <2> QED BY <1>0, <1>16, <2>1 DEF Finish, TypeOK, States, venue
<1> QED BY <1>0, <1>1, <1>2, <1>3, <1>4, <1>5, <1>6, <1>7, <1>8, <1>9, <1>10, <1>11, <1>12,
           <1>13, <1>14, <1>15, <1>16 DEF Tick

LEMMA VenueTyped ==
  ASSUME BookInv, Venue
  PROVE  TypeOK'
<1>0. TypeOK
  BY DEF BookInv
<1>1. ASSUME NEW r \in wire, NEW o \in Oids, Land(r, o)
      PROVE  TypeOK'
  <2>1. [cid |-> r.cid, qty |-> r.qty, filled |-> 0, status |-> "open"] \in Placements
    BY <1>0 DEF TypeOK, Requests, Placements
  <2> QED BY <1>0, <1>1, <2>1 DEF Land, TypeOK, Orders
<1>2. ASSUME NEW r \in wire, Lose(r)
      PROVE  TypeOK'
  BY <1>0, <1>2 DEF Lose, TypeOK
<1>3. ASSUME NEW o \in Oids, NEW k \in 1..Goal, Fill(o, k)
      PROVE  TypeOK'
  <2>1. orders[o] \in Placements /\ orders[o].filled + k \in 0..Goal
    BY <1>0, <1>3 DEF Fill, Open, TypeOK, Orders, NoOrder, Placements
  <2>2. [orders[o] EXCEPT !.filled = orders[o].filled + k,
           !.status = IF orders[o].filled + k = orders[o].qty THEN "closed" ELSE "open"]
        \in Placements
    BY <1>0, <2>1 DEF Placements, Over
  <2>3. orders' \in [Oids -> Orders]
    BY <1>0, <1>3, <2>2 DEF Fill, TypeOK, Orders
  <2>4. bought' \in Nat
    BY <1>0, <1>3 DEF Fill, TypeOK
  <2> QED BY <1>0, <1>3, <2>3, <2>4 DEF Fill, TypeOK
<1>4. ASSUME NEW o \in Oids, Expire(o)
      PROVE  TypeOK'
  <2>1. orders' \in [Oids -> Orders]
    BY <1>0, <1>4 DEF Expire, Open, TypeOK, Orders, Placements, NoOrder, Over
  <2> QED BY <1>0, <1>4, <2>1 DEF Expire, TypeOK
<1> QED BY <1>0, <1>1, <1>2, <1>3, <1>4 DEF Venue

LEMMA FailuresTyped ==
  ASSUME TypeOK, FinishUnsaved \/ Abort \/ Crash
  PROVE  TypeOK'
BY RetriesTyped DEF FinishUnsaved, Abort, Crash, Fail, TypeOK, Pcs, venue

--------------------------------------------------------------------------------
(* The ledger *)

\* Everything of LedgerInv that does not depend on where the tick is
Ledgers == OrdersOK /\ LiveOrdersAreTracked /\ IdsOrdered /\ FreshClientIds /\ LedgerExact

\* Nothing the promise speaks of changes.
Quiet == Part' = Part /\ disk'.owed = disk.owed /\ Open' = Open /\ bought' = bought

LEMMA BoughtByOne ==
  ASSUME NEW os, NEW o
  PROVE  BoughtBy(os, {o}) = os[o].filled
BY DEF BoughtBy

LEMMA PartOfMine ==
  ASSUME FreshClientIds, NEW o \in Mine
  PROVE  Part = orders[o].filled /\ \A a \in Mine : a = o
<1>1. \A a \in Mine : a = o
  BY DEF FreshClientIds, Mine, PlacedUnder, Placed
<1>2. Mine = {o}
  BY <1>1
<1> QED BY <1>2, BoughtByOne DEF Part

\* The intent stays and the venue's orders do not move.
LEMMA IntentStays ==
  ASSUME LedgerInv, pending # None, disk'.pending \in Pendings,
         disk'.pending.cid = pending.cid, disk'.owed = disk.owed, disk'.count = disk.count,
         wire' \subseteq wire, orders' = orders, bought' = bought
  PROVE  Ledgers' /\ Mine' = Mine /\ Part' = Part
<1>1. pending' # None /\ pending'.cid = pending.cid /\ Mine' = Mine /\ Placed' = Placed
      /\ Open' = Open
  BY DEF Mine, PlacedUnder, Placed, Open, pending
<1>2. Part' = Part
  BY <1>1 DEF Part, BoughtBy
<1>3. OrdersOK' /\ FreshClientIds'
  BY <1>1 DEF LedgerInv, OrdersOK, FreshClientIds
<1>4. LiveOrdersAreTracked' /\ IdsOrdered'
  BY <1>1 DEF LedgerInv, LiveOrdersAreTracked, IdsOrdered
<1>5. LedgerExact'
  BY <1>2 DEF LedgerInv, LedgerExact
<1> QED BY <1>1, <1>2, <1>3, <1>4, <1>5 DEF Ledgers

\* An intent the venue has nothing of is forgotten, or there is none.
LEMMA IntentGone ==
  ASSUME LedgerInv, Gone, disk'.pending = None, disk'.owed = disk.owed,
         disk'.count \in Nat, disk'.count >= disk.count,
         wire' = wire, orders' = orders, bought' = bought
  PROVE  Ledgers' /\ Mine' = {} /\ wire' = {} /\ Part = 0 /\ Part' = 0
<1>1. pending' = None /\ Mine' = {} /\ Placed' = Placed /\ Open' = Open /\ Mine = {}
  BY DEF Mine, PlacedUnder, Placed, Open, pending, Gone
<1>2. Part = 0 /\ Part' = 0
  BY <1>1 DEF Part, BoughtBy
<1>3. OrdersOK' /\ FreshClientIds'
  BY <1>1 DEF LedgerInv, OrdersOK, FreshClientIds
<1>4. LiveOrdersAreTracked'
  BY <1>1 DEF LedgerInv, LiveOrdersAreTracked, Gone
<1>5. \A o \in Placed : orders[o].cid.attempt \in Nat
  BY DEF LedgerInv, TypeOK, Orders, Placements, Placed, Cids, NoOrder
<1>6. IdsOrdered'
  <2>1. disk.count \in Nat
    BY DEF LedgerInv, TypeOK, States
  <2> QED BY <1>1, <1>5, <2>1 DEF LedgerInv, IdsOrdered
<1>7. LedgerExact'
  BY <1>2 DEF LedgerInv, LedgerExact
<1> QED BY <1>1, <1>2, <1>3, <1>4, <1>6, <1>7 DEF Ledgers, Gone

LEMMA BeginLedger ==
  ASSUME LedgerInv, NEW p \in Prices, Begin(p), TypeOK'
  PROVE  LedgerInv' /\ Quiet
<1> DEFINE n == Max2(count, disk.count)
<1>1. /\ pending' # None /\ pending' \in Pendings
      /\ pending'.cid = [owed |-> disk.owed, price |-> p, attempt |-> n + 1]
      /\ pending'.outcome = "none" /\ pending'.oid = None /\ pending'.misses = 0
      /\ pending'.terminal = None
      /\ disk'.owed = disk.owed /\ disk'.count = disk.count
      /\ n \in Nat /\ n >= disk.count /\ disk.count \in Nat /\ disk.owed \in 1..Goal
  <2>1. n \in Nat /\ n >= disk.count /\ disk.count \in Nat /\ disk.owed \in 1..Goal
    BY DEF Begin, LedgerInv, TypeOK, States, Max2
  <2>2. disk' = [disk EXCEPT !.pending =
              [cid |-> [owed |-> disk.owed, price |-> p, attempt |-> n + 1],
               outcome |-> "none", oid |-> None, misses |-> 0, terminal |-> None,
               cancelTried |-> FALSE]]
    BY DEF Begin, Save
  <2>3. /\ disk'.owed = disk.owed /\ disk'.count = disk.count
        /\ disk'.pending = [cid |-> [owed |-> disk.owed, price |-> p, attempt |-> n + 1],
               outcome |-> "none", oid |-> None, misses |-> 0, terminal |-> None,
               cancelTried |-> FALSE]
    BY <2>2 DEF LedgerInv, TypeOK, States
  <2>4. disk'.pending \in Pendings
    <3>1. n + 1 \in 1..MaxAttempts
      BY <2>1 DEF Begin
    <3>2. [owed |-> disk.owed, price |-> p, attempt |-> n + 1] \in Cids
      BY <2>1, <3>1 DEF Cids
    <3> QED BY <2>3, <3>2, NewIntent
  <2>5. disk'.pending.cid = [owed |-> disk.owed, price |-> p, attempt |-> n + 1]
    BY <2>3
  <2>6. /\ disk'.pending.outcome = "none" /\ disk'.pending.oid = None
        /\ disk'.pending.misses = 0 /\ disk'.pending.terminal = None
    BY <2>3
  <2> HIDE DEF n
  <2> QED BY <2>1, <2>3, <2>4, <2>5, <2>6 DEF pending
<1>2. Mine = {} /\ wire = {} /\ Open = {} /\ wire' = wire /\ orders' = orders /\ bought' = bought
  BY DEF Begin, LedgerInv, LiveOrdersAreTracked, Mine, PlacedUnder
<1>3. Mine' = {} /\ Placed' = Placed /\ Open' = Open
  <2>1. \A o \in Placed : orders[o].cid.owed > disk.owed \/ orders[o].cid.attempt <= disk.count
    BY <1>2 DEF LedgerInv, IdsOrdered
  <2>2. \A o \in Placed : orders[o].cid # pending'.cid
    <3>1. \A o \in Placed : orders[o].cid.owed \in Nat /\ orders[o].cid.attempt \in Nat
      BY DEF LedgerInv, TypeOK, Orders, Placements, Placed, Cids, NoOrder
    <3> QED BY <1>1, <2>1, <3>1
  <2> QED BY <1>2, <2>2 DEF Mine, PlacedUnder, Placed, Open
<1>4. Part = 0 /\ Part' = 0
  BY <1>2, <1>3 DEF Part, BoughtBy
<1>5. OrdersOK' /\ FreshClientIds' /\ LiveOrdersAreTracked'
  BY <1>2, <1>3 DEF LedgerInv, OrdersOK, FreshClientIds, LiveOrdersAreTracked
<1>6. IdsOrdered'
  BY <1>1, <1>2, <1>3 DEF LedgerInv, IdsOrdered
<1>7. LedgerExact'
  BY <1>1, <1>2, <1>4 DEF LedgerInv, LedgerExact
<1>8. TickOK' /\ OneAtATime'
  BY <1>1, <1>2, <1>3 DEF Begin, TickOK, OneAtATime, Gone
<1> QED BY <1>1, <1>2, <1>3, <1>4, <1>5, <1>6, <1>7, <1>8 DEF LedgerInv, Quiet

LEMMA ForgetLedger ==
  ASSUME LedgerInv, Drop \/ Clear \/ Bump, TypeOK'
  PROVE  LedgerInv' /\ Quiet
<1>1. Gone
  <2>1. CASE Drop
    BY <2>1 DEF Drop, LedgerInv, OneAtATime
  <2>2. CASE Clear
    BY <2>2 DEF Clear, LedgerInv, OneAtATime
  <2>3. CASE Bump
    BY <2>3 DEF Bump, LedgerInv, TickOK, LiveOrdersAreTracked, Gone, Mine, PlacedUnder
  <2> QED BY <2>1, <2>2, <2>3
<1>2. /\ disk'.pending = None /\ disk'.owed = disk.owed
      /\ disk'.count \in Nat /\ disk'.count >= disk.count
      /\ wire' = wire /\ orders' = orders /\ bought' = bought
      /\ pc' \in {"idle", "bump"} /\ (pc' = "bump" => count' >= disk'.count)
  <2>1. CASE Drop
    BY <2>1, Saves DEF Drop, LedgerInv, TypeOK, States, venue
  <2>2. CASE Clear
    <3>1. pending # None
      BY <2>2 DEF Clear, LedgerInv, TickOK
    <3>2. count' >= disk.count
      BY <2>2, <3>1, PendingFields DEF Clear, LedgerInv, TypeOK, Max2
    <3> QED BY <2>2, <3>2, Saves DEF Clear, LedgerInv, TypeOK, States, venue
  <2>3. CASE Bump
    <3>1. /\ disk'.pending = disk.pending /\ disk'.owed = disk.owed /\ disk'.count = count
      BY <2>3 DEF Bump, LedgerInv, TypeOK, States
    <3> QED BY <2>3, <3>1 DEF Bump, LedgerInv, TickOK, TypeOK, States, pending, venue
  <2> QED BY <2>1, <2>2, <2>3
<1>3. Ledgers' /\ Mine' = {} /\ wire' = {} /\ Part = 0 /\ Part' = 0
  BY <1>1, <1>2, IntentGone
<1>4. TickOK' /\ OneAtATime'
  BY <1>2, <1>3 DEF TickOK, OneAtATime, Gone, pending
<1>5. Open' = Open
  BY <1>2 DEF Open
<1> QED BY <1>2, <1>3, <1>4, <1>5 DEF LedgerInv, Ledgers, Quiet

\* A step that only writes into the pending intent
Notes(p) == /\ pending # None /\ p \in Pendings /\ p.cid = pending.cid
            /\ disk' = [disk EXCEPT !.pending = p]
            /\ orders' = orders /\ bought' = bought

LEMMA NotesKeep ==
  ASSUME LedgerInv, NEW p, Notes(p), wire' \subseteq wire
  PROVE  Ledgers' /\ Mine' = Mine /\ Quiet /\ pending' = p /\ pending' # None
<1>1. disk'.pending = p /\ disk'.owed = disk.owed /\ disk'.count = disk.count
  BY Saves DEF Notes, Save, LedgerInv
<1>2. Open' = Open
  BY DEF Notes, Open
<1> QED BY <1>1, <1>2, IntentStays DEF Notes, Quiet, pending

LEMMA SubmitLedger ==
  ASSUME LedgerInv, TypeOK',
         \/ Refuse \/ Ambiguous
         \/ \E r \in wire : Rejected(r)
         \/ \E o \in Oids : Accepted(o)
  PROVE  LedgerInv' /\ Quiet
<1>0. LedgerInv /\ TypeOK /\ TickOK /\ OneAtATime
  BY DEF LedgerInv
<1>1. CASE Refuse
  <2> DEFINE p == [pending EXCEPT !.outcome = "refused"]
  <2>1. Notes(p) /\ wire' = wire /\ pc = "submit" /\ pc' = "drop"
    BY <1>0, <1>1, PendingFields DEF Refuse, TickOK, Pendings, Notes, Save, venue
  <2>2. p.oid = None /\ p.terminal = None
    BY <1>0, <2>1, PendingFields DEF TickOK, Pendings
  <2>3. Ledgers' /\ Mine' = Mine /\ Quiet /\ pending' = p /\ pending' # None
    BY <2>1, NotesKeep
  <2>4. TickOK' /\ OneAtATime'
    <3> HIDE DEF p
    <3> QED BY <1>0, <2>1, <2>2, <2>3 DEF TickOK, OneAtATime, Gone
  <2> QED BY <2>3, <2>4 DEF LedgerInv, Ledgers
<1>2. CASE Ambiguous
  <2> DEFINE p == [pending EXCEPT !.outcome = "unknown"]
  <2>1. Notes(p) /\ wire' = wire /\ pc = "sent" /\ pc' = "idle" /\ lag' = lag
    BY <1>0, <1>2, PendingFields DEF Ambiguous, TickOK, Pendings, Notes, Save, venue
  <2>2. p.oid = None /\ p.terminal = None /\ p.outcome = "unknown" /\ p.misses = pending.misses
    BY <1>0, <2>1, PendingFields DEF TickOK, Pendings
  <2>3. Ledgers' /\ Mine' = Mine /\ Quiet /\ pending' = p /\ pending' # None
    BY <2>1, NotesKeep
  <2>4. TickOK' /\ OneAtATime'
    <3> HIDE DEF p
    <3> QED BY <1>0, <2>1, <2>2, <2>3 DEF TickOK, OneAtATime, Gone, Notes
  <2> QED BY <2>3, <2>4 DEF LedgerInv, Ledgers
<1>3. ASSUME NEW r \in wire, Rejected(r)
      PROVE  LedgerInv' /\ Quiet
  <2> DEFINE p == [pending EXCEPT !.outcome = "refused"]
  <2>1. Notes(p) /\ wire' = wire \ {r} /\ pc = "sent" /\ pc' = "idle" /\ lag' = lag
    BY <1>0, <1>3, PendingFields DEF Rejected, TickOK, Pendings, Notes, Save
  <2>2. p.oid = None /\ p.terminal = None
    BY <1>0, <2>1, PendingFields DEF TickOK, Pendings
  <2>3. Ledgers' /\ Mine' = Mine /\ Quiet /\ pending' = p /\ pending' # None
    BY <2>1, NotesKeep
  <2>4. wire' = {} /\ Mine = {}
    BY <1>0, <2>1 DEF OneAtATime
  <2>5. TickOK' /\ OneAtATime'
    <3> HIDE DEF p
    <3> QED BY <2>1, <2>2, <2>3, <2>4 DEF TickOK, OneAtATime, Gone
  <2> QED BY <2>3, <2>5 DEF LedgerInv, Ledgers
<1>4. ASSUME NEW o \in Oids, Accepted(o)
      PROVE  LedgerInv' /\ Quiet
  <2> DEFINE p == [pending EXCEPT !.outcome = "accepted", !.oid = o]
  <2>1. Notes(p) /\ wire' = wire /\ pc = "sent" /\ pc' = "idle" /\ o \in Mine
    BY <1>0, <1>4, PendingFields DEF Accepted, TickOK, Pendings, Notes, Save, venue
  <2>2. p.oid = o /\ p.terminal = None /\ p.outcome = "accepted" /\ o # None
    BY <1>0, <2>1, PendingFields DEF TickOK, Pendings
  <2>3. Ledgers' /\ Mine' = Mine /\ Quiet /\ pending' = p /\ pending' # None
    BY <2>1, NotesKeep
  <2>4. TickOK' /\ OneAtATime'
    <3> HIDE DEF p
    <3> QED BY <1>0, <2>1, <2>2, <2>3 DEF TickOK, OneAtATime, Gone
  <2> QED BY <2>3, <2>4 DEF LedgerInv, Ledgers
<1> QED BY <1>1, <1>2, <1>3, <1>4

LEMMA SendLedger ==
  ASSUME LedgerInv, NEW q \in 1..Goal, Send(q), TypeOK'
  PROVE  LedgerInv' /\ Quiet
<1>0. LedgerInv /\ TypeOK /\ TickOK /\ OneAtATime /\ pending # None /\ Gone
  BY DEF LedgerInv, Send, TickOK, OneAtATime
<1>1. /\ wire' = {[cid |-> pending.cid, qty |-> q]} /\ pc = "submit" /\ pc' = "sent"
      /\ disk' = disk /\ orders' = orders /\ bought' = bought /\ lag' = lag
      /\ pending' = pending /\ lag \in Nat
  BY <1>0 DEF Send, Gone, pending, TypeOK
<1>2. Mine' = Mine /\ Placed' = Placed /\ Open' = Open /\ Part' = Part
  BY <1>1 DEF Mine, PlacedUnder, Placed, Open, Part, BoughtBy
<1>3. q <= pending.cid.owed
  BY <1>0 DEF Send, LedgerInv, IdsOrdered
<1>4. OrdersOK' /\ FreshClientIds'
  BY <1>1, <1>2, <1>3 DEF LedgerInv, OrdersOK, FreshClientIds
<1>5. LiveOrdersAreTracked' /\ IdsOrdered' /\ LedgerExact'
  BY <1>0, <1>1, <1>2 DEF LedgerInv, LiveOrdersAreTracked, IdsOrdered, LedgerExact
<1>6. TickOK' /\ OneAtATime'
  BY <1>0, <1>1, <1>2 DEF TickOK, OneAtATime, Gone
<1> QED BY <1>1, <1>2, <1>4, <1>5, <1>6 DEF LedgerInv, Quiet

LEMMA LookupLedger ==
  ASSUME Careful, LedgerInv, TypeOK',
         \/ LookupError \/ LookupMissing
         \/ \E o \in Oids : LookupFound(o)
  PROVE  LedgerInv' /\ Quiet
<1>0. LedgerInv /\ TypeOK /\ TickOK /\ OneAtATime /\ LiveOrdersAreTracked
  BY DEF LedgerInv
<1>1. CASE LookupError
  BY <1>1 DEF LookupError, Careful
<1>2. CASE LookupMissing
  <2> DEFINE m == IF pending.misses < MissingConfirmations THEN pending.misses + 1
                                                           ELSE pending.misses
             p == [pending EXCEPT !.misses = m]
  <2>1. m \in 0..MissingConfirmations /\ m <= pending.misses + 1 /\ pending.misses \in Nat
        /\ pending \in Pendings /\ lag \in Nat /\ lag' \in Nat
    BY <1>0, <1>2, PendingFields DEF LookupMissing, Unidentified, TypeOK
  <2>2. Notes(p) /\ wire' = wire /\ pc = "idle"
    <3>1. p \in Pendings /\ p.cid = pending.cid
      BY <2>1 DEF Pendings
    <3> QED BY <1>2, <3>1 DEF LookupMissing, Unidentified, Notes, Save, venue
  <2>3. p.oid = None /\ p.terminal = None /\ p.outcome # "refused" /\ p.misses = m
    BY <1>2, <2>1 DEF LookupMissing, Unidentified, Pendings
  <2>4. Ledgers' /\ Mine' = Mine /\ Quiet /\ pending' = p /\ pending' # None
    BY <2>2, NotesKeep
  <2>5. Gone \/ (m <= lag' /\ m < MissingConfirmations)
    <3>1. CASE Mine = {} /\ \A r \in wire : r.cid # pending.cid
      BY <1>0, <3>1 DEF LiveOrdersAreTracked, Gone
    <3>2. CASE lag < Lag /\ lag' = lag + 1 /\ ~Gone
      <4>1. pending.misses <= lag
        BY <1>0, <1>2, <3>2 DEF LookupMissing, Unidentified, OneAtATime
      <4> QED BY <2>1, <3>2, <4>1 DEF Careful
    <3> QED BY <1>2, <3>1, <3>2 DEF LookupMissing
  <2>6. pc' = IF m < MissingConfirmations THEN "idle" ELSE "clear"
    BY <1>2 DEF LookupMissing
  <2>7. TickOK' /\ OneAtATime'
    <3> HIDE DEF p, m
    <3> QED BY <1>0, <2>2, <2>3, <2>4, <2>5, <2>6 DEF TickOK, OneAtATime, Gone
  <2> QED BY <2>4, <2>7 DEF LedgerInv, Ledgers
<1>3. ASSUME NEW o \in Oids, LookupFound(o)
      PROVE  LedgerInv' /\ Quiet
  <2> DEFINE p == [pending EXCEPT !.oid = o, !.misses = 0]
  <2>1. pending \in Pendings /\ pending # None
    BY <1>0, <1>3, PendingFields DEF LookupFound, Unidentified
  <2>2. Notes(p) /\ wire' = wire /\ pc' = "status" /\ o \in Mine
    <3>1. 0 \in 0..MissingConfirmations
      OBVIOUS
    <3>2. p \in Pendings /\ p.cid = pending.cid
      BY <2>1, <3>1 DEF Pendings
    <3> QED BY <1>3, <2>1, <3>2 DEF LookupFound, Notes, Save, venue
  <2>3. p.oid = o /\ p.terminal = None /\ p.outcome # "refused" /\ o # None
    BY <1>3, <2>1 DEF LookupFound, Unidentified, Pendings
  <2>4. Ledgers' /\ Mine' = Mine /\ Quiet /\ pending' = p /\ pending' # None
    BY <2>2, NotesKeep
  <2>5. TickOK' /\ OneAtATime'
    <3> HIDE DEF p
    <3> QED BY <1>0, <2>2, <2>3, <2>4 DEF TickOK, OneAtATime, Gone
  <2> QED BY <2>4, <2>5 DEF LedgerInv, Ledgers
<1> QED BY <1>1, <1>2, <1>3

\* The order behind a status question is the one that may still be open.
LEMMA AskedOrder ==
  ASSUME LedgerInv, pending # None, pending.oid # None
  PROVE  /\ pending.oid \in Mine /\ Mine = {pending.oid} /\ wire = {}
         /\ Part = orders[pending.oid].filled
         /\ orders[pending.oid] \in Placements /\ orders[pending.oid].cid = pending.cid
         /\ pending.outcome # "refused"
<1>1. pending.oid \in Mine
  BY DEF LedgerInv, OneAtATime
<1> QED BY <1>1, PartOfMine, KnownOrder DEF LedgerInv, OneAtATime, Gone

LEMMA StatusLedger ==
  ASSUME LedgerInv, StatusTerminal \/ StatusOpen, TypeOK'
  PROVE  LedgerInv' /\ Quiet
<1>0. LedgerInv /\ TypeOK /\ TickOK /\ OneAtATime /\ pending # None /\ pending.oid # None
      /\ pending.terminal = None /\ pending \in Pendings /\ pending.outcome # "refused"
  BY AskedOrder, PendingFields DEF LedgerInv, StatusTerminal, StatusOpen, AsksStatus
<1>1. CASE StatusTerminal
  <2> DEFINE p == [pending EXCEPT !.terminal = orders[pending.oid].status]
  <2>1. Notes(p) /\ wire' = wire /\ pc' = "idle"
    <3>1. p \in Pendings /\ p.cid = pending.cid
      BY <1>0, <1>1 DEF StatusTerminal, Pendings
    <3> QED BY <1>0, <1>1, <3>1 DEF StatusTerminal, Notes, Save, venue
  <2>2. p.oid = pending.oid /\ p.terminal = orders[pending.oid].status
        /\ p.outcome = pending.outcome
    BY <1>0 DEF Pendings
  <2>3. Ledgers' /\ Mine' = Mine /\ Quiet /\ pending' = p /\ pending' # None
    BY <2>1, NotesKeep
  <2>4. TickOK' /\ OneAtATime'
    <3> HIDE DEF p
    <3> QED BY <1>0, <2>1, <2>2, <2>3 DEF TickOK, OneAtATime, Gone, Notes
  <2> QED BY <2>3, <2>4 DEF LedgerInv, Ledgers
<1>2. CASE StatusOpen /\ disk' = disk
  <2> DEFINE p == pending
  <2>1. Notes(p) /\ wire' = wire
    BY <1>0, <1>2 DEF StatusOpen, Notes, venue, TypeOK, States, pending
  <2>2. Ledgers' /\ Mine' = Mine /\ Quiet /\ pending' = p /\ pending' # None
    BY <2>1, NotesKeep
  <2>3. orders' = orders /\ lag' = lag /\ pc' \in {"idle", "cancel"}
    BY <1>2 DEF StatusOpen, venue
  <2>4. TickOK' /\ OneAtATime'
    BY <1>0, <2>1, <2>2, <2>3 DEF TickOK, OneAtATime, Gone
  <2> QED BY <2>2, <2>4 DEF LedgerInv, Ledgers
<1>3. CASE StatusOpen /\ Save([pending EXCEPT !.cancelTried = TRUE])
  <2> DEFINE p == [pending EXCEPT !.cancelTried = TRUE]
  <2>1. Notes(p) /\ wire' = wire
    <3>1. p \in Pendings /\ p.cid = pending.cid
      BY <1>0 DEF Pendings
    <3> QED BY <1>0, <1>3, <3>1 DEF StatusOpen, Notes, Save, venue
  <2>2. p.oid = pending.oid /\ p.terminal = None /\ p.outcome = pending.outcome
    BY <1>0 DEF Pendings
  <2>3. Ledgers' /\ Mine' = Mine /\ Quiet /\ pending' = p /\ pending' # None
    BY <2>1, NotesKeep
  <2>4. orders' = orders /\ lag' = lag /\ pc' \in {"idle", "cancel"}
    BY <1>3 DEF StatusOpen, venue
  <2>5. TickOK' /\ OneAtATime'
    <3> HIDE DEF p
    <3> QED BY <1>0, <2>1, <2>2, <2>3, <2>4 DEF TickOK, OneAtATime, Gone
  <2> QED BY <2>3, <2>5 DEF LedgerInv, Ledgers
<1> QED BY <1>1, <1>2, <1>3 DEF StatusOpen

\* An open order is the one of the pending intent, which is not over in the file.
LEMMA OpenOrder ==
  ASSUME LedgerInv, NEW o \in Open
  PROVE  /\ pending # None /\ pending.terminal = None /\ Mine = {o} /\ Open = {o}
         /\ wire = {} /\ Part = orders[o].filled
         /\ orders[o] \in Placements /\ orders[o].cid = pending.cid
<1>1. o \in Mine /\ pending # None /\ orders[o].cid = pending.cid
  BY DEF LedgerInv, LiveOrdersAreTracked, Mine, PlacedUnder
<1>2. Mine = {o} /\ Open = {o} /\ wire = {} /\ Part = orders[o].filled
  BY <1>1, PartOfMine DEF LedgerInv, LiveOrdersAreTracked, OneAtATime
<1>3. orders[o] \in Placements
  BY DEF LedgerInv, TypeOK, Open, Orders, NoOrder
<1>4. pending.terminal = None
  <2>1. pending.terminal # None => orders[o].status = pending.terminal
    BY <1>1, <1>2 DEF LedgerInv, OneAtATime
  <2>2. pending.terminal \in Over \cup {None} /\ "open" \notin Over
    BY <1>1, PendingFields DEF LedgerInv, Pendings, Over
  <2> QED BY <2>1, <2>2 DEF Open
<1> QED BY <1>1, <1>2, <1>3, <1>4

LEMMA OrderEnds ==
  ASSUME LedgerInv, NEW o \in Open, disk' = disk, wire' = wire, bought' = bought,
         orders' = [orders EXCEPT ![o].status = "canceled"]
  PROVE  Ledgers' /\ Mine' = Mine /\ Part' = Part /\ Open' = {} /\ pending' = pending
<1>1. /\ pending # None /\ pending.terminal = None /\ Mine = {o} /\ Open = {o}
      /\ wire = {} /\ Part = orders[o].filled
      /\ orders[o] \in Placements /\ orders[o].cid = pending.cid
  BY OpenOrder
<1>2. /\ \A x \in Oids : x # o => orders'[x] = orders[x]
      /\ orders'[o].status = "canceled" /\ orders'[o].cid = orders[o].cid
      /\ orders'[o].qty = orders[o].qty /\ orders'[o].filled = orders[o].filled
      /\ o \in Oids /\ orders[o].status = "open" /\ pending' = pending
  BY <1>1 DEF LedgerInv, TypeOK, Open, Placements, pending
<1>3. Placed' = Placed /\ Mine' = Mine /\ Open' = {}
  BY <1>1, <1>2 DEF Placed, Mine, PlacedUnder, Open
<1>4. Part' = Part
  <2>1. BoughtBy(orders', {o}) = orders'[o].filled
    BY BoughtByOne
  <2> QED BY <1>1, <1>2, <1>3, <2>1 DEF Part
<1>5. OrdersOK' /\ FreshClientIds'
  BY <1>1, <1>2, <1>3 DEF LedgerInv, OrdersOK, FreshClientIds, Placed
<1>6. LiveOrdersAreTracked' /\ IdsOrdered'
  BY <1>1, <1>2, <1>3 DEF LedgerInv, LiveOrdersAreTracked, IdsOrdered, Placed
<1>7. LedgerExact'
  BY <1>4 DEF LedgerInv, LedgerExact
<1> QED BY <1>2, <1>3, <1>4, <1>5, <1>6, <1>7 DEF Ledgers

LEMMA EndLedger ==
  ASSUME LedgerInv, Cancel \/ \E o \in Oids : Expire(o), TypeOK'
  PROVE  /\ LedgerInv' /\ Part' = Part /\ UNCHANGED <<disk, bought>>
         /\ Open' = Open \/ (Open # {} /\ Open' = {})
<1>0. LedgerInv /\ TickOK /\ OneAtATime
  BY DEF LedgerInv
<1>1. ASSUME NEW o \in Open, orders' = [orders EXCEPT ![o].status = "canceled"],
             pc' = pc \/ (pc = "cancel" /\ pc' \in {"status", "idle"}),
             UNCHANGED <<disk, count, wire, bought, lag, failures>>
      PROVE  LedgerInv' /\ Part' = Part /\ Open # {} /\ Open' = {}
  <2>2. Ledgers' /\ Mine' = Mine /\ Part' = Part /\ Open' = {} /\ pending' = pending
    BY <1>1, OrderEnds
  <2>3. pending.terminal = None /\ Open # {}
    BY <1>1, OpenOrder
  <2>4. TickOK'
    BY <1>0, <1>1, <2>2 DEF TickOK
  <2>5. OneAtATime'
    BY <1>0, <1>1, <2>2, <2>3 DEF OneAtATime, Gone
  <2> QED BY <1>1, <2>2, <2>3, <2>4, <2>5 DEF LedgerInv, Ledgers
<1>2. CASE Cancel /\ orders' = orders /\ pc' = "idle"
  <2>1. /\ UNCHANGED <<disk, count, wire, bought, lag, orders>> /\ pending' = pending
        /\ Mine' = Mine /\ Open' = Open /\ Placed' = Placed /\ Part' = Part
    BY <1>2 DEF Cancel, pending, Mine, PlacedUnder, Open, Placed, Part, BoughtBy
  <2>2. Ledgers'
    BY <2>1 DEF LedgerInv, Ledgers, OrdersOK, LiveOrdersAreTracked, IdsOrdered,
                FreshClientIds, LedgerExact
  <2>3. TickOK' /\ OneAtATime'
    BY <1>0, <1>2, <2>1 DEF TickOK, OneAtATime, Gone
  <2> QED BY <2>1, <2>2, <2>3 DEF LedgerInv, Ledgers
<1>3. CASE Cancel /\ pending.oid \in Open
  BY <1>1, <1>3 DEF Cancel
<1>4. ASSUME NEW o \in Oids, Expire(o)
      PROVE  LedgerInv' /\ Part' = Part /\ UNCHANGED <<disk, bought>> /\ Open # {} /\ Open' = {}
  BY <1>1, <1>4 DEF Expire
<1> QED BY <1>2, <1>3, <1>4 DEF Cancel

LEMMA FinishLedger ==
  ASSUME LedgerInv, Finish, TypeOK'
  PROVE  /\ LedgerInv' /\ Part' = 0 /\ Open = {} /\ Open' = {} /\ bought' = bought
         /\ IF Part = 0 THEN disk'.owed = disk.owed ELSE disk'.owed \in {disk.owed - Part, 0}
<1> DEFINE o == pending.oid
<1>0. LedgerInv /\ TypeOK /\ TickOK /\ OneAtATime /\ pending # None /\ pending.terminal # None
      /\ o # None /\ orders[o].status = pending.terminal
  BY DEF LedgerInv, Finish, OneAtATime
<1>1. /\ Mine = {o} /\ wire = {} /\ Part = orders[o].filled
      /\ orders[o] \in Placements /\ orders[o].cid = pending.cid
  BY <1>0, AskedOrder
<1>2. Open = {}
  BY <1>0, OpenOrder
<1>3. /\ disk'.pending = None /\ disk'.owed = Remainder /\ disk'.count = RetriesAfter
      /\ pending' = None /\ pc = "idle" /\ pc' = "idle"
      /\ wire' = wire /\ orders' = orders /\ bought' = bought
  BY DEF Finish, venue, pending
<1>4. /\ Remainder \in 0..Goal /\ Part \in 0..disk.owed
      /\ Part = 0 => Remainder = disk.owed /\ pending.terminal # "closed"
      /\ Part > 0 => Remainder \in {disk.owed - Part, 0}
      /\ pending.terminal = "closed" => Remainder = 0
      /\ disk.owed \in 1..Goal /\ disk.count \in Nat
  BY <1>0, <1>1, RemainderTyped, PendingFields DEF LedgerInv, IdsOrdered
<1>5. /\ RetriesAfter \in Nat
      /\ pending.terminal # "closed" =>
           RetriesAfter >= pending.cid.attempt /\ RetriesAfter > disk.count
  BY <1>0, RetriesTyped
<1>6. Mine' = {} /\ Placed' = Placed /\ Open' = {} /\ Part' = 0
  BY <1>2, <1>3 DEF Mine, PlacedUnder, Placed, Open, Part, BoughtBy
<1>7. OrdersOK' /\ FreshClientIds' /\ LiveOrdersAreTracked'
  BY <1>1, <1>3, <1>6 DEF LedgerInv, OrdersOK, FreshClientIds, LiveOrdersAreTracked
<1>8. IdsOrdered'
  <2> SUFFICES ASSUME NEW x \in Placed
               PROVE  orders[x].cid.owed > Remainder \/ orders[x].cid.attempt <= RetriesAfter
    BY <1>3, <1>6 DEF IdsOrdered
  <2>1. orders[x].cid.owed \in 1..Goal /\ orders[x].cid.attempt \in Nat
    BY <1>0 DEF TypeOK, Orders, Placements, Placed, Cids, NoOrder
  <2>2. CASE x = o
    <3>1. orders[x].cid.owed = disk.owed /\ orders[x].cid.attempt = pending.cid.attempt
      BY <1>0, <1>1, <2>2 DEF LedgerInv, IdsOrdered
    <3> QED BY <1>4, <1>5, <2>1, <3>1
  <2>3. CASE x # o
    <3>1. orders[x].cid.owed > disk.owed \/ orders[x].cid.attempt <= disk.count
      BY <1>1, <2>3 DEF LedgerInv, IdsOrdered
    <3> QED BY <1>4, <1>5, <2>1, <3>1
  <2> QED BY <2>2, <2>3
<1>9. LedgerExact'
  <2>1. disk.owed + bought = Goal + Part /\ bought <= Goal /\ bought \in Nat
    BY <1>0, <1>4 DEF LedgerInv, LedgerExact, TypeOK
  <2> QED BY <1>3, <1>4, <1>6, <2>1 DEF LedgerExact
<1>10. TickOK' /\ OneAtATime'
  BY <1>1, <1>3, <1>6 DEF TickOK, OneAtATime, Gone
<1>11. IF Part = 0 THEN disk'.owed = disk.owed ELSE disk'.owed \in {disk.owed - Part, 0}
  BY <1>3, <1>4
<1> QED BY <1>2, <1>3, <1>6, <1>7, <1>8, <1>9, <1>10, <1>11 DEF LedgerInv

LEMMA LandLedger ==
  ASSUME LedgerInv, NEW r \in wire, NEW o \in Oids, Land(r, o), TypeOK'
  PROVE  /\ LedgerInv' /\ Part = 0 /\ Part' = 0 /\ UNCHANGED <<disk, bought>>
         /\ Open = {} /\ Open' # {} /\ disk.owed > 0
<1>0. LedgerInv /\ TypeOK /\ TickOK /\ OneAtATime /\ pending # None /\ r.cid = pending.cid
      /\ wire = {r} /\ Mine = {} /\ Open = {} /\ r \in Requests
  BY DEF LedgerInv, LiveOrdersAreTracked, OneAtATime, TypeOK
<1>1. /\ wire' = {} /\ pending' = pending /\ pc' = pc /\ lag' = lag /\ count' = count
      /\ UNCHANGED <<disk, bought>>
      /\ \A x \in Oids : x # o => orders'[x] = orders[x]
      /\ orders'[o] = [cid |-> r.cid, qty |-> r.qty, filled |-> 0, status |-> "open"]
      /\ o \notin Placed
  BY <1>0 DEF Land, pending, TypeOK, Placed, NoOrder
<1>2. /\ orders'[o].cid = pending.cid /\ orders'[o].qty = r.qty /\ orders'[o].filled = 0
      /\ orders'[o].status = "open" /\ r.qty \in 1..Goal /\ r.qty <= pending.cid.owed
  BY <1>0, <1>1 DEF LedgerInv, OrdersOK, Requests
<1>3. /\ Placed' = Placed \cup {o} /\ Mine' = {o} /\ Open' = {o}
  BY <1>0, <1>1, <1>2 DEF Placed, Mine, PlacedUnder, Open
<1>4. Part = 0 /\ Part' = 0
  <2>1. BoughtBy(orders', {o}) = orders'[o].filled
    BY BoughtByOne
  <2> QED BY <1>0, <1>2, <1>3, <2>1 DEF Part, BoughtBy
<1>5. OrdersOK'
  BY <1>1, <1>2, <1>3 DEF LedgerInv, OrdersOK, Placed
<1>6. FreshClientIds'
  <2>1. \A x \in Placed : orders[x].cid # pending.cid
    BY <1>0 DEF Mine, PlacedUnder, Placed
  <2> QED BY <1>1, <1>2, <1>3, <2>1 DEF LedgerInv, FreshClientIds, Placed
<1>7. LiveOrdersAreTracked' /\ IdsOrdered'
  BY <1>0, <1>1, <1>2, <1>3 DEF LedgerInv, LiveOrdersAreTracked, IdsOrdered, Placed
<1>8. LedgerExact'
  BY <1>1, <1>4 DEF LedgerInv, LedgerExact
<1>9. TickOK' /\ OneAtATime'
  BY <1>0, <1>1, <1>2, <1>3 DEF LedgerInv, TickOK, OneAtATime, Gone
<1>10. disk.owed > 0
  BY <1>0, PendingFields DEF LedgerInv, IdsOrdered
<1> QED BY <1>0, <1>1, <1>3, <1>4, <1>5, <1>6, <1>7, <1>8, <1>9, <1>10 DEF LedgerInv

LEMMA FillLedger ==
  ASSUME LedgerInv, NEW o \in Oids, NEW k \in 1..Goal, Fill(o, k), TypeOK'
  PROVE  /\ LedgerInv' /\ Open # {} /\ disk' = disk
         /\ bought' = bought + k /\ Part' = Part + k /\ k \in 1..(disk.owed - Part)
<1>0. LedgerInv /\ TypeOK /\ TickOK /\ OneAtATime
      /\ o \in Open /\ k <= orders[o].qty - orders[o].filled
  BY DEF LedgerInv, Fill
<1>1. /\ pending # None /\ pending.terminal = None /\ Mine = {o} /\ Open = {o}
      /\ wire = {} /\ Part = orders[o].filled
      /\ orders[o] \in Placements /\ orders[o].cid = pending.cid
  BY <1>0, OpenOrder
<1>2. /\ \A x \in Oids : x # o => orders'[x] = orders[x]
      /\ orders'[o].status = IF orders[o].filled + k = orders[o].qty THEN "closed" ELSE "open"
      /\ orders'[o].cid = orders[o].cid
      /\ orders'[o].qty = orders[o].qty /\ orders'[o].filled = orders[o].filled + k
      /\ UNCHANGED <<disk, count, pc, wire, lag>> /\ pending' = pending /\ bought' = bought + k
  BY <1>0, <1>1 DEF Fill, TypeOK, Placements, pending
<1>3. /\ orders[o].filled \in Nat /\ orders[o].qty \in Nat /\ orders[o].qty <= disk.owed
      /\ disk.owed \in 1..Goal /\ disk.owed = pending.cid.owed /\ orders[o].status = "open"
  BY <1>0, <1>1, PendingFields DEF LedgerInv, OrdersOK, IdsOrdered, Placements, Open, Placed
<1>4. Placed' = Placed /\ Mine' = Mine /\ Open' \subseteq {o}
  BY <1>1, <1>2, <1>3 DEF Placed, Mine, PlacedUnder, Open
<1>5. Part' = Part + k /\ k \in 1..(disk.owed - Part)
  <2>1. BoughtBy(orders', {o}) = orders'[o].filled
    BY BoughtByOne
  <2> QED BY <1>0, <1>1, <1>2, <1>3, <1>4, <2>1 DEF Part
<1>6. OrdersOK'
  <2>1. orders'[o].filled <= orders'[o].qty
    BY <1>0, <1>2, <1>3
  <2> QED BY <1>1, <1>2, <1>3, <1>4, <2>1 DEF LedgerInv, OrdersOK, Placed
<1>7. FreshClientIds'
  BY <1>1, <1>2, <1>4 DEF LedgerInv, FreshClientIds, Placed
<1>8. LiveOrdersAreTracked' /\ IdsOrdered'
  BY <1>1, <1>2, <1>4 DEF LedgerInv, LiveOrdersAreTracked, IdsOrdered, Placed
<1>9. LedgerExact'
  <2>1. disk.owed + bought = Goal + Part /\ bought \in Nat /\ Part \in Nat
    BY <1>0, <1>1, <1>3 DEF LedgerInv, LedgerExact, TypeOK
  <2> QED BY <1>2, <1>3, <1>5, <2>1 DEF LedgerExact
<1>10. TickOK' /\ OneAtATime'
  BY <1>0, <1>1, <1>2, <1>4 DEF TickOK, OneAtATime, Gone
<1> QED BY <1>1, <1>2, <1>5, <1>6, <1>7, <1>8, <1>9, <1>10 DEF LedgerInv

\* Lost requests, failures, and steps that change nothing
LEMMA LossLedger ==
  ASSUME LedgerInv, TypeOK',
         \/ FinishUnsaved \/ Abort \/ Crash \/ UNCHANGED vars
         \/ \E r \in wire : Lose(r)
  PROVE  LedgerInv' /\ Part' = Part /\ Open' = Open /\ UNCHANGED <<disk, bought>>
<1>1. /\ UNCHANGED <<disk, orders, bought, lag>> /\ wire' \subseteq wire
      /\ (pc' = "idle" \/ (pc' = pc /\ count' = count))
  BY DEF FinishUnsaved, Abort, Crash, Lose, vars, venue
<1>2. pending' = pending /\ Mine' = Mine /\ Open' = Open /\ Placed' = Placed /\ Part' = Part
  BY <1>1 DEF pending, Mine, PlacedUnder, Open, Placed, Part, BoughtBy
<1>3. Ledgers'
  BY <1>1, <1>2 DEF LedgerInv, Ledgers, OrdersOK, LiveOrdersAreTracked, IdsOrdered,
                    FreshClientIds, LedgerExact
<1>4. TickOK' /\ OneAtATime'
  BY <1>1, <1>2 DEF LedgerInv, TickOK, OneAtATime, Gone
<1> QED BY <1>1, <1>2, <1>3, <1>4 DEF LedgerInv, Ledgers

LEMMA LedgerInit == Init => LedgerInv
<1> SUFFICES ASSUME Init PROVE LedgerInv
  OBVIOUS
<1>1. pending = None /\ Placed = {} /\ Mine = {} /\ Open = {} /\ Part = 0
  BY DEF Init, pending, Placed, Mine, PlacedUnder, Open, Part, BoughtBy, NoOrder
<1>2. TypeOK
  BY DEF Init, TypeOK, States, Pcs, Orders
<1>3. TickOK /\ OrdersOK /\ LiveOrdersAreTracked /\ OneAtATime /\ IdsOrdered
      /\ FreshClientIds /\ LedgerExact
  BY <1>1 DEF Init, TickOK, OrdersOK, LiveOrdersAreTracked, OneAtATime, Gone, IdsOrdered,
              FreshClientIds, LedgerExact
<1> QED BY <1>2, <1>3 DEF LedgerInv

LEMMA NextTyped ==
  ASSUME BookInv, [Next]_vars
  PROVE  TypeOK'
<1>1. CASE UNCHANGED vars
  BY <1>1 DEF vars, BookInv, TypeOK
<1> QED BY <1>1, TickTyped, VenueTyped, FailuresTyped DEF BookInv, Next

\* A save of an intent puts that intent in the file.
LEMMA Saved ==
  ASSUME TypeOK, NEW p \in Pendings, Save(p)
  PROVE  pending' = p /\ pending' # None
BY DEF TypeOK, States, Save, pending

\* The file keeps its order, and orders keep what was booked of them.
LEMMA BookKept ==
  ASSUME BookInv, TypeOK', TickOK',
         Placed \subseteq Placed',
         \A o \in Placed' : orders'[o].filled <= orders'[o].qty,
         \A o \in Placed : orders[o].status \in Over => orders'[o].status = orders[o].status,
         disk' = disk
  PROVE  BookInv'
<1>1. pending' = pending /\ (pending # None => pending.terminal \in Over \cup {None})
  <2>1. TypeOK
    BY DEF BookInv
  <2> QED BY <2>1, PendingFields DEF Pendings, pending
<1>2. KnownOK'
  BY <1>1 DEF BookInv, KnownOK
<1> QED BY <1>2 DEF BookInv

\* The venue's orders do not move, and the intent stays or names one of them.
LEMMA BookStill ==
  ASSUME BookInv, TypeOK', TickOK', orders' = orders,
         \/ pending' = None
         \/ /\ pending # None
            /\ pending'.oid = pending.oid /\ pending'.terminal = pending.terminal
         \/ /\ pending'.oid # None => pending'.oid \in Placed
            /\ pending'.terminal # None =>
                 /\ pending'.oid # None
                 /\ orders[pending'.oid].status = pending'.terminal
  PROVE  BookInv'
<1>1. Placed' = Placed
  BY DEF Placed
<1>2. KnownOK'
  BY <1>1 DEF BookInv, KnownOK
<1> QED BY <1>1, <1>2 DEF BookInv

\* An intent is made, or one whose order is not known yet is sent or looked up.
LEMMA SubmitBooks ==
  ASSUME BookInv, TypeOK',
         \/ \E p \in Prices : Begin(p)
         \/ \E q \in 1..Goal : Send(q)
         \/ \E r \in wire : Rejected(r)
         \/ Refuse \/ Ambiguous \/ LookupError \/ LookupMissing
  PROVE  BookInv' /\ ~(pending # None /\ pending' = None)
<1>0. TypeOK /\ TickOK
  BY DEF BookInv
<1>1. /\ orders' = orders /\ pc' \in {"submit", "sent", "drop", "idle", "clear"}
      /\ pending' # None /\ pending'.oid = None /\ pending'.terminal = None
      /\ pc' \in {"submit", "sent"} => pending'.misses = 0 /\ pending'.outcome = "none"
  <2>1. ASSUME NEW p \in Prices, Begin(p)
        PROVE  <1>1!:
    <3> DEFINE c == [owed |-> disk.owed, price |-> p, attempt |-> Max2(count, disk.count) + 1]
               new == [cid |-> c, outcome |-> "none", oid |-> None, misses |-> 0,
                       terminal |-> None, cancelTried |-> FALSE]
    <3>1. c \in Cids
      BY <1>0, <2>1 DEF Begin, TypeOK, States, Max2, Cids
    <3>2. Save(new) /\ orders' = orders /\ pc' = "submit"
      BY <2>1 DEF Begin
    <3> HIDE DEF c
    <3>3. new \in Pendings
      BY <3>1, NewIntent
    <3>4. new.oid = None /\ new.terminal = None /\ new.misses = 0 /\ new.outcome = "none"
      OBVIOUS
    <3> HIDE DEF new
    <3> QED BY <1>0, <3>2, <3>3, <3>4, Saved
  <2>2. CASE (\E q \in 1..Goal : Send(q)) \/ LookupError
    BY <1>0, <2>2 DEF Send, LookupError, Unidentified, TickOK, pending, venue
  <2>3. ASSUME NEW w \in {"unknown", "refused"}, pending # None, pending.oid = None,
               pending.terminal = None, Save([pending EXCEPT !.outcome = w]),
               orders' = orders, pc' \in {"drop", "idle"}
        PROVE  <1>1!:
    <3>1. pending \in Pendings
      BY <1>0, <2>3, PendingFields
    <3>2. [pending EXCEPT !.outcome = w] \in Pendings
      BY <3>1, <2>3 DEF Pendings
    <3>3. pending' = [pending EXCEPT !.outcome = w] /\ pending' # None
      BY <1>0, <2>3, <3>2, Saved
    <3> QED BY <2>3, <3>1, <3>3 DEF Pendings
  <2>4. CASE Refuse \/ Ambiguous \/ \E r \in wire : Rejected(r)
    BY <1>0, <2>3, <2>4 DEF Refuse, Ambiguous, Rejected, TickOK, venue
  <2>5. CASE LookupMissing
    <3> DEFINE m == IF pending.misses < MissingConfirmations THEN pending.misses + 1
                                                             ELSE pending.misses
    <3>1. /\ Save([pending EXCEPT !.misses = m]) /\ orders' = orders /\ pc' \in {"idle", "clear"}
          /\ pending # None /\ pending.oid = None /\ pending.terminal = None
      BY <2>5 DEF LookupMissing, Unidentified, venue
    <3>2. pending \in Pendings /\ m \in 0..MissingConfirmations
      BY <1>0, <3>1, PendingFields
    <3> HIDE DEF m
    <3>3. [pending EXCEPT !.misses = m] \in Pendings
      BY <3>2 DEF Pendings
    <3>4. pending' = [pending EXCEPT !.misses = m] /\ pending' # None
      BY <1>0, <3>1, <3>3, Saved
    <3> QED BY <3>1, <3>2, <3>4 DEF Pendings
  <2> QED BY <2>1, <2>2, <2>4, <2>5
<1>2. TickOK'
  BY <1>1 DEF TickOK
<1> QED BY <1>1, <1>2, BookStill

\* The order becomes known, or is over, or waits, or is to be canceled.
LEMMA StatusBooks ==
  ASSUME BookInv, TypeOK', StatusTerminal \/ StatusOpen \/ \E o \in Oids : Accepted(o) \/ LookupFound(o)
  PROVE  BookInv' /\ ~(pending # None /\ pending' = None)
<1>0. TypeOK /\ TickOK /\ KnownOK
  BY DEF BookInv
<1>1. orders' = orders /\ pc' \in {"idle", "status", "cancel"} /\ pending # None
      /\ pending \in Pendings /\ pending.terminal = None
  BY <1>0, PendingFields DEF StatusTerminal, StatusOpen, Accepted, LookupFound, AsksStatus,
     Unidentified, TickOK, venue
<1>2. CASE StatusTerminal
  <2> DEFINE s == orders[pending.oid].status
  <2>1. pending.oid # None /\ s \in Over /\ Save([pending EXCEPT !.terminal = s]) /\ pc' = "idle"
    BY <1>2 DEF StatusTerminal, AsksStatus
  <2> HIDE DEF s
  <2>2. [pending EXCEPT !.terminal = s] \in Pendings
    BY <1>1, <2>1 DEF Pendings
  <2>3. pending' = [pending EXCEPT !.terminal = s] /\ pending' # None
    BY <1>0, <2>1, <2>2, Saved
  <2>4. pending'.terminal = s /\ pending'.oid = pending.oid
    BY <1>1, <2>3 DEF Pendings
  <2>5. TickOK'
    BY <2>1 DEF TickOK
  <2> QED BY <1>0, <1>1, <2>1, <2>3, <2>4, <2>5, BookStill DEF KnownOK, s
<1>3. CASE StatusOpen
  <2>1. /\ pending' # None /\ pending'.oid = pending.oid /\ pending'.terminal = pending.terminal
        /\ pending.oid # None /\ pc' \in {"idle", "cancel"}
    <3>1. [pending EXCEPT !.cancelTried = TRUE] \in Pendings
      BY <1>1 DEF Pendings
    <3>2. [pending EXCEPT !.cancelTried = TRUE].oid = pending.oid
          /\ [pending EXCEPT !.cancelTried = TRUE].terminal = pending.terminal
      BY <1>1 DEF Pendings
    <3>3. CASE UNCHANGED disk
      BY <1>1, <1>3, <3>3 DEF StatusOpen, AsksStatus, pending
    <3>4. CASE Save([pending EXCEPT !.cancelTried = TRUE])
      BY <1>0, <1>3, <3>1, <3>2, <3>4, Saved DEF StatusOpen, AsksStatus
    <3> QED BY <1>3, <3>3, <3>4 DEF StatusOpen
  <2>2. TickOK'
    BY <1>1, <2>1 DEF TickOK
  <2> QED BY <1>1, <2>1, <2>2, BookStill
<1>4. ASSUME NEW o \in Oids, Accepted(o) \/ LookupFound(o)
      PROVE  BookInv' /\ ~(pending # None /\ pending' = None)
  <2>1. o \in Placed /\ pc' \in {"idle", "status"} /\ o # None
    BY <1>4 DEF Accepted, LookupFound, Mine, PlacedUnder, Placed
  <2>2. pending' # None /\ pending'.oid = o /\ pending'.terminal = None
    <3>1. [pending EXCEPT !.outcome = "accepted", !.oid = o] \in Pendings
      BY <1>1 DEF Pendings
    <3>2. [pending EXCEPT !.oid = o, !.misses = 0] \in Pendings
      <4>1. 0 \in 0..MissingConfirmations
        OBVIOUS
      <4> QED BY <1>1, <4>1 DEF Pendings
    <3>3. /\ [pending EXCEPT !.outcome = "accepted", !.oid = o].oid = o
          /\ [pending EXCEPT !.outcome = "accepted", !.oid = o].terminal = pending.terminal
          /\ [pending EXCEPT !.oid = o, !.misses = 0].oid = o
          /\ [pending EXCEPT !.oid = o, !.misses = 0].terminal = pending.terminal
      BY <1>1 DEF Pendings
    <3> QED BY <1>0, <1>1, <1>4, <3>1, <3>2, <3>3, Saved DEF Accepted, LookupFound
  <2>3. TickOK'
    BY <2>1, <2>2 DEF TickOK
  <2> QED BY <1>1, <2>1, <2>2, <2>3, BookStill
<1> QED BY <1>2, <1>3, <1>4

\* The file forgets its intent: without an order, or with all that its order bought.
LEMMA ForgetBooks ==
  ASSUME BookInv, TypeOK', Drop \/ Clear \/ Bump \/ Finish
  PROVE  /\ BookInv' /\ pending' = None
         /\ pending # None /\ pending.oid # None => Finish
<1>0. TypeOK /\ TickOK
  BY DEF BookInv
<1>1. orders' = orders /\ pending' = None
  BY <1>0 DEF Drop, Clear, Bump, Finish, Save, TypeOK, States, TickOK, pending, venue
<1>2. TickOK'
  <2>1. CASE Clear
    <3>1. count' >= disk'.count /\ pc' = "bump"
      BY <1>0, <2>1, PendingFields DEF Clear, Save, TickOK, TypeOK, States, Max2
    <3> QED BY <1>1, <3>1 DEF TickOK
  <2>2. CASE Drop \/ Bump \/ Finish
    <3>1. pc' = "idle"
      BY <2>2 DEF Drop, Bump, Finish
    <3> QED BY <3>1 DEF TickOK
  <2> QED BY <2>1, <2>2
<1>3. pending # None /\ pending.oid # None => Finish
  BY <1>0 DEF Drop, Clear, Bump, TickOK
<1> QED BY <1>1, <1>2, <1>3, BookStill

\* The venue and the cancel move orders, and never one that is over.
LEMMA VenueBooks ==
  ASSUME BookInv, TypeOK', Cancel \/ Venue
  PROVE  BookInv' /\ disk' = disk
<1>0. TypeOK /\ TickOK /\ \A o \in Placed : orders[o].filled <= orders[o].qty
  BY DEF BookInv
<1>1. disk' = disk /\ (Cancel \/ pc' = pc) /\ (Cancel => count' = count)
  BY DEF Cancel, Venue, Land, Lose, Fill, Expire
<1>2. TickOK'
  <2>1. pending' = pending
    BY <1>1 DEF pending
  <2>2. CASE Cancel
    BY <1>0, <1>1, <2>1, <2>2 DEF Cancel, TickOK
  <2>3. CASE Venue
    <3>1. count' = count /\ pc' = pc
      BY <2>3 DEF Venue, Land, Lose, Fill, Expire
    <3> QED BY <1>0, <1>1, <2>1, <3>1 DEF TickOK
  <2> QED BY <2>2, <2>3
<1>3. /\ Placed \subseteq Placed'
      /\ \A o \in Placed' : orders'[o].filled <= orders'[o].qty
      /\ \A o \in Placed : orders[o].status \in Over => orders'[o].status = orders[o].status
  <2>1. ASSUME NEW r \in wire, NEW o \in Oids, Land(r, o)
        PROVE  <1>3!:
    <3>1. orders' = [orders EXCEPT ![o] =
             [cid |-> r.cid, qty |-> r.qty, filled |-> 0, status |-> "open"]]
          /\ orders[o].status = "none" /\ r.qty \in 1..Goal
      BY <1>0, <2>1 DEF Land, NoOrder, TypeOK, Requests
    <3>2. /\ orders'[o].filled = 0 /\ orders'[o].qty = r.qty /\ orders'[o].status = "open"
          /\ \A x \in Oids \ {o} : orders'[x] = orders[x]
      BY <1>0, <3>1 DEF TypeOK
    <3> QED BY <1>0, <3>1, <3>2 DEF Placed, Over
  <2>2. ASSUME NEW r \in wire, Lose(r)
        PROVE  <1>3!:
    BY <1>0, <2>2 DEF Lose, Placed
  <2>3. ASSUME NEW o \in Oids, NEW k \in 1..Goal, Fill(o, k)
        PROVE  <1>3!:
    <3>1. /\ orders'[o].filled = orders[o].filled + k /\ orders'[o].qty = orders[o].qty
          /\ orders'[o].status \in {"open", "closed"}
          /\ \A x \in Oids \ {o} : orders'[x] = orders[x]
          /\ orders[o].status = "open" /\ k <= orders[o].qty - orders[o].filled
          /\ orders[o].qty \in Nat /\ orders[o].filled \in Nat
      BY <1>0, <2>3 DEF Fill, Open, TypeOK, Orders, NoOrder, Placements
    <3> QED BY <1>0, <3>1 DEF Placed, Over
  <2>4. ASSUME NEW o \in Oids, o \in Open,
               orders' = [orders EXCEPT ![o].status = "canceled"]
        PROVE  <1>3!:
    <3>1. /\ orders'[o].filled = orders[o].filled /\ orders'[o].qty = orders[o].qty
          /\ orders'[o].status = "canceled" /\ orders[o].status = "open"
          /\ \A x \in Oids \ {o} : orders'[x] = orders[x]
      BY <1>0, <2>4 DEF Open, TypeOK, Orders, NoOrder, Placements
    <3> QED BY <1>0, <3>1 DEF Placed, Over
  <2>5. CASE Cancel
    <3>1. CASE pending.oid \in Open
      BY <2>4, <2>5, <3>1 DEF Cancel, Open
    <3>2. CASE pending.oid \notin Open
      BY <1>0, <2>5, <3>2 DEF Cancel, Placed
    <3> QED BY <3>1, <3>2
  <2>6. ASSUME NEW o \in Oids, Expire(o)
        PROVE  <1>3!:
    BY <2>4, <2>6 DEF Expire
  <2> QED BY <2>1, <2>2, <2>3, <2>5, <2>6 DEF Venue
<1> QED BY <1>1, <1>2, <1>3, BookKept

\* Failures keep the file.
LEMMA FailuresBook ==
  ASSUME BookInv, TypeOK', FinishUnsaved \/ Abort \/ Crash \/ UNCHANGED vars
  PROVE  BookInv' /\ disk' = disk
<1>0. TypeOK /\ TickOK
  BY DEF BookInv
<1>1. disk' = disk /\ orders' = orders /\ pending' = pending
  BY DEF FinishUnsaved, Abort, Crash, vars, venue, pending
<1>2. TickOK'
  <2>1. CASE UNCHANGED vars
    BY <1>0, <1>1, <2>1 DEF vars, TickOK
  <2>2. CASE FinishUnsaved \/ Abort \/ Crash
    <3>1. pc' = "idle"
      BY <2>2 DEF FinishUnsaved, Abort, Crash
    <3> QED BY <3>1 DEF TickOK
  <2> QED BY <2>1, <2>2
<1>3. pending = None \/ pending # None
  OBVIOUS
<1> QED BY <1>1, <1>2, <1>3, BookStill

\* Every step keeps the invariant, and forgets an intent only by booking its order.
LEMMA BookStep ==
  ASSUME BookInv, [Next]_vars
  PROVE  /\ BookInv'
         /\ pending # None /\ pending.oid # None /\ pending' = None => Finish
<1>0. TypeOK'
  BY NextTyped
<1>1. CASE Cancel \/ Venue \/ FinishUnsaved \/ Abort \/ Crash \/ UNCHANGED vars
  <2>1. BookInv' /\ disk' = disk
    BY <1>0, <1>1, VenueBooks, FailuresBook
  <2> QED BY <2>1 DEF pending
<1>2. CASE \/ \E p \in Prices : Begin(p)
           \/ \E q \in 1..Goal : Send(q)
           \/ \E r \in wire : Rejected(r)
           \/ Refuse \/ Ambiguous \/ LookupError \/ LookupMissing
           \/ StatusTerminal \/ StatusOpen \/ \E o \in Oids : Accepted(o) \/ LookupFound(o)
  BY <1>0, <1>2, SubmitBooks, StatusBooks
<1>3. CASE Drop \/ Clear \/ Bump \/ Finish
  BY <1>0, <1>3, ForgetBooks
<1> QED BY <1>1, <1>2, <1>3 DEF Next, Tick

\* The ledger knows more than the booking needs.
LEMMA LedgerBooks == LedgerInv => BookInv
BY DEF LedgerInv, BookInv, OrdersOK, OneAtATime, KnownOK, Mine, PlacedUnder, Placed

\* A step of RebuyPromise under its refinement mapping, or none
PromiseStep == [Promise!Next]_(Promise!promiseVars)

LEMMA QuietPromise ==
  ASSUME Quiet
  PROVE  PromiseStep
BY DEF Quiet, PromiseStep, Promise!promiseVars

LEMMA LedgerStep ==
  ASSUME Careful, LedgerInv, [Next]_vars
  PROVE  LedgerInv' /\ PromiseStep
<1>0. TypeOK'
  BY LedgerBooks, NextTyped
<1>1. ASSUME NEW p \in Prices, Begin(p)
      PROVE  LedgerInv' /\ PromiseStep
  BY <1>0, <1>1, BeginLedger, QuietPromise
<1>2. CASE Drop \/ Clear \/ Bump
  BY <1>0, <1>2, ForgetLedger, QuietPromise
<1>3. CASE Refuse \/ Ambiguous \/ (\E r \in wire : Rejected(r)) \/ \E o \in Oids : Accepted(o)
  BY <1>0, <1>3, SubmitLedger, QuietPromise
<1>4. ASSUME NEW q \in 1..Goal, Send(q)
      PROVE  LedgerInv' /\ PromiseStep
  BY <1>0, <1>4, SendLedger, QuietPromise
<1>5. CASE LookupError \/ LookupMissing \/ \E o \in Oids : LookupFound(o)
  BY <1>0, <1>5, LookupLedger, QuietPromise
<1>6. CASE StatusTerminal \/ StatusOpen
  BY <1>0, <1>6, StatusLedger, QuietPromise
<1>7. CASE Cancel \/ \E o \in Oids : Expire(o)
  <2>1. /\ LedgerInv' /\ Part' = Part /\ UNCHANGED <<disk, bought>>
        /\ Open' = Open \/ (Open # {} /\ Open' = {})
    BY <1>0, <1>7, EndLedger
  <2>2. CASE Open' = Open
    BY <2>1, <2>2, QuietPromise DEF Quiet
  <2>3. CASE Open # {} /\ Open' = {}
    <3>1. Promise!End
      BY <2>1, <2>3 DEF Promise!End
    <3> QED BY <2>1, <3>1 DEF PromiseStep, Promise!Next
  <2> QED BY <2>1, <2>2, <2>3
<1>8. CASE Finish
  <2>1. /\ LedgerInv' /\ Part' = 0 /\ Open = {} /\ Open' = {} /\ bought' = bought
        /\ IF Part = 0 THEN disk'.owed = disk.owed ELSE disk'.owed \in {disk.owed - Part, 0}
    BY <1>0, <1>8, FinishLedger
  <2>2. CASE Part = 0
    BY <2>1, <2>2, QuietPromise DEF Quiet
  <2>3. CASE Part # 0
    <3>1. Part \in Nat
      BY <1>8, AskedOrder DEF Finish, LedgerInv, OneAtATime, Placements
    <3>2. Promise!Book
      BY <2>1, <2>3, <3>1 DEF Promise!Book
    <3> QED BY <2>1, <3>2 DEF PromiseStep, Promise!Next
  <2> QED BY <2>1, <2>2, <2>3
<1>9. ASSUME NEW r \in wire, NEW o \in Oids, Land(r, o)
      PROVE  LedgerInv' /\ PromiseStep
  <2>1. /\ LedgerInv' /\ Part = 0 /\ Part' = 0 /\ UNCHANGED <<disk, bought>>
        /\ Open = {} /\ Open' # {} /\ disk.owed > 0
    BY <1>0, <1>9, LandLedger
  <2>2. Promise!Start
    BY <2>1 DEF Promise!Start
  <2> QED BY <2>1, <2>2 DEF PromiseStep, Promise!Next
<1>10. ASSUME NEW o \in Oids, NEW k \in 1..Goal, Fill(o, k)
       PROVE  LedgerInv' /\ PromiseStep
  <2>1. /\ LedgerInv' /\ Open # {} /\ disk' = disk
        /\ bought' = bought + k /\ Part' = Part + k /\ k \in 1..(disk.owed - Part)
    BY <1>0, <1>10, FillLedger
  <2>2. Promise!Fill
    BY <2>1 DEF Promise!Fill
  <2> QED BY <2>1, <2>2 DEF PromiseStep, Promise!Next
<1>11. CASE FinishUnsaved \/ Abort \/ Crash \/ UNCHANGED vars \/ \E r \in wire : Lose(r)
  <2>1. LedgerInv' /\ Part' = Part /\ Open' = Open /\ UNCHANGED <<disk, bought>>
    BY <1>0, <1>11, LossLedger
  <2> QED BY <2>1, QuietPromise DEF Quiet
<1> QED BY <1>1, <1>2, <1>3, <1>4, <1>5, <1>6, <1>7, <1>8, <1>9, <1>10, <1>11
        DEF Next, Tick, Venue

--------------------------------------------------------------------------------
(* The theorems *)

\* The invariant holds throughout when lookup errors keep the intent and the
\* confirmations outlast the venue's lag.
THEOREM LedgerInvariant ==
  ASSUME Careful
  PROVE  Spec => []LedgerInv
<1>1. LedgerInv /\ [Next]_vars => LedgerInv'
  BY LedgerStep
<1> QED BY LedgerInit, <1>1, PTL DEF Spec

\* What is known of an intent's order holds under every confirmation policy, also one
\* that resends after a lookup error.
THEOREM BookInvariant == Spec => []BookInv
<1>1. BookInv /\ [Next]_vars => BookInv'
  BY BookStep
<1> QED BY LedgerInit, LedgerBooks, <1>1, PTL DEF Spec

\* Whatever fails, and however hasty the policy is, the state file and the venue keep
\* their types: no quantity owed is negative or above what was sold.
THEOREM LifecycleTyping == Spec => []TypeOK
<1>1. BookInv => TypeOK
  BY DEF BookInv
<1> QED BY BookInvariant, <1>1, PTL

\* Once an order is known, the file forgets its intent only when the order is over, and
\* with all that it bought: no restart, failed save or hasty policy loses a fill of it.
THEOREM KnownIsBooked == Spec => KnownOrderIsBooked
<1>1. ASSUME BookInv, [Next]_vars
      PROVE  (pending # None /\ pending.oid # None /\ disk'.pending = None)
             => LET order == orders[pending.oid]
                IN  /\ order.status \in Over
                    /\ disk'.owed \in {disk.owed - order.filled, 0}
                    /\ order.filled = 0 => disk'.owed = disk.owed
  <2> SUFFICES ASSUME pending # None, pending.oid # None, disk'.pending = None
               PROVE  LET order == orders[pending.oid]
                      IN  /\ order.status \in Over
                          /\ disk'.owed \in {disk.owed - order.filled, 0}
                          /\ order.filled = 0 => disk'.owed = disk.owed
    OBVIOUS
  <2>1. Finish
    BY <1>1, BookStep DEF pending
  <2>2. disk'.owed = Remainder /\ pending.terminal # None
    BY <2>1 DEF Finish
  <2> QED BY <1>1, <2>2, RemainderBooks
<1> QED BY BookInvariant, <1>1, PTL DEF Spec, KnownOrderIsBooked

\* No restart, lost answer or failed save leaves an order trading that the
\* strategy no longer watches.
THEOREM NothingUnwatched ==
  ASSUME Careful
  PROVE  Spec => []LiveOrdersAreTracked
<1>1. LedgerInv => LiveOrdersAreTracked
  BY DEF LedgerInv
<1> QED BY LedgerInvariant, <1>1, PTL

\* Every fill is booked exactly once, and the account never receives more than
\* was sold.
THEOREM FillsAreBookedOnce ==
  ASSUME Careful
  PROVE  Spec => []LedgerExact
<1>1. LedgerInv => LedgerExact
  BY DEF LedgerInv
<1> QED BY LedgerInvariant, <1>1, PTL

\* The retry counter survives what it must survive: ids are never used twice.
THEOREM ClientIdsAreFresh ==
  ASSUME Careful
  PROVE  Spec => []FreshClientIds
<1>1. LedgerInv => FreshClientIds
  BY DEF LedgerInv
<1> QED BY LedgerInvariant, <1>1, PTL

\* The lifecycle implements the promise.
THEOREM LifecycleKeepsPromise ==
  ASSUME Careful
  PROVE  Spec => KeepsPromise
<1>1. Init => Promise!Init
  <2> SUFFICES ASSUME Init PROVE Promise!Init
    OBVIOUS
  <2>1. Open = {} /\ Mine = {}
    BY DEF Init, Open, Mine, PlacedUnder, NoOrder
  <2>2. Part = 0
    BY <2>1 DEF Part, BoughtBy
  <2> QED BY <2>1, <2>2 DEF Init, Promise!Init
<1>2. LedgerInv /\ [Next]_vars => PromiseStep
  BY LedgerStep
<1> QED BY <1>1, <1>2, LedgerInvariant, PTL
        DEF Spec, KeepsPromise, Promise!Spec, PromiseStep
=============================================================================
