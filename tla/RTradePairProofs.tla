-------------------------- MODULE RTradePairProofs --------------------------
(***************************************************************************)
(* One round of the pair coordinator, for any quantity, any number of      *)
(* revisions, orders, crashes, aborted steps and lost answers: what may    *)
(* still trade is in the store, and between two steps the coordinator      *)
(* watches it.                                                             *)
(***************************************************************************)
EXTENDS RTradePairInv, SetLemmas

LEMMA Bounds ==
  /\ Qty \in Nat /\ MaxOrders \in Nat /\ MaxRev \in Nat /\ MaxMishaps \in Nat
  /\ Qty >= 1 /\ MaxOrders >= 1
BY BoundAssumption
--------------------------------------------------------------------------------
(* What the records of the coordinator are made of *)

LEMMA JobIs ==
  ASSUME NEW why \in Purposes, NEW side \in Sides, NEW qty \in Nat, NEW rev \in Nat,
         NEW permit \in BOOLEAN
  PROVE  /\ Job(why, side, qty, rev, permit) \in JobSet
         /\ Job(why, side, qty, rev, permit).why = why
         /\ Job(why, side, qty, rev, permit).side = side
         /\ Job(why, side, qty, rev, permit).qty = qty
         /\ Job(why, side, qty, rev, permit).rev = rev
BY DEF Job, JobSet

LEMMA NoJobIs == NoJob \in JobSet
<1>1. "none" \in Purposes /\ "BUY" \in Sides /\ 0 \in Nat /\ FALSE \in BOOLEAN
  BY DEF Purposes, Sides
<1> QED BY <1>1, JobIs DEF NoJob

LEMMA AtIs ==
  ASSUME NEW where \in Ats, NEW then \in Thens
  PROVE  /\ At(where, then) \in ActSet
         /\ At(where, then).at = where /\ At(where, then).then = then
         /\ At(where, then).i = 1 /\ At(where, then).net = 0
         /\ At(where, then).flag = FALSE
<1>1. NoJob \in JobSet
  BY NoJobIs
<1> QED BY <1>1 DEF At, ActSet

LEMMA SavingIs == Saving \in ActSet /\ Saving.at = "save"
<1>1. "save" \in Ats /\ "none" \in Thens
  BY DEF Ats, Thens
<1> QED BY <1>1, AtIs DEF Saving

LEMMA IdleIs == Idle \in ActSet /\ Idle.at = "idle"
<1>1. "idle" \in Ats /\ "none" \in Thens
  BY DEF Ats, Thens
<1> QED BY <1>1, AtIs DEF Idle

LEMMA PlacingIs ==
  ASSUME NEW j \in JobSet
  PROVE  Placing(j) \in ActSet /\ Placing(j).at = "place" /\ Placing(j).job = j
<1> DEFINE a == At("place", "none")
<1>1. "place" \in Ats /\ "none" \in Thens
  BY DEF Ats, Thens
<1>2. a \in ActSet /\ a.at = "place"
  BY <1>1, AtIs
<1>3. Placing(j) = [a EXCEPT !.job = j]
  BY DEF Placing
<1> HIDE DEF a
<1> QED BY <1>2, <1>3 DEF ActSet

LEMMA CancelingIs ==
  ASSUME NEW then \in Cancels, NEW net \in Int
  PROVE  /\ Canceling(then, net) \in ActSet /\ Canceling(then, net).at = "cancel"
         /\ Canceling(then, net).then = then /\ Canceling(then, net).i = 1
         /\ Canceling(then, net).net = net /\ Canceling(then, net).flag = FALSE
<1> DEFINE a == At("cancel", then)
<1>1. "cancel" \in Ats /\ then \in Thens
  BY DEF Ats, Thens
<1>2. a \in ActSet /\ a.at = "cancel" /\ a.then = then /\ a.i = 1 /\ a.flag = FALSE
  BY <1>1, AtIs
<1>3. Canceling(then, net) = [a EXCEPT !.net = net]
  BY DEF Canceling
<1> HIDE DEF a
<1> QED BY <1>2, <1>3 DEF ActSet
--------------------------------------------------------------------------------
(* What one step leaves of the invariant, part by part *)

\* The venue goes on: slots stay, fills grow, what was lost stays lost.
OrdersGo ==
  /\ orders' \in Seq(OrderSet) /\ Len(orders') = Len(orders) /\ Known' = Known
  /\ \A k \in Known :
       /\ orders'[k].slot = orders[k].slot /\ orders'[k].filled >= orders[k].filled
       /\ OrderSane(k)'
       /\ Works(k)' => Works(k)
       /\ Visible(k) => Visible(k)'
       /\ Lost(k) => Lost(k)'

LEMMA Types ==
  ASSUME StoreInv
  PROVE  /\ Len(orders) \in Nat /\ Known = 1..Len(orders) /\ Known \subseteq Oids
         /\ \A k \in Known : orders[k] \in OrderSet
         /\ act.at \in Ats /\ act.then \in Thens /\ act.i \in Nat \ {0} /\ act.net \in Int
         /\ act.flag \in BOOLEAN /\ act.job \in JobSet
         /\ DOMAIN round.tickets = 1..Len(round.tickets) /\ Len(round.tickets) \in Nat
         /\ \A i \in DOMAIN round.tickets : round.tickets[i] \in Known
         /\ Tickets \subseteq Known
<1>1. orders \in Seq(OrderSet) /\ Len(orders) <= MaxOrders /\ act \in ActSet /\ round \in RoundSet
  BY DEF StoreInv
<1>2. Len(orders) \in Nat /\ Known = 1..Len(orders) /\ \A k \in Known : orders[k] \in OrderSet
  BY <1>1 DEF Known
<1>3. Known \subseteq Oids
  BY <1>1, <1>2, Bounds DEF Oids
<1>4. /\ act.at \in Ats /\ act.then \in Thens /\ act.i \in Nat \ {0} /\ act.net \in Int
      /\ act.flag \in BOOLEAN /\ act.job \in JobSet
  BY <1>1 DEF ActSet
<1>5. round.tickets \in Seq(Oids)
  BY <1>1 DEF RoundSet
<1>6. DOMAIN round.tickets = 1..Len(round.tickets) /\ Len(round.tickets) \in Nat
  BY <1>5
<1>7. \A i \in DOMAIN round.tickets : round.tickets[i] \in Known
  BY DEF StoreInv, TicketsSane, Visible
<1>8. Tickets \subseteq Known
  BY <1>7 DEF Tickets, Range
<1> QED BY <1>2, <1>3, <1>4, <1>6, <1>7, <1>8

LEMMA OrdersStay == StoreInv /\ orders' = orders => OrdersGo
<1> SUFFICES ASSUME StoreInv, orders' = orders PROVE OrdersGo
  OBVIOUS
<1>1. Known' = Known /\ \A k \in Known : orders[k] \in OrderSet
  BY Types DEF Known
<1>2. \A k \in Known : orders[k].filled >= orders[k].filled
  BY <1>1 DEF OrderSet
<1> QED BY <1>1, <1>2 DEF OrdersGo, StoreInv, OrderSane, Works, Visible, Lost

LEMMA SlotsStay ==
  ASSUME StoreInv, OrdersGo
  PROVE  /\ \A s : OrdersOf(s)' = OrdersOf(s)
         /\ SlotsUsedOnce' /\ \A k \in Known : OrderSane(k)'
<1>1. \A s : OrdersOf(s)' = OrdersOf(s)
  BY DEF OrdersGo, OrdersOf
<1>2. SlotsUsedOnce'
  BY DEF OrdersGo, StoreInv, SlotsUsedOnce
<1> QED BY <1>1, <1>2 DEF OrdersGo

LEMMA IntentsStay ==
  ASSUME StoreInv, OrdersGo, NEW s \in Slots, intents'[s] = intents[s]
  PROVE  IntentSane(s)'
<1>1. OrdersOf(s)' = OrdersOf(s) /\ IntentSane(s)
  BY SlotsStay DEF StoreInv
<1>2. \A k \in OrdersOf(s) : k \in Known
  BY DEF OrdersOf
<1>3. \A k \in Known : Lost(k) => Lost(k)'
  BY DEF OrdersGo
<1>4. \A k \in Known : Visible(k) => Visible(k)'
  BY DEF OrdersGo
<1>5. ASSUME intents'[s].st = "known"
      PROVE  intents'[s].oid \in OrdersOf(s)' /\ Visible(intents[s].oid)'
  BY <1>1, <1>2, <1>4, <1>5 DEF IntentSane
<1> QED BY <1>1, <1>2, <1>3, <1>5 DEF IntentSane

LEMMA TicketsStay ==
  ASSUME StoreInv, OrdersGo, NEW r, TicketsSane(r)
  PROVE  /\ IsInjective(r.tickets)
         /\ \A i \in DOMAIN r.tickets : r.tickets[i] \in Known' /\ orders'[r.tickets[i]].st \in {"open", "ended"}
<1>1. \A k \in Known : Visible(k) => k \in Known' /\ orders'[k].st \in {"open", "ended"}
  BY DEF OrdersGo, Visible
<1>2. \A i \in DOMAIN r.tickets : Visible(r.tickets[i]) /\ r.tickets[i] \in Known
  BY DEF TicketsSane, Visible
<1> QED BY <1>1, <1>2 DEF TicketsSane

LEMMA SeenStays ==
  ASSUME StoreInv, OrdersGo, seen' = seen
  PROVE  \A k \in Oids : SeenSane(k)'
<1> SUFFICES ASSUME NEW k \in Oids PROVE SeenSane(k)'
  OBVIOUS
<1>1. SeenSane(k) /\ Known' = Known /\ seen[k].filled \in Nat
  BY DEF StoreInv, OrdersGo
<1>2. CASE k \notin Known
  BY <1>1, <1>2 DEF SeenSane
<1>3. CASE k \in Known
  <2>1. orders[k].filled \in Nat /\ orders'[k].filled \in Nat
    <3>1. orders[k] \in OrderSet /\ orders'[k] \in OrderSet
      BY <1>3, Types DEF OrdersGo, Known
    <3> QED BY <3>1 DEF OrderSet
  <2>2. orders'[k].filled >= orders[k].filled /\ (Works(k)' => Works(k))
    BY <1>3 DEF OrdersGo
  <2> QED BY <1>1, <1>3, <2>1, <2>2 DEF SeenSane
<1> QED BY <1>2, <1>3

\* A step of the coordinator, and what the venue does meanwhile
LEMMA StoreParts ==
  ASSUME StoreInv, OrdersGo, intents' \in [Slots -> IntentSet],
         \A s \in Slots : IntentSane(s)', cp' = cp \/ cp' = round \/ cp' = round',
         seen' \in [Oids -> [open : BOOLEAN, filled : Nat]], \A k \in Oids : SeenSane(k)',
         mishaps' \in 0..MaxMishaps, round' \in RoundSet, TicketsSane(round'), act' \in ActSet,
         PlaceSane', CancelSane'
  PROVE  StoreInv'
<1>1. /\ orders' \in Seq(OrderSet) /\ Len(orders') <= MaxOrders
      /\ \A k \in Known' : OrderSane(k)'
  BY SlotsStay DEF OrdersGo, StoreInv
<1>2. SlotsUsedOnce'
  BY SlotsStay
<1>4. ASSUME NEW r, TicketsSane(r)
      PROVE  /\ IsInjective(r.tickets)
             /\ \A i \in DOMAIN r.tickets :
                  r.tickets[i] \in Known' /\ orders'[r.tickets[i]].st \in {"open", "ended"}
  BY <1>4, TicketsStay
<1>5. TicketsSane(round)'
  BY <1>4 DEF TicketsSane, Visible
<1>6. TicketsSane(cp)'
  <2>1. TicketsSane(cp) /\ TicketsSane(round)
    BY DEF StoreInv
  <2>2. CASE cp' = cp
    <3>1. IsInjective(cp.tickets)
          /\ \A i \in DOMAIN cp.tickets :
               cp.tickets[i] \in Known' /\ orders'[cp.tickets[i]].st \in {"open", "ended"}
      BY <1>4, <2>1
    <3> QED BY <2>2, <3>1 DEF TicketsSane, Visible
  <2>3. CASE cp' = round
    <3>1. IsInjective(round.tickets)
          /\ \A i \in DOMAIN round.tickets :
               round.tickets[i] \in Known' /\ orders'[round.tickets[i]].st \in {"open", "ended"}
      BY <1>4, <2>1
    <3> QED BY <2>3, <3>1 DEF TicketsSane, Visible
  <2>4. CASE cp' = round'
    BY <1>5, <2>4 DEF TicketsSane, Visible
  <2> QED BY <2>2, <2>3, <2>4
<1>8. cp' \in RoundSet
  BY DEF StoreInv
<1> QED BY <1>1, <1>2, <1>5, <1>6, <1>8 DEF StoreInv

\* It sees nothing new.
LEMMA StoreChanges ==
  ASSUME StoreInv, OrdersGo, intents' \in [Slots -> IntentSet],
         \A s \in Slots : IntentSane(s)', cp' = cp \/ cp' = round \/ cp' = round', seen' = seen,
         mishaps' \in 0..MaxMishaps, round' \in RoundSet, TicketsSane(round'), act' \in ActSet,
         PlaceSane', CancelSane'
  PROVE  StoreInv'
<1>1. seen' \in [Oids -> [open : BOOLEAN, filled : Nat]] /\ \A k \in Oids : SeenSane(k)'
  BY SeenStays DEF StoreInv
<1> QED BY <1>1, StoreParts

\* It leaves the store.
LEMMA StoreKeeps ==
  ASSUME StoreInv, OrdersGo, intents' = intents, cp' = cp \/ cp' = round, seen' = seen,
         mishaps' \in 0..MaxMishaps, round' \in RoundSet, TicketsSane(round'), act' \in ActSet,
         PlaceSane', CancelSane'
  PROVE  StoreInv'
<1>1. \A s \in Slots : IntentSane(s)'
  BY IntentsStay
<1>2. intents' \in [Slots -> IntentSet]
  BY DEF StoreInv
<1> QED BY <1>1, <1>2, StoreChanges

\* Where nothing is under way that an order or a ticket could disturb
Restless == {"place", "submit", "answer", "cancel", "status", "exit", "refresh"}

LEMMA QuietSane == act'.at \notin Restless => PlaceSane' /\ CancelSane'
BY DEF Restless, PlaceSane, CancelSane

LEMMA RefreshSane ==
  act'.at = "refresh" /\ act'.then \in {"decide", "reduced", "flat", "flat2", "expired"}
    => PlaceSane' /\ CancelSane'
BY DEF PlaceSane, CancelSane

\* A slot that is a slot
LEMMA PlacingSane ==
  ASSUME act'.at = "place", act'.job.why \in Purposes \ {"none"}, act'.job.side \in Sides,
         \/ act'.job.why \in {"stop", "restop"} /\ act'.job.rev \in 0..1
         \/ act'.job.why \in {"first", "second", "exit"} /\ act'.job.rev \in 0..MaxRev,
         act'.job.why = "second" => round'.tickets # <<>>
  PROVE  PlaceSane' /\ CancelSane'
<1>1. JobSlot' \in Slots
  BY DEF JobSlot, JobKind, Slots
<1> QED BY <1>1 DEF PlaceSane, CancelSane

LEMMA OpenCancelSane ==
  act'.at = "cancel" /\ act'.then \in {"startup", "flat", "flat2", "expired", "entries"}
    => PlaceSane' /\ CancelSane'
BY DEF PlaceSane, CancelSane, Cancels

\* What a cancel has in scope depends on the tickets, what was seen of them and their slots.
LEMMA RestStays ==
  ASSUME StoreInv, OrdersGo, seen' = seen, round'.tickets = round.tickets,
         act'.then = act.then, act'.net = act.net, act'.i = act.i
  PROVE  Rest' = Rest
<1>1. \A i \in DOMAIN round.tickets :
        /\ round.tickets[i] \in Known /\ Side(round.tickets[i])' = Side(round.tickets[i])
  BY Types DEF OrdersGo, Side
<1>2. \A side : SideAt(side)' = SideAt(side)
  BY <1>1 DEF SideAt
<1>3. ActiveExit(act.net)' = ActiveExit(act.net)
  BY <1>2 DEF ActiveExit, LastAt
<1>4. \A i \in DOMAIN round.tickets : InScope(round.tickets[i])' = InScope(round.tickets[i])
  BY <1>1, <1>3 DEF InScope
<1> QED BY <1>4 DEF Rest
--------------------------------------------------------------------------------
(* The coordinator's operators *)

LEMMA TicketsFinite == StoreInv => IsFiniteSet(Tickets)
<1> SUFFICES ASSUME StoreInv PROVE IsFiniteSet(Tickets)
  OBVIOUS
<1>1. Tickets \in SUBSET (1..Len(orders)) /\ Len(orders) \in Nat
  BY Types
<1>2. IsFiniteSet(1..Len(orders))
  BY <1>1, FS_Interval
<1> QED BY <1>1, <1>2, FS_Subset

LEMMA FilledInt ==
  ASSUME StoreInv, NEW side
  PROVE  FilledOn(side, seen) \in Int
<1> DEFINE S == {k \in Tickets : Side(k) = side}
           F == [k \in Oids |-> seen[k].filled]
           fold(g) == [s \in SUBSET S |-> IF s = {} THEN 0 ELSE seen[Pick(s)].filled + g[s \ {Pick(s)}]]
           h == CHOOSE g : g = fold(g)
<1>1. FilledOn(side, seen) = h[S]
  BY DEF FilledOn, MapThenSumSet, MapThenFoldSet, Pick
<1>2. IsFiniteSet(S)
  <2>1. S \in SUBSET Tickets
    OBVIOUS
  <2> HIDE DEF S
  <2> QED BY <2>1, TicketsFinite, FS_Subset
<1>3. S \subseteq Oids
  BY Types
<1>4. ASSUME NEW g PROVE IsFold(F, g, S) <=> g = fold(g)
  <2>1. ASSUME NEW s \in SUBSET S, s # {} PROVE F[Pick(s)] = seen[Pick(s)].filled
    BY <1>3, <2>1, PickIn
  <2> HIDE DEF F, S
  <2>2. fold(g) = [s \in SUBSET S |-> IF s = {} THEN 0 ELSE F[Pick(s)] + g[s \ {Pick(s)}]]
    BY <2>1
  <2> QED BY <2>2 DEF IsFold
<1>5. \A y \in S : F[y] \in Int
  BY <1>3 DEF StoreInv
<1> HIDE DEF fold, S, F
<1>6. \E g : g = fold(g)
  BY <1>2, <1>4, FoldExists
<1>7. h = fold(h)
  BY <1>6
<1> HIDE DEF h
<1>8. SumOver(F, S) = h[S]
  BY <1>2, <1>4, <1>7, SumOverIsFold
<1> QED BY <1>1, <1>2, <1>5, <1>8, SumOverInt

LEMMA NetInt ==
  ASSUME StoreInv
  PROVE  /\ Net \in Int /\ Abs(Net) \in Nat /\ ExitSide(Net) \in Sides /\ Abs(act.net) \in Nat
         /\ ExitSide(act.net) \in Sides
<1>1. Net \in Int
  <2>1. FilledOn("BUY", seen) \in Int /\ FilledOn("SELL", seen) \in Int
    BY FilledInt
  <2> HIDE DEF FilledOn
  <2> QED BY <2>1 DEF Net
<1>2. act.net \in Int
  BY Types
<1> QED BY <1>1, <1>2 DEF Abs, ExitSide, Sides

\* A set of places of tickets has a first and a last one.
LEMMA PlacesIn ==
  ASSUME StoreInv, NEW S \in SUBSET DOMAIN round.tickets, S # {}
  PROVE  Min(S) \in S /\ Max(S) \in S
<1>1. S \in SUBSET (0..Len(round.tickets)) /\ Len(round.tickets) \in Nat
  BY Types
<1> QED BY <1>1, MinMaxIn

LEMMA LastIn ==
  ASSUME StoreInv, NEW S \in SUBSET DOMAIN round.tickets
  PROVE  /\ S = {} => LastAt(S) = 0
         /\ S # {} => \E i \in S : LastAt(S) = round.tickets[i]
<1>1. CASE S = {}
  BY <1>1 DEF LastAt
<1>2. CASE S # {}
  <2>1. Max(S) \in S
    BY <1>2, PlacesIn
  <2> QED BY <1>2, <2>1 DEF LastAt
<1> QED BY <1>1, <1>2

LEMMA LatestIn ==
  ASSUME StoreInv, NEW side
  PROVE  LatestLimit(side) = 0 \/ LatestLimit(side) \in Known
<1> DEFINE S == {i \in SideAt(side) : round.tickets[i] # round.stop}
<1>1. S \in SUBSET DOMAIN round.tickets
  BY DEF SideAt
<1>2. LatestLimit(side) = LastAt(S)
  BY DEF LatestLimit
<1> HIDE DEF S
<1>3. S = {} \/ \E i \in S : LastAt(S) = round.tickets[i]
  BY <1>1, LastIn
<1>4. \A i \in S : round.tickets[i] \in Known
  BY <1>1, Types
<1> QED BY <1>1, <1>2, <1>3, <1>4, LastIn

LEMMA ActiveIn ==
  ASSUME StoreInv, NEW net, ActiveExit(net) # 0
  PROVE  \E i \in DOMAIN round.tickets : ActiveExit(net) = round.tickets[i]
<1> DEFINE S == {i \in SideAt(ExitSide(net)) : seen[round.tickets[i]].open}
<1>1. S \in SUBSET DOMAIN round.tickets
  BY DEF SideAt
<1>2. ActiveExit(net) = LastAt(S)
  BY DEF ActiveExit
<1> HIDE DEF S
<1> QED BY <1>1, <1>2, LastIn

LEMMA TargetIn ==
  ASSUME StoreInv, Rest # {}
  PROVE  /\ Min(Rest) \in Rest /\ Min(Rest) \in Nat
         /\ Target \in Tickets /\ Target \in Known /\ Visible(Target)
<1>1. Rest \in SUBSET DOMAIN round.tickets
  BY DEF Rest
<1> DEFINE m == Min(Rest)
<1>2. m \in Rest /\ m \in DOMAIN round.tickets
  BY <1>1, PlacesIn
<1> HIDE DEF m
<1>3. m \in Nat /\ round.tickets[m] \in Known
  BY <1>2, Types
<1>4. round.tickets[m] \in Tickets
  BY <1>2 DEF Tickets, Range
<1>5. Visible(round.tickets[m])
  BY <1>2 DEF StoreInv, TicketsSane
<1> QED BY <1>2, <1>3, <1>4, <1>5 DEF Target, m
--------------------------------------------------------------------------------
(* Back in the caller of a placement *)

\* The round after a step that places nothing: marks may change.
Marked(r) == r \in RoundSet /\ r.tickets = round.tickets /\ r.revs = round.revs

LEMMA MarkedSane == StoreInv => Marked(round) /\ \A r : Marked(r) => TicketsSane(r)
<1> SUFFICES ASSUME StoreInv PROVE Marked(round) /\ \A r : Marked(r) => TicketsSane(r)
  OBVIOUS
<1>1. round \in RoundSet /\ TicketsSane(round)
  BY DEF StoreInv
<1> QED BY <1>1 DEF Marked, TicketsSane

LEMMA MarkedIs ==
  ASSUME StoreInv, NEW r, Marked(r), NEW p \in Phases, NEW w \in Reasons, NEW b \in BOOLEAN
  PROVE  /\ Marked([r EXCEPT !.phase = p, !.why = w]) /\ Marked([r EXCEPT !.phase = p])
         /\ Marked([r EXCEPT !.why = w]) /\ Marked([r EXCEPT !.blocked = b])
         /\ Marked([r EXCEPT !.phase = p, !.why = w, !.blocked = b])
BY DEF Marked, RoundSet

LEMMA WordsIn ==
  /\ {"quoting", "exposed", "closing", "stopping", "startup_recovery", "hard_stop_recovery",
      "complete", "expired", "failed", "hard_stop", "reserved", "idle"} \subseteq Phases
  /\ {"none", "pending", "retry", "exhausted", "missing"} \subseteq Reasons
BY DEF Phases, Reasons, Terminal

LEMMA UnplacedIs ==
  ASSUME StoreInv, NEW how \in {"refused", "pending", "raised"}, Unplaced(how),
         act.job.why \in Purposes \ {"none"}
  PROVE  /\ Marked(round') /\ act' \in ActSet
         /\ \/ act'.at = "save"
            \/ /\ act.job.why = "second" /\ act'.at = "cancel" /\ act'.then = "undo"
               /\ act'.i = 1
         /\ how # "refused" /\ act.job.why # "exit" =>
              (act'.at = "save" /\ Pending')
              \/ (act'.at = "cancel" /\ act'.then = "undo" /\ act'.flag)
<1> DEFINE b == round.blocked \/ how = "pending"
           r == [round EXCEPT !.blocked = b]
           pending == how # "refused" \/ r.blocked
<1>1. b \in BOOLEAN /\ pending \in BOOLEAN /\ round \in RoundSet
  BY DEF StoreInv, RoundSet
<1>2. Marked(r)
  BY <1>1, MarkedSane, MarkedIs, WordsIn
<1>0. how # "refused" => pending
  OBVIOUS
<1> DEFINE why == act.job.why
<1>3. /\ round' = CASE why = "first" ->
                         [r EXCEPT !.phase = IF pending THEN "startup_recovery" ELSE "failed",
                                   !.why = IF pending THEN "pending" ELSE "none"]
                    [] why \in {"second", "exit"} -> r
                    [] why = "stop" ->
                         IF pending THEN [r EXCEPT !.phase = "hard_stop_recovery", !.why = "pending"]
                                    ELSE r
                    [] why = "restop" ->
                         [r EXCEPT !.phase = "hard_stop_recovery",
                                   !.why = IF pending THEN "pending" ELSE "retry"]
      /\ act' = IF why = "second" THEN [At("cancel", "undo") EXCEPT !.flag = pending] ELSE Saving
  BY DEF Unplaced
<1> HIDE DEF b, r, pending
<1>4. CASE why = "first"
  <2>1. act' = Saving
    BY <1>3, <1>4
  <2>2. round' = [r EXCEPT !.phase = IF pending THEN "startup_recovery" ELSE "failed",
                           !.why = IF pending THEN "pending" ELSE "none"]
    BY <1>3, <1>4
  <2>3. CASE pending
    <3>1. round' = [r EXCEPT !.phase = "startup_recovery", !.why = "pending"]
      BY <2>2, <2>3
    <3>2. Marked(round')
      BY <1>2, <3>1, MarkedIs, WordsIn
    <3>3. round'.phase = "startup_recovery" /\ round'.why = "pending"
      BY <1>2, <3>1 DEF Marked, RoundSet
    <3>4. Pending'
      BY <3>3 DEF Pending
    <3> QED BY <2>1, <3>2, <3>4, SavingIs
  <2>4. CASE ~pending
    <3>1. round' = [r EXCEPT !.phase = "failed", !.why = "none"]
      BY <2>2, <2>4
    <3> QED BY <1>0, <1>2, <2>1, <2>4, <3>1, MarkedIs, WordsIn, SavingIs
  <2> QED BY <2>3, <2>4
<1>5. CASE why = "second"
  <2> DEFINE a == At("cancel", "undo")
  <2>1. act' = [a EXCEPT !.flag = pending]
    BY <1>3, <1>5
  <2>2. "cancel" \in Ats /\ "undo" \in Thens
    BY DEF Ats, Thens, Cancels
  <2>3. a \in ActSet /\ a.at = "cancel" /\ a.then = "undo" /\ a.i = 1
    BY <2>2, AtIs, ZenonT(60)
  <2> HIDE DEF a
  <2>4. act' \in ActSet /\ act'.at = "cancel" /\ act'.then = "undo" /\ act'.i = 1
        /\ act'.flag = pending
    BY <1>1, <2>1, <2>3 DEF ActSet
  <2>5. round' = r
    BY <1>3, <1>5
  <2> QED BY <1>0, <1>2, <1>5, <2>4, <2>5
<1>6. CASE why = "exit"
  <2>1. act' = Saving /\ round' = r
    BY <1>3, <1>6
  <2> QED BY <1>2, <1>6, <2>1, SavingIs
<1>7. CASE why = "stop"
  <2>1. act' = Saving
    BY <1>3, <1>7
  <2>2. round' = IF pending THEN [r EXCEPT !.phase = "hard_stop_recovery", !.why = "pending"] ELSE r
    BY <1>3, <1>7
  <2>3. CASE pending
    <3>1. round' = [r EXCEPT !.phase = "hard_stop_recovery", !.why = "pending"]
      BY <2>2, <2>3
    <3>2. Marked(round')
      BY <1>2, <3>1, MarkedIs, WordsIn
    <3>3. round'.phase = "hard_stop_recovery" /\ round'.why = "pending"
      BY <1>2, <3>1 DEF Marked, RoundSet
    <3>4. Pending'
      BY <3>3 DEF Pending
    <3> QED BY <2>1, <3>2, <3>4, SavingIs
  <2>4. CASE ~pending
    BY <1>0, <1>2, <2>1, <2>2, <2>4, SavingIs
  <2> QED BY <2>3, <2>4
<1>8. CASE why = "restop"
  <2>1. act' = Saving
    BY <1>3, <1>8
  <2>2. round' = [r EXCEPT !.phase = "hard_stop_recovery",
                           !.why = IF pending THEN "pending" ELSE "retry"]
    BY <1>3, <1>8
  <2>3. CASE pending
    <3>1. round' = [r EXCEPT !.phase = "hard_stop_recovery", !.why = "pending"]
      BY <2>2, <2>3
    <3>2. Marked(round')
      BY <1>2, <3>1, MarkedIs, WordsIn
    <3>3. round'.phase = "hard_stop_recovery" /\ round'.why = "pending"
      BY <1>2, <3>1 DEF Marked, RoundSet
    <3>4. Pending'
      BY <3>3 DEF Pending
    <3> QED BY <2>1, <3>2, <3>4, SavingIs
  <2>4. CASE ~pending
    <3>1. round' = [r EXCEPT !.phase = "hard_stop_recovery", !.why = "retry"]
      BY <2>2, <2>4
    <3> QED BY <1>0, <1>2, <2>1, <2>4, <3>1, MarkedIs, WordsIn, SavingIs
  <2> QED BY <2>3, <2>4
<1> QED BY <1>4, <1>5, <1>6, <1>7, <1>8 DEF Purposes

\* An order the venue shows becomes a ticket, once.
LEMMA WithTicketIs ==
  ASSUME StoreInv, NEW k, Visible(k), NEW r, Marked(r)
  PROVE  /\ WithTicket(r, k) \in RoundSet /\ TicketsSane(WithTicket(r, k))
         /\ Range(WithTicket(r, k).tickets) = Tickets \cup {k}
         /\ WithTicket(r, k).tickets # <<>>
         /\ WithTicket(r, k).revs = r.revs
<1>1. k \in Known /\ k \in Oids
  BY Types DEF Visible
<1>2. /\ round.tickets \in Seq(Oids) /\ r \in RoundSet /\ r.tickets = round.tickets
      /\ r.revs = round.revs
  BY DEF StoreInv, RoundSet, Marked
<1>3. IsInjective(round.tickets) /\ \A i \in DOMAIN round.tickets : Visible(round.tickets[i])
  BY DEF StoreInv, TicketsSane
<1>4. CASE k \in Tickets
  <2>1. WithTicket(r, k) = r
    BY <1>2, <1>4 DEF WithTicket, Tickets
  <2>2. Tickets \cup {k} = Tickets
    BY <1>4
  <2>3. round.tickets # <<>>
    BY <1>4 DEF Tickets, Range
  <2> QED BY <1>2, <2>1, <2>2, <2>3, MarkedSane DEF Tickets
<1>5. CASE k \notin Tickets
  <2> DEFINE t == Append(round.tickets, k)
             n == Len(round.tickets)
  <2>1. /\ t \in Seq(Oids) /\ n \in Nat /\ DOMAIN round.tickets = 1..n
        /\ DOMAIN t = 1..(n + 1) /\ t[n + 1] = k
        /\ \A i \in 1..n : t[i] = round.tickets[i]
    BY <1>1, <1>2
  <2>2. WithTicket(r, k) = [r EXCEPT !.tickets = t]
    BY <1>2, <1>5 DEF WithTicket, Tickets
  <2> HIDE DEF t, n
  <2>3. WithTicket(r, k) \in RoundSet /\ WithTicket(r, k).tickets = t
        /\ WithTicket(r, k).revs = r.revs
    BY <1>2, <2>1, <2>2 DEF RoundSet
  <2>4. \A i \in 1..n : t[i] # k
    BY <1>5, <2>1 DEF Tickets, Range
  <2>5. \A i \in 1..(n + 1) : i = n + 1 \/ i \in 1..n
    BY <2>1
  <2>6. IsInjective(t)
    <3> SUFFICES ASSUME NEW i \in 1..(n + 1), NEW j \in 1..(n + 1), t[i] = t[j] PROVE i = j
      BY <2>1 DEF IsInjective
    <3> QED BY <1>3, <2>1, <2>4, <2>5 DEF IsInjective
  <2>7. \A i \in 1..(n + 1) : Visible(t[i])
    BY <1>3, <2>1, <2>5
  <2>8. Range(t) = Tickets \cup {k}
    <3>1. ASSUME NEW x \in Range(t) PROVE x \in Tickets \cup {k}
      BY <2>1, <2>5, <3>1 DEF Range, Tickets
    <3>2. ASSUME NEW x \in Tickets \cup {k} PROVE x \in Range(t)
      <4>1. \A i \in 1..n : i \in 1..(n + 1)
        BY <2>1
      <4>2. n + 1 \in 1..(n + 1)
        BY <2>1
      <4> QED BY <2>1, <3>2, <4>1, <4>2 DEF Range, Tickets
    <3> QED BY <3>1, <3>2
  <2>9. t # <<>>
    <3>1. 1 \in DOMAIN t
      BY <2>1
    <3> QED BY <3>1
  <2> QED BY <2>1, <2>3, <2>6, <2>7, <2>8, <2>9 DEF TicketsSane
<1> QED BY <1>4, <1>5

LEMMA PlacedIs ==
  ASSUME StoreInv, NEW k, Visible(k), Placed(k),
         act.job.why \in Purposes \ {"none"}, JobSlot \in Slots
  PROVE  /\ round' \in RoundSet /\ TicketsSane(round') /\ Tickets' = Tickets \cup {k}
         /\ act' \in ActSet /\ PlaceSane' /\ CancelSane' /\ act'.at \in {"save", "place"}
<1> DEFINE u == WithTicket(round, k)
           r == [u EXCEPT !.blocked = FALSE]
           why == act.job.why
<1>0. k \in Oids
  BY Types DEF Visible
<1>1. /\ u \in RoundSet /\ TicketsSane(u) /\ Range(u.tickets) = Tickets \cup {k}
      /\ u.tickets # <<>>
  BY MarkedSane, WithTicketIs
<1>2. /\ round' = CASE why \in {"first", "exit"} -> r
                    [] why = "second" -> [r EXCEPT !.phase = "quoting"]
                    [] why = "stop" -> [r EXCEPT !.phase = "stopping", !.stop = k]
                    [] why = "restop" ->
                         [r EXCEPT !.phase = "stopping", !.stop = k, !.srev = act.job.rev]
      /\ act' = IF why = "first" THEN Placing(Job("second", "SELL", Qty, 0, FALSE)) ELSE Saving
  BY DEF Placed
<1> HIDE DEF u
<1>3. r \in RoundSet /\ r.tickets = u.tickets
  BY <1>1 DEF RoundSet
<1> HIDE DEF r
<1>4. why = "restop" => act.job.rev \in 0..1
  BY DEF JobSlot, JobKind, Slots
<1>5. round' \in RoundSet /\ round'.tickets = u.tickets
  <2>1. CASE why \in {"first", "exit"}
    BY <1>2, <1>3, <2>1
  <2>2. CASE why = "second"
    <3>1. round' = [r EXCEPT !.phase = "quoting"]
      BY <1>2, <2>2
    <3> QED BY <1>3, <3>1, WordsIn DEF RoundSet
  <2>3. CASE why = "stop"
    <3>1. round' = [r EXCEPT !.phase = "stopping", !.stop = k]
      BY <1>2, <2>3
    <3> QED BY <1>0, <1>3, <3>1, WordsIn DEF RoundSet
  <2>4. CASE why = "restop"
    <3>1. round' = [r EXCEPT !.phase = "stopping", !.stop = k, !.srev = act.job.rev]
      BY <1>2, <2>4
    <3> QED BY <1>0, <1>3, <1>4, <2>4, <3>1, WordsIn DEF RoundSet
  <2> QED BY <2>1, <2>2, <2>3, <2>4 DEF Purposes
<1>6. TicketsSane(round') /\ Tickets' = Tickets \cup {k} /\ round'.tickets # <<>>
  BY <1>1, <1>5 DEF TicketsSane, Tickets
<1>7. CASE why = "first"
  <2> DEFINE j == Job("second", "SELL", Qty, 0, FALSE)
  <2>1. "second" \in Purposes /\ "SELL" \in Sides
    BY DEF Purposes, Sides
  <2>0. Qty \in Nat /\ 0 \in Nat /\ FALSE \in BOOLEAN
    BY Bounds
  <2>2. j \in JobSet /\ j.why = "second" /\ j.side = "SELL" /\ j.rev = 0
    BY <2>0, <2>1 DEF Job, JobSet
  <2> HIDE DEF j
  <2>3. act' = Placing(j)
    BY <1>2, <1>7 DEF j
  <2>4. act' \in ActSet /\ act'.at = "place" /\ act'.job = j
    BY <2>2, <2>3, PlacingIs
  <2>5. 0 \in 0..MaxRev
    BY Bounds
  <2>6. act'.job.why = "second" /\ act'.job.side = "SELL" /\ act'.job.rev = 0
    BY <2>2, <2>4
  <2>7. PlaceSane' /\ CancelSane'
    BY <1>6, <2>1, <2>4, <2>5, <2>6, PlacingSane
  <2> QED BY <1>5, <1>6, <2>4, <2>7
<1>8. CASE why # "first"
  <2>1. act' = Saving
    BY <1>2, <1>8
  <2> QED BY <1>5, <1>6, <2>1, SavingIs, QuietSane DEF Restless
<1> QED BY <1>7, <1>8
--------------------------------------------------------------------------------
(* Placing an order *)

LEMMA PlaceIs ==
  ASSUME StoreInv, act.at \in {"place", "submit", "answer"}
  PROVE  /\ act.job.why \in Purposes \ {"none"} /\ JobSlot \in Slots
         /\ intents[JobSlot] \in IntentSet /\ act.job \in JobSet
         /\ act.job.why = "second" => round.tickets # <<>>
<1>1. act.job \in JobSet
  BY Types
<1> QED BY <1>1 DEF StoreInv, PlaceSane, JobSet

LEMMA OneIntent ==
  ASSUME StoreInv, OrdersGo, NEW s \in Slots, NEW x \in IntentSet,
         intents' = [intents EXCEPT ![s] = x],
         x.st = "known" => x.oid \in OrdersOf(s) /\ Visible(x.oid),
         x.st \in {"none", "refused", "absent"} => \A k \in OrdersOf(s) : Lost(k)
  PROVE  intents' \in [Slots -> IntentSet] /\ \A t \in Slots : IntentSane(t)'
<1>1. intents \in [Slots -> IntentSet]
  BY DEF StoreInv
<1>2. ASSUME NEW t \in Slots PROVE IntentSane(t)'
  <2>1. CASE t # s
    <3>1. intents'[t] = intents[t]
      BY <1>1, <2>1
    <3> QED BY <3>1, IntentsStay
  <2>2. CASE t = s
    <3>1. intents'[s] = x
      BY <1>1
    <3>2. OrdersOf(s)' = OrdersOf(s) /\ \A k \in OrdersOf(s) : k \in Known
      BY SlotsStay DEF OrdersOf
    <3>3. \A k \in Known : (Visible(k) => Visible(k)') /\ (Lost(k) => Lost(k)')
      BY DEF OrdersGo
    <3>4. x.st \in {"none", "refused", "absent"} => \A k \in OrdersOf(s)' : Lost(k)'
      BY <3>2, <3>3
    <3>5. ASSUME x.st = "known" PROVE x.oid \in OrdersOf(s)' /\ intents'[s].oid = x.oid /\ Visible(intents[s].oid)'
      <4>1. x.oid \in Known /\ x.oid \in OrdersOf(s)
        BY <3>2, <3>5
      <4>2. x.oid \in Known' /\ orders'[x.oid].st \in {"open", "ended"}
        BY <3>3, <3>5, <4>1 DEF Visible
      <4> QED BY <3>1, <3>2, <4>1, <4>2 DEF Visible
    <3> QED BY <2>2, <3>1, <3>4, <3>5 DEF IntentSane
  <2> QED BY <2>1, <2>2
<1> QED BY <1>1, <1>2

\* The caller has its answer, whatever the store made of it.
Answered ==
  /\ orders' = orders /\ cp' = cp /\ seen' = seen /\ mishaps' = mishaps
  /\ intents' \in [Slots -> IntentSet] /\ \A s \in Slots : IntentSane(s)'

LEMMA UnplacedStep ==
  ASSUME StoreInv, act.at \in {"place", "submit", "answer"}, Answered,
         NEW how \in {"refused", "pending", "raised"}, Unplaced(how)
  PROVE  StoreInv'
<1>1. /\ Marked(round') /\ act' \in ActSet
      /\ \/ act'.at = "save"
         \/ /\ act.job.why = "second" /\ act'.at = "cancel" /\ act'.then = "undo" /\ act'.i = 1
  BY PlaceIs, UnplacedIs
<1>2. PlaceSane' /\ CancelSane'
  <2>1. CASE act'.at = "save"
    BY <2>1, QuietSane DEF Restless
  <2>2. CASE act.job.why = "second" /\ act'.at = "cancel" /\ act'.then = "undo" /\ act'.i = 1
    <3>1. round'.tickets = round.tickets /\ round.tickets # <<>>
      BY <1>1, <2>2, PlaceIs DEF Marked
    <3>2. 1 \in DOMAIN round.tickets
      <4>1. round.tickets \in Seq(Oids)
        BY DEF StoreInv, RoundSet
      <4> QED BY <3>1, <4>1
    <3>3. 1 \in Rest'
      <4>1. \A k : InScope(k)'
        BY <2>2 DEF InScope
      <4> QED BY <2>2, <3>1, <3>2, <4>1 DEF Rest
    <3> QED BY <2>2, <3>3 DEF PlaceSane, CancelSane, Cancels
  <2> QED BY <1>1, <2>1, <2>2
<1>3. OrdersGo /\ mishaps' \in 0..MaxMishaps
  BY OrdersStay DEF Answered, StoreInv
<1>4. TicketsSane(round') /\ round' \in RoundSet
  BY <1>1, MarkedSane DEF Marked
<1> QED BY <1>1, <1>2, <1>3, <1>4, StoreChanges DEF Answered

LEMMA PlacedStep ==
  ASSUME StoreInv, act.at \in {"place", "submit", "answer"}, Answered,
         NEW k, Visible(k), Placed(k)
  PROVE  StoreInv'
<1>1. /\ round' \in RoundSet /\ TicketsSane(round') /\ act' \in ActSet
      /\ PlaceSane' /\ CancelSane'
  BY PlaceIs, PlacedIs
<1>2. OrdersGo /\ mishaps' \in 0..MaxMishaps
  BY OrdersStay DEF Answered, StoreInv
<1> QED BY <1>1, <1>2, StoreChanges DEF Answered

LEMMA OneAnswer ==
  ASSUME StoreInv, NEW s \in Slots, NEW x \in IntentSet, intents' = [intents EXCEPT ![s] = x],
         x.st = "known" => x.oid \in OrdersOf(s) /\ Visible(x.oid),
         x.st \in {"none", "refused", "absent"} => \A k \in OrdersOf(s) : Lost(k),
         UNCHANGED <<orders, cp, seen, mishaps>>
  PROVE  Answered
BY OrdersStay, OneIntent DEF Answered

LEMMA SameAnswer ==
  ASSUME StoreInv, UNCHANGED <<orders, intents, cp, seen, mishaps>>
  PROVE  Answered
<1>1. OrdersGo
  BY OrdersStay
<1> QED BY <1>1, IntentsStay DEF Answered, StoreInv

LEMMA NoIntentIs ==
  NoIntent \in IntentSet /\ NoIntent.st = "none" /\ [st |-> "refused", oid |-> 0] \in IntentSet
BY DEF NoIntent, IntentSet

LEMMA FreshIsLost ==
  ASSUME StoreInv, NEW s \in Slots, IsFresh(s)
  PROVE  \A k \in OrdersOf(s) : Lost(k)
BY DEF StoreInv, IntentSane, IsFresh

LEMMA RefuseEarlyStep == StoreInv /\ RefuseEarly => StoreInv'
<1> SUFFICES ASSUME StoreInv, RefuseEarly PROVE StoreInv'
  OBVIOUS
<1>1. act.at = "place" /\ JobSlot \in Slots /\ IsFresh(JobSlot)
  BY PlaceIs DEF RefuseEarly
<1>2. intents' = [intents EXCEPT ![JobSlot] = NoIntent] /\ UNCHANGED <<orders, cp, seen, mishaps>>
  BY DEF RefuseEarly
<1>3. Answered
  BY <1>1, <1>2, NoIntentIs, FreshIsLost, OneAnswer
<1>4. Unplaced("refused") \/ Unplaced("raised")
  BY DEF RefuseEarly
<1> QED BY <1>1, <1>3, <1>4, UnplacedStep

LEMMA ShownIs ==
  ASSUME StoreInv, NEW s
  PROVE  /\ Shown(s) # 0 => Shown(s) \in OrdersOf(s) /\ Visible(Shown(s))
         /\ \A k \in OrdersOf(s) : Visible(k) => Shown(s) = k
<1> DEFINE hits == {k \in Known : orders[k].slot = s /\ orders[k].st \notin {"wire", "lost"}}
<1>1. Shown(s) = IF hits = {} THEN 0 ELSE CHOOSE k \in hits : TRUE
  BY DEF Shown
<1>2. \A k \in hits : k \in OrdersOf(s) /\ Visible(k)
  BY Types DEF OrdersOf, Visible, OrderSet
<1>3. \A k \in OrdersOf(s) : Visible(k) => k \in hits
  BY DEF OrdersOf, Visible
<1>4. \A j, k \in hits : j = k
  BY DEF StoreInv, SlotsUsedOnce, Lost
<1> HIDE DEF hits
<1> QED BY <1>1, <1>2, <1>3, <1>4

LEMMA ReuseStep == StoreInv /\ Reuse => StoreInv'
<1> SUFFICES ASSUME StoreInv, Reuse PROVE StoreInv'
  OBVIOUS
<1>1. act.at = "place" /\ JobSlot \in Slots /\ intents[JobSlot] \in IntentSet
      /\ UNCHANGED <<orders, cp, seen, mishaps>>
  BY PlaceIs DEF Reuse
<1>2. CASE /\ Shown(JobSlot) # 0
           /\ intents' = [intents EXCEPT ![JobSlot] = [st |-> "known", oid |-> Shown(JobSlot)]]
           /\ Placed(Shown(JobSlot))
  <2>1. Shown(JobSlot) \in OrdersOf(JobSlot) /\ Visible(Shown(JobSlot))
    BY <1>2, ShownIs
  <2>2. Shown(JobSlot) \in Oids
    BY <2>1, Types DEF OrdersOf
  <2> DEFINE x == [st |-> "known", oid |-> Shown(JobSlot)]
  <2>3. x \in IntentSet /\ x.st = "known" /\ x.oid = Shown(JobSlot)
    BY <2>2 DEF IntentSet
  <2>4. intents' = [intents EXCEPT ![JobSlot] = x]
    BY <1>2
  <2> HIDE DEF x
  <2>5. Answered
    BY <1>1, <2>1, <2>3, <2>4, OneAnswer
  <2> QED BY <1>1, <1>2, <2>1, <2>5, PlacedStep
<1>3. CASE /\ UNCHANGED intents /\ Unplaced("pending")
  <2>1. Answered
    BY <1>1, <1>3, SameAnswer
  <2> QED BY <1>1, <1>3, <2>1, UnplacedStep
<1>4. CASE /\ CertainlyAbsent(JobSlot) /\ Unplaced("pending")
           /\ intents' = [intents EXCEPT ![JobSlot].st = "absent"]
  <2> DEFINE x == [intents[JobSlot] EXCEPT !.st = "absent"]
  <2>1. x \in IntentSet /\ x.st = "absent"
    BY <1>1 DEF IntentSet
  <2>2. intents' = [intents EXCEPT ![JobSlot] = x]
    BY <1>4
  <2>3. \A k \in OrdersOf(JobSlot) : Lost(k)
    BY <1>4 DEF CertainlyAbsent, OrdersOf, Lost
  <2> HIDE DEF x
  <2>4. Answered
    BY <1>1, <2>1, <2>2, <2>3, OneAnswer
  <2> QED BY <1>1, <1>4, <2>4, UnplacedStep
<1> QED BY <1>2, <1>3, <1>4 DEF Reuse

LEMMA JobStays ==
  act'.job.why = act.job.why /\ act'.job.side = act.job.side /\ act'.job.rev = act.job.rev
    => JobSlot' = JobSlot
BY DEF JobSlot, JobKind

LEMMA PersistIntentStep == StoreInv /\ PersistIntent => StoreInv'
<1> SUFFICES ASSUME StoreInv, PersistIntent PROVE StoreInv'
  OBVIOUS
<1> DEFINE x == [st |-> "sent", oid |-> 0]
<1>1. act.at = "place" /\ JobSlot \in Slots /\ IsFresh(JobSlot)
  BY PlaceIs DEF PersistIntent
<1>2. intents' = [intents EXCEPT ![JobSlot] = x]
  BY DEF PersistIntent
<1>3. /\ act' = [act EXCEPT !.at = "submit"] /\ UNCHANGED <<orders, cp, round, seen, mishaps>>
  BY DEF PersistIntent
<1>4. x \in IntentSet /\ x.st = "sent"
  BY DEF IntentSet
<1> HIDE DEF x
<1>5. OrdersGo
  BY <1>3, OrdersStay
<1>6. intents' \in [Slots -> IntentSet] /\ \A s \in Slots : IntentSane(s)'
  BY <1>1, <1>2, <1>4, <1>5, OneIntent
<1>7. act \in ActSet /\ "submit" \in Ats
  BY DEF StoreInv, Ats
<1>8. act' \in ActSet /\ act'.at = "submit" /\ act'.job = act.job /\ act'.then = act.then
  BY <1>3, <1>7 DEF ActSet
<1>9. JobSlot' = JobSlot
  BY <1>8, JobStays
<1>10. intents'[JobSlot] = x
  BY <1>1, <1>2 DEF StoreInv
<1>11. \A k \in OrdersOf(JobSlot) : Lost(k)
  BY <1>1, FreshIsLost
<1>12. PlaceSane'
  <2>1. \A k \in OrdersOf(JobSlot)' : Lost(k)'
    BY <1>3, <1>9, <1>11 DEF OrdersOf, Known, Lost
  <2> QED BY <1>1, <1>3, <1>4, <1>8, <1>9, <1>10, <2>1, PlaceIs DEF PlaceSane
<1>13. CancelSane'
  BY <1>8 DEF CancelSane
<1>14. round' \in RoundSet /\ TicketsSane(round') /\ mishaps' \in 0..MaxMishaps /\ cp' = cp /\ seen' = seen
  BY <1>3 DEF StoreInv
<1> QED BY <1>5, <1>6, <1>8, <1>12, <1>13, <1>14, StoreChanges

LEMMA RefusedStep ==
  ASSUME StoreInv, act.at \in {"submit", "answer"}, Refused, \A k \in OrdersOf(JobSlot) : Lost(k),
         UNCHANGED <<orders, cp, seen, mishaps>>
  PROVE  StoreInv'
<1> DEFINE x == IF JobKind = "stop" /\ ~act.job.permit THEN NoIntent ELSE [st |-> "refused", oid |-> 0]
<1>1. intents' = [intents EXCEPT ![JobSlot] = x]
  BY DEF Refused
<1>2. x \in IntentSet /\ x.st \in {"none", "refused"}
  BY NoIntentIs
<1> HIDE DEF x
<1>3. Answered
  BY <1>1, <1>2, PlaceIs, OneAnswer
<1>4. Unplaced("raised") \/ Unplaced("refused")
  BY DEF Refused
<1> QED BY <1>3, <1>4, UnplacedStep

LEMMA RefuseSubmitStep == StoreInv /\ RefuseSubmit => StoreInv'
<1> SUFFICES ASSUME StoreInv, RefuseSubmit PROVE StoreInv'
  OBVIOUS
<1>1. act.at = "submit" /\ \A k \in OrdersOf(JobSlot) : Lost(k)
  BY DEF RefuseSubmit, StoreInv, PlaceSane
<1> QED BY <1>1, RefusedStep DEF RefuseSubmit

LEMMA AnswerStep == StoreInv /\ Answer => StoreInv'
<1> SUFFICES ASSUME StoreInv, Answer PROVE StoreInv'
  OBVIOUS
<1> DEFINE k == act.job.oid
<1>1. /\ act.at = "answer" /\ k \in OrdersOf(JobSlot) /\ \A j \in OrdersOf(JobSlot) : j = k \/ Lost(j)
      /\ UNCHANGED <<orders, cp, seen, mishaps>>
  BY DEF Answer, StoreInv, PlaceSane
<1>2. JobSlot \in Slots /\ k \in Known /\ k \in Oids /\ orders[k] \in OrderSet
  BY <1>1, PlaceIs, Types DEF OrdersOf
<1>3. CASE /\ orders[k].st \notin {"wire", "lost"} /\ Placed(k)
           /\ intents' = [intents EXCEPT ![JobSlot] = [st |-> "known", oid |-> k]]
  <2> DEFINE x == [st |-> "known", oid |-> k]
  <2>1. Visible(k)
    BY <1>2, <1>3 DEF Visible, OrderSet
  <2>2. intents' = [intents EXCEPT ![JobSlot] = x]
    BY <1>3
  <2>3. x \in IntentSet /\ x.st = "known" /\ x.oid = k
    BY <1>2 DEF IntentSet
  <2> HIDE DEF x, k
  <2>4. Answered
    BY <1>1, <1>2, <2>1, <2>2, <2>3, OneAnswer
  <2> QED BY <1>1, <1>3, <2>1, <2>4, PlacedStep
<1>4. CASE orders[k].st = "lost" /\ Refused
  <2>1. \A j \in OrdersOf(JobSlot) : Lost(j)
    BY <1>1, <1>4 DEF Lost
  <2> QED BY <1>1, <1>4, <2>1, RefusedStep
<1>5. CASE Unplaced("pending") /\ UNCHANGED intents
  <2>1. Answered
    BY <1>1, <1>5, SameAnswer
  <2> QED BY <1>1, <1>5, <2>1, UnplacedStep
<1> QED BY <1>3, <1>4, <1>5 DEF Answer

\* One order more, under a slot of which nothing is left
LEMMA SendStep == StoreInv /\ Send => StoreInv'
<1> SUFFICES ASSUME StoreInv, Send PROVE StoreInv'
  OBVIOUS
<1>1. PICK q \in 1..act.job.qty :
        orders' = Append(orders, [slot |-> JobSlot, st |-> "wire", qty |-> q, filled |-> 0])
  BY DEF Send
<1> DEFINE n == Len(orders) + 1
           o == [slot |-> JobSlot, st |-> "wire", qty |-> q, filled |-> 0]
<1>2. /\ act.at = "submit" /\ Len(orders) < MaxOrders
      /\ act' = [act EXCEPT !.at = "answer", !.job.oid = n]
      /\ UNCHANGED <<intents, cp, round, seen, mishaps>>
  BY DEF Send
<1>3. /\ JobSlot \in Slots /\ act.job \in JobSet /\ act.job.why \in Purposes \ {"none"}
      /\ act.job.why = "second" => round.tickets # <<>>
      /\ intents[JobSlot].st = "sent" /\ \A k \in OrdersOf(JobSlot) : Lost(k)
  BY <1>2, PlaceIs DEF StoreInv, PlaceSane
<1>4. o \in OrderSet /\ o.slot = JobSlot /\ o.st = "wire" /\ o.qty = q /\ o.filled = 0
      /\ q \in Nat \ {0}
  BY <1>3 DEF OrderSet, JobSet
<1> HIDE DEF o
<1>5. orders \in Seq(OrderSet) /\ Len(orders) \in Nat /\ Known = 1..Len(orders)
  BY Types DEF StoreInv
<1>6. /\ orders' \in Seq(OrderSet) /\ Len(orders') = n /\ Known' = Known \cup {n} /\ n \notin Known
      /\ orders'[n] = o /\ \A k \in Known : orders'[k] = orders[k]
  BY <1>1, <1>4, <1>5 DEF Known, o
<1>7. n \in Oids /\ Len(orders') <= MaxOrders
  BY <1>2, <1>5, <1>6, Bounds DEF Oids
<1> HIDE DEF n
<1>8. act \in ActSet /\ "answer" \in Ats
  BY DEF StoreInv, Ats
<1>9. act' \in ActSet /\ act'.at = "answer" /\ act'.job.oid = n /\ act'.job.why = act.job.why
      /\ act'.job.side = act.job.side /\ act'.job.rev = act.job.rev /\ act'.then = act.then
  <2> DEFINE j == [act.job EXCEPT !.oid = n]
  <2>1. j \in JobSet /\ j.oid = n /\ j.why = act.job.why /\ j.side = act.job.side /\ j.rev = act.job.rev
    BY <1>3, <1>7 DEF JobSet
  <2>2. act' = [act EXCEPT !.at = "answer", !.job = j]
    BY <1>2, <1>8 DEF ActSet
  <2> HIDE DEF j
  <2> QED BY <1>8, <2>1, <2>2 DEF ActSet
<1>10. JobSlot' = JobSlot
  BY <1>9, JobStays
<1>21. \A s : OrdersOf(s)' = {k \in Known' : orders'[k].slot = s}
  BY DEF OrdersOf
<1>11. /\ \A s : s # JobSlot => OrdersOf(s)' = OrdersOf(s)
       /\ OrdersOf(JobSlot)' = OrdersOf(JobSlot) \cup {n}
       /\ \A k \in Known : (Lost(k)' <=> Lost(k)) /\ (Visible(k)' <=> Visible(k)) /\ (Works(k)' <=> Works(k))
  <2>1. \A s : s # JobSlot => OrdersOf(s)' = OrdersOf(s)
    BY <1>4, <1>6, <1>21 DEF OrdersOf
  <2>2. OrdersOf(JobSlot)' = OrdersOf(JobSlot) \cup {n}
    BY <1>4, <1>6, <1>10, <1>21 DEF OrdersOf
  <2>3. \A k \in Known : (Lost(k)' <=> Lost(k)) /\ (Visible(k)' <=> Visible(k)) /\ (Works(k)' <=> Works(k))
    BY <1>6 DEF Lost, Visible, Works
  <2> QED BY <2>1, <2>2, <2>3
<1>12. ASSUME NEW k \in Known' PROVE OrderSane(k)'
  <2>1. CASE k = n
    BY <1>4, <1>6, <2>1 DEF OrderSane
  <2>2. CASE k \in Known
    <3>1. OrderSane(k)
      BY <2>2 DEF StoreInv
    <3> QED BY <1>6, <2>2, <3>1 DEF OrderSane, Works
  <2> QED BY <1>6, <2>1, <2>2
<1>13. SlotsUsedOnce'
  <2> SUFFICES ASSUME NEW j \in Known', NEW k \in Known', orders'[j].slot = orders'[k].slot,
                      ~Lost(j)', ~Lost(k)'
               PROVE  j = k
    BY DEF SlotsUsedOnce
  <2>1. \A i \in Known : orders[i].slot = JobSlot => Lost(i)
    BY <1>3 DEF OrdersOf
  <2>2. CASE j \in Known /\ k \in Known
    BY <1>6, <1>11, <2>2 DEF StoreInv, SlotsUsedOnce
  <2>3. CASE j = n \/ k = n
    BY <1>4, <1>6, <1>11, <2>1, <2>3
  <2> QED BY <1>6, <2>2, <2>3
<1>14. ASSUME NEW s \in Slots PROVE IntentSane(s)'
  <2>1. intents' = intents /\ IntentSane(s) /\ \A k \in OrdersOf(s) : k \in Known
    BY <1>2 DEF StoreInv, OrdersOf
  <2>2. CASE s = JobSlot
    BY <1>3, <2>1, <2>2 DEF IntentSane
  <2>3. CASE s # JobSlot
    <3>1. OrdersOf(s)' = OrdersOf(s)
      BY <1>11, <2>3
    <3>2. ASSUME intents[s].st = "known" PROVE Visible(intents[s].oid)'
      <4>1. intents[s].oid \in Known /\ Visible(intents[s].oid)
        BY <2>1, <3>2 DEF IntentSane
      <4>2. intents[s].oid \in Known' /\ orders'[intents[s].oid].st \in {"open", "ended"}
        BY <1>6, <4>1 DEF Visible
      <4> QED BY <2>1, <4>2 DEF Visible
    <3>3. ASSUME intents[s].st \in {"none", "refused", "absent"}
          PROVE  \A k \in OrdersOf(s)' : Lost(k)'
      BY <1>11, <2>1, <3>1, <3>3 DEF IntentSane
    <3> QED BY <2>1, <3>1, <3>2, <3>3 DEF IntentSane
  <2> QED BY <2>2, <2>3
<1>15. PlaceSane'
  <2>1. \A k \in OrdersOf(JobSlot) : k \in Known
    BY DEF OrdersOf
  <2>2. \A k \in OrdersOf(JobSlot)' : k = n \/ Lost(k)'
    BY <1>3, <1>11, <2>1
  <2>3. n \in OrdersOf(JobSlot)'
    BY <1>11
  <2>4. intents'[JobSlot].st = "sent" /\ round'.tickets = round.tickets
    BY <1>2, <1>3
  <2> QED BY <1>3, <1>9, <1>10, <2>2, <2>3, <2>4 DEF PlaceSane
<1>16. CancelSane'
  BY <1>9 DEF CancelSane
<1>17. ASSUME NEW r, TicketsSane(r)
       PROVE  IsInjective(r.tickets) /\ \A i \in DOMAIN r.tickets :
                r.tickets[i] \in Known' /\ orders'[r.tickets[i]].st \in {"open", "ended"}
  BY <1>6, <1>17 DEF TicketsSane, Visible
<1>18. TicketsSane(round)' /\ TicketsSane(cp)'
  <2>1. TicketsSane(round) /\ TicketsSane(cp) /\ round' = round /\ cp' = cp
    BY <1>2 DEF StoreInv
  <2> QED BY <1>17, <2>1 DEF TicketsSane, Visible
<1>19. ASSUME NEW k \in Oids PROVE SeenSane(k)'
  <2>1. SeenSane(k) /\ seen' = seen
    BY <1>2 DEF StoreInv
  <2>2. CASE k = n
    <3>1. seen[k] = Unseen
      BY <1>6, <2>1, <2>2 DEF SeenSane
    <3>2. Unseen.filled = 0 /\ Unseen.open = TRUE
      BY DEF Unseen
    <3> QED BY <1>4, <1>6, <2>1, <2>2, <3>1, <3>2 DEF SeenSane
  <2>3. CASE k # n
    BY <1>6, <1>11, <2>1, <2>3 DEF SeenSane
  <2> QED BY <2>2, <2>3
<1>20. /\ intents' \in [Slots -> IntentSet] /\ round' \in RoundSet /\ cp' \in RoundSet
       /\ seen' \in [Oids -> [open : BOOLEAN, filled : Nat]] /\ mishaps' \in 0..MaxMishaps
  BY <1>2 DEF StoreInv
<1> QED BY <1>6, <1>7, <1>9, <1>12, <1>13, <1>14, <1>15, <1>16, <1>18, <1>19, <1>20 DEF StoreInv
--------------------------------------------------------------------------------
(* Deciding: the coordinator moves on *)

LEMMA CalmStep ==
  ASSUME StoreInv, OrdersGo, UNCHANGED <<intents, cp, seen>>, mishaps' \in 0..MaxMishaps,
         Marked(round'), act' \in ActSet, PlaceSane', CancelSane'
  PROVE  StoreInv'
<1>1. round' \in RoundSet /\ TicketsSane(round')
  BY MarkedSane DEF Marked
<1> QED BY <1>1, StoreKeeps

\* Most decisions concern nothing but the coordinator.
Own == UNCHANGED <<orders, intents, cp, seen, mishaps>>

LEMMA OwnStep ==
  ASSUME StoreInv, Own, Marked(round'), act' \in ActSet, PlaceSane', CancelSane'
  PROVE  StoreInv'
<1>1. OrdersGo /\ mishaps' \in 0..MaxMishaps
  BY OrdersStay DEF Own, StoreInv
<1> QED BY <1>1, CalmStep DEF Own

Resting == Ats \ Restless

LEMMA RestingStep ==
  ASSUME StoreInv, Own, Marked(round'), act' \in ActSet, act'.at \in Resting
  PROVE  StoreInv'
BY OwnStep, QuietSane DEF Resting

LEMMA SavingStep ==
  ASSUME StoreInv, Own, Marked(round'), act' = Saving
  PROVE  StoreInv'
BY RestingStep, SavingIs DEF Resting, Restless, Ats

LEMMA AtStep ==
  ASSUME StoreInv, Own, Marked(round'), NEW where \in Resting, NEW then \in Thens,
         act' = At(where, then)
  PROVE  StoreInv'
<1>1. where \in Ats
  BY DEF Resting
<1>2. act' \in ActSet /\ act'.at = where
  BY <1>1, AtIs
<1> QED BY <1>2, RestingStep

LEMMA RefreshingIs ==
  ASSUME NEW then \in {"decide", "reduced", "flat", "flat2", "expired"}
  PROVE  Refreshing(then) \in ActSet /\ Refreshing(then).at = "refresh" /\ Refreshing(then).then = then
<1>1. "refresh" \in Ats /\ then \in Thens
  BY DEF Ats, Thens, Cancels
<1> QED BY <1>1, AtIs DEF Refreshing

LEMMA RefreshingStep ==
  ASSUME StoreInv, Own, Marked(round'),
         NEW then \in {"decide", "reduced", "flat", "flat2", "expired"}, act' = Refreshing(then)
  PROVE  StoreInv'
BY RefreshingIs, RefreshSane, OwnStep

LEMMA OpenCancelStep ==
  ASSUME StoreInv, Own, Marked(round'), NEW net \in Int,
         NEW then \in {"startup", "flat", "flat2", "expired", "entries"}, act' = Canceling(then, net)
  PROVE  StoreInv'
<1>1. then \in Cancels
  BY DEF Cancels
<1>2. act' \in ActSet /\ act'.at = "cancel" /\ act'.then = then
  BY <1>1, CancelingIs
<1> QED BY <1>2, OpenCancelSane, OwnStep

\* The working exit is canceled: it is a ticket.
LEMMA ExitCancelStep ==
  ASSUME StoreInv, Own, Marked(round'), NEW net \in Int, ActiveExit(net) # 0,
         NEW then \in {"exit", "stop"}, act' = Canceling(then, net),
         then = "exit" => round.revs[ExitSide(net)] < MaxRev
  PROVE  StoreInv'
<1>1. then \in Cancels
  BY DEF Cancels
<1>2. act' \in ActSet /\ act'.at = "cancel" /\ act'.then = then /\ act'.i = 1 /\ act'.net = net
  BY <1>1, CancelingIs
<1>3. PICK i \in DOMAIN round.tickets : ActiveExit(net) = round.tickets[i]
  BY ActiveIn
<1>4. round'.tickets = round.tickets /\ round'.revs = round.revs
  BY DEF Marked
<1>5. ActiveExit(act.net)' = ActiveExit(net)
  <2>1. \A side : SideAt(side)' = SideAt(side)
    BY <1>4 DEF SideAt, Side, Own
  <2> QED BY <1>2, <1>4, <2>1 DEF ActiveExit, LastAt, Own
<1>6. i \in Rest'
  <2>1. i >= 1
    BY Types
  <2>2. InScope(round.tickets[i])'
    BY <1>2, <1>3, <1>4, <1>5 DEF InScope
  <2> QED BY <1>2, <1>4, <2>1, <2>2 DEF Rest
<1>7. PlaceSane' /\ CancelSane'
  BY <1>1, <1>2, <1>4, <1>6 DEF PlaceSane, CancelSane
<1> QED BY <1>2, <1>7, OwnStep

LEMMA PlacingStep ==
  ASSUME StoreInv, Own, round' \in RoundSet, TicketsSane(round'),
         NEW why \in {"exit", "stop", "restop"}, NEW side \in Sides, NEW qty \in Nat, NEW rev \in Nat,
         NEW permit \in BOOLEAN,
         why = "exit" => rev \in 0..MaxRev, why \in {"stop", "restop"} => rev \in 0..1,
         act' = Placing(Job(why, side, qty, rev, permit))
  PROVE  StoreInv'
<1> DEFINE j == Job(why, side, qty, rev, permit)
<1>1. why \in Purposes
  BY DEF Purposes
<1>2. j \in JobSet /\ j.why = why /\ j.side = side /\ j.rev = rev
  BY <1>1, JobIs
<1> HIDE DEF j
<1>3. act' = Placing(j)
  BY DEF j
<1>4. act' \in ActSet /\ act'.at = "place" /\ act'.job = j
  BY <1>2, <1>3, PlacingIs
<1>5. PlaceSane' /\ CancelSane'
  BY <1>1, <1>2, <1>4, PlacingSane
<1>6. OrdersGo /\ mishaps' \in 0..MaxMishaps
  BY OrdersStay DEF Own, StoreInv
<1> QED BY <1>4, <1>5, <1>6, StoreKeeps DEF Own

LEMMA FinishIs ==
  ASSUME StoreInv, NEW phase \in Phases, Finish(phase)
  PROVE  Marked(round')
BY MarkedSane, MarkedIs, WordsIn DEF Finish

LEMMA SameRound == StoreInv /\ UNCHANGED round => Marked(round')
BY MarkedSane

LEMMA RetryStopStep ==
  ASSUME StoreInv, Own, NEW r, Marked(r), RetryStop(r)
  PROVE  StoreInv'
<1>1. r \in RoundSet /\ r.srev \in 0..1 /\ r.blocked \in BOOLEAN
  BY DEF Marked, RoundSet
<1>2. CASE /\ round' = [r EXCEPT !.phase = "hard_stop_recovery", !.why = "exhausted"]
           /\ act' = Saving
  <2>1. Marked(round')
    BY <1>2, MarkedIs, WordsIn
  <2> QED BY <1>2, <2>1, SavingStep
<1>3. CASE /\ ~(r.srev >= 1) /\ round' = r
           /\ act' = Placing(Job("restop", ExitSide(Net), Abs(Net), r.srev + 1, TRUE))
  <2>1. r.srev + 1 \in 0..1 /\ r.srev + 1 \in Nat
    BY <1>1, <1>3
  <2>2. round' \in RoundSet /\ TicketsSane(round')
    BY <1>1, <1>3, MarkedSane
  <2>3. ExitSide(Net) \in Sides /\ Abs(Net) \in Nat /\ TRUE \in BOOLEAN
    BY NetInt
  <2> HIDE DEF Marked
  <2> QED BY <1>3, <2>1, <2>2, <2>3, PlacingStep
<1>4. CASE /\ round' = [r EXCEPT !.phase = "hard_stop_recovery",
                                 !.why = IF r.blocked THEN "pending" ELSE "retry"]
           /\ act' = Saving
  <2>1. CASE r.blocked
    <3>1. round' = [r EXCEPT !.phase = "hard_stop_recovery", !.why = "pending"]
      BY <1>4, <2>1
    <3>2. Marked(round')
      BY <3>1, MarkedIs, WordsIn
    <3> QED BY <1>4, <3>2, SavingStep
  <2>2. CASE ~r.blocked
    <3>1. round' = [r EXCEPT !.phase = "hard_stop_recovery", !.why = "retry"]
      BY <1>4, <2>2
    <3>2. Marked(round')
      BY <3>1, MarkedIs, WordsIn
    <3> QED BY <1>4, <3>2, SavingStep
  <2> QED BY <2>1, <2>2
<1> QED BY <1>2, <1>3, <1>4 DEF RetryStop

LEMMA StoppingStep ==
  ASSUME StoreInv, Own, NEW r, Marked(r), Stopping(r)
  PROVE  StoreInv'
<1>1. CASE round' = [r EXCEPT !.phase = "hard_stop", !.why = "none"] /\ act' = Saving
  <2>1. Marked(round')
    BY <1>1, MarkedIs, WordsIn
  <2> QED BY <1>1, <2>1, SavingStep
<1>2. CASE RetryStop(r)
  BY <1>2, RetryStopStep
<1>3. CASE round' = r /\ act' = Saving
  BY <1>3, SavingStep
<1> QED BY <1>1, <1>2, <1>3 DEF Stopping

LEMMA RestingIn ==
  /\ {"idle", "save", "decide", "undo", "stop", "flat", "flat2", "expired", "reduced", "price",
      "recover", "recovered", "down", "done"} \subseteq Resting
  /\ "none" \in Thens
BY DEF Resting, Restless, Ats, Thens

LEMMA DecideRecoveryStep == StoreInv /\ DecideRecovery => StoreInv'
<1> SUFFICES ASSUME StoreInv, DecideRecovery PROVE StoreInv'
  OBVIOUS
<1>1. Own
  BY DEF DecideRecovery, Own
<1>2. CASE act' = At("recover", "none") /\ UNCHANGED round
  BY <1>1, <1>2, SameRound, RestingIn, AtStep
<1>3. CASE RetryStop(round)
  BY <1>1, <1>3, MarkedSane, RetryStopStep
<1>4. CASE act' = Canceling("startup", 0) /\ UNCHANGED round
  <2>1. 0 \in Int
    OBVIOUS
  <2> QED BY <1>1, <1>4, <2>1, SameRound, OpenCancelStep
<1>5. CASE act' = Saving /\ UNCHANGED round
  BY <1>1, <1>5, SameRound, SavingStep
<1> QED BY <1>2, <1>3, <1>4, <1>5 DEF DecideRecovery

LEMMA DecideStoppingStep == StoreInv /\ DecideStopping => StoreInv'
<1> SUFFICES ASSUME StoreInv, DecideStopping PROVE StoreInv'
  OBVIOUS
<1>1. Own /\ Stopping(round)
  BY DEF DecideStopping, Own
<1> QED BY <1>1, MarkedSane, StoppingStep

LEMMA ExposedMark == StoreInv => Marked([round EXCEPT !.phase = "exposed"])
                                 /\ Marked([round EXCEPT !.phase = "closing"])
                                 /\ Marked([round EXCEPT !.why = "none"])
<1> SUFFICES ASSUME StoreInv PROVE Marked([round EXCEPT !.phase = "exposed"])
                                   /\ Marked([round EXCEPT !.phase = "closing"])
                                   /\ Marked([round EXCEPT !.why = "none"])
  OBVIOUS
<1>1. "exposed" \in Phases /\ "closing" \in Phases /\ "none" \in Reasons /\ TRUE \in BOOLEAN
  BY WordsIn
<1>2. Marked(round)
  BY MarkedSane
<1> QED BY <1>1, <1>2, MarkedIs

LEMMA DecideTradedStep == StoreInv /\ DecideTraded => StoreInv'
<1> SUFFICES ASSUME StoreInv, DecideTraded PROVE StoreInv'
  OBVIOUS
<1>1. Own /\ 0 \in Int /\ Net \in Int
  BY NetInt DEF DecideTraded, Own
<1>2. CASE act' = Canceling("flat", 0) /\ UNCHANGED round
  BY <1>1, <1>2, SameRound, OpenCancelStep
<1>3. CASE act' = Canceling("entries", Net) /\ round' = [round EXCEPT !.phase = "exposed"]
  <2>1. Marked(round')
    BY <1>3, ExposedMark
  <2> QED BY <1>1, <1>3, <2>1, OpenCancelStep
<1> QED BY <1>2, <1>3 DEF DecideTraded

LEMMA DecideUntradedStep == StoreInv /\ DecideUntraded => StoreInv'
<1> SUFFICES ASSUME StoreInv, DecideUntraded PROVE StoreInv'
  OBVIOUS
<1>1. Own /\ UNCHANGED round /\ 0 \in Int
  BY DEF DecideUntraded, Own
<1>2. CASE act' = Saving
  BY <1>1, <1>2, SameRound, SavingStep
<1>3. CASE act' = Canceling("expired", 0)
  BY <1>1, <1>3, SameRound, OpenCancelStep
<1> QED BY <1>2, <1>3 DEF DecideUntraded

LEMMA DecideFlatStep == StoreInv /\ DecideFlat => StoreInv'
<1> SUFFICES ASSUME StoreInv, DecideFlat PROVE StoreInv'
  OBVIOUS
<1>1. Own /\ Net \in Int
  BY NetInt DEF DecideFlat, Own
<1>2. CASE act' = Canceling("entries", Net) /\ round' = [round EXCEPT !.phase = "exposed"]
  <2>1. Marked(round')
    BY <1>2, ExposedMark
  <2> QED BY <1>1, <1>2, <2>1, OpenCancelStep
<1>3. CASE act' = At("price", "none") /\ UNCHANGED round
  BY <1>1, <1>3, SameRound, RestingIn, AtStep
<1>4. CASE act' = Saving /\ round' = [round EXCEPT !.phase = "closing"]
  <2>1. Marked(round')
    BY <1>4, ExposedMark
  <2> QED BY <1>1, <1>4, <2>1, SavingStep
<1>5. CASE act' = Saving /\ Finish("complete")
  <2>1. Marked(round')
    BY <1>5, FinishIs, WordsIn
  <2> QED BY <1>1, <1>5, <2>1, SavingStep
<1> QED BY <1>2, <1>3, <1>4, <1>5 DEF DecideFlat

LEMMA DecideReducedStep == StoreInv /\ DecideReduced => StoreInv'
<1> SUFFICES ASSUME StoreInv, DecideReduced PROVE StoreInv'
  OBVIOUS
<1>1. Own /\ 0 \in Int
  BY DEF DecideReduced, Own
<1>2. CASE act' = Canceling("flat2", 0) /\ round' = [round EXCEPT !.phase = "closing"]
  <2>1. Marked(round')
    BY <1>2, ExposedMark
  <2> QED BY <1>1, <1>2, <2>1, OpenCancelStep
<1>3. CASE act' = At("price", "none") /\ UNCHANGED round
  BY <1>1, <1>3, SameRound, RestingIn, AtStep
<1> QED BY <1>2, <1>3 DEF DecideReduced

LEMMA DecideExpiredStep == StoreInv /\ DecideExpired => StoreInv'
<1> SUFFICES ASSUME StoreInv, DecideExpired PROVE StoreInv'
  OBVIOUS
<1>1. Own
  BY DEF DecideExpired, Own
<1>2. CASE act' = Refreshing("decide") /\ UNCHANGED round
  BY <1>1, <1>2, SameRound, RefreshingStep
<1>3. CASE act' = Saving /\ UNCHANGED round
  BY <1>1, <1>3, SameRound, SavingStep
<1>4. CASE act' = Saving /\ Finish("expired")
  <2>1. Marked(round')
    BY <1>4, FinishIs, WordsIn
  <2> QED BY <1>1, <1>4, <2>1, SavingStep
<1> QED BY <1>2, <1>3, <1>4 DEF DecideExpired

LEMMA StepStep == StoreInv /\ Step => StoreInv'
<1> SUFFICES ASSUME StoreInv, Step PROVE StoreInv'
  OBVIOUS
<1>1. Own /\ act' = Refreshing("decide") /\ UNCHANGED round
  BY DEF Step, Own
<1> QED BY <1>1, SameRound, RefreshingStep
--------------------------------------------------------------------------------
(* The exit and the stop *)

LEMMA NoPriceStep == StoreInv /\ NoPrice => StoreInv'
<1> SUFFICES ASSUME StoreInv, NoPrice PROVE StoreInv'
  OBVIOUS
<1>1. Own /\ act' = Saving /\ UNCHANGED round
  BY DEF NoPrice, Own
<1> QED BY <1>1, SameRound, SavingStep

LEMMA BreachStep == StoreInv /\ Breach => StoreInv'
<1> SUFFICES ASSUME StoreInv, Breach PROVE StoreInv'
  OBVIOUS
<1>1. Own /\ round' = [round EXCEPT !.why = "none"]
  BY DEF Breach, Own
<1>2. Marked(round') /\ TicketsSane(round') /\ round' \in RoundSet
  BY <1>1, ExposedMark, MarkedSane DEF Marked
<1>3. Net \in Int /\ ExitSide(Net) \in Sides /\ Abs(Net) \in Nat /\ FALSE \in BOOLEAN
  BY NetInt
<1>4. CASE ActiveExit(Net) # 0
  <2>1. act' = Canceling("stop", Net)
    BY <1>4 DEF Breach
  <2> QED BY <1>1, <1>2, <1>3, <1>4, <2>1, ExitCancelStep
<1>5. CASE ActiveExit(Net) = 0
  <2>1. act' = Placing(Job("stop", ExitSide(Net), Abs(Net), round.srev, FALSE))
    BY <1>5 DEF Breach
  <2>2. round.srev \in 0..1 /\ round.srev \in Nat
    BY DEF StoreInv, RoundSet
  <2> QED BY <1>1, <1>2, <1>3, <2>1, <2>2, PlacingStep
<1> QED BY <1>4, <1>5

LEMMA KeepExitStep == StoreInv /\ KeepExit => StoreInv'
<1> SUFFICES ASSUME StoreInv, KeepExit PROVE StoreInv'
  OBVIOUS
<1>1. Own /\ act' = Saving /\ round' = [round EXCEPT !.why = "none"]
  BY DEF KeepExit, Own
<1> QED BY <1>1, ExposedMark, SavingStep

LEMMA ReplaceExitStep == StoreInv /\ ReplaceExit => StoreInv'
<1> SUFFICES ASSUME StoreInv, ReplaceExit PROVE StoreInv'
  OBVIOUS
<1>1. /\ Own /\ act' = Canceling("exit", Net) /\ round' = [round EXCEPT !.why = "none"]
      /\ ActiveExit(Net) # 0 /\ round.revs[ExitSide(Net)] < MaxRev
  BY DEF ReplaceExit, Own
<1>2. Marked(round') /\ Net \in Int
  BY <1>1, ExposedMark, NetInt
<1> QED BY <1>1, <1>2, ExitCancelStep

\* A revision is written.
LEMMA RevisionIs ==
  ASSUME StoreInv, NEW side \in Sides, NEW rev \in 0..MaxRev
  PROVE  /\ [round EXCEPT !.revs[side] = rev] \in RoundSet
         /\ [round EXCEPT !.revs[side] = rev].tickets = round.tickets
         /\ [round EXCEPT !.revs[side] = rev].revs[side] = rev
<1> DEFINE v == [round.revs EXCEPT ![side] = rev]
<1>1. round \in RoundSet /\ v \in [Sides -> 0..MaxRev] /\ v[side] = rev
  BY DEF StoreInv, RoundSet
<1>2. [round EXCEPT !.revs[side] = rev] = [round EXCEPT !.revs = v]
  BY <1>1 DEF RoundSet
<1> HIDE DEF v
<1> QED BY <1>1, <1>2 DEF RoundSet

LEMMA PlaceExitStep == StoreInv /\ PlaceExit => StoreInv'
<1> SUFFICES ASSUME StoreInv, PlaceExit PROVE StoreInv'
  OBVIOUS
<1> DEFINE side == ExitSide(Net)
           k == LatestLimit(side)
           rev == NextRevision(side, k)
           r == [round EXCEPT !.revs[side] = rev]
<1>1. /\ Own /\ rev <= MaxRev
      /\ round' = [round EXCEPT !.revs[side] = rev, !.why = "none"]
      /\ act' = Placing(Job("exit", side, Abs(Net), rev, FALSE))
  BY DEF PlaceExit, Own
<1>2. side \in Sides /\ Abs(Net) \in Nat /\ FALSE \in BOOLEAN
  BY NetInt
<1>3. round.revs[side] \in Nat
  BY <1>2 DEF StoreInv, RoundSet
<1>4. rev \in Nat
  <2>1. k = 0 \/ k \in Known
    BY LatestIn
  <2>2. CASE k \in Known
    <3>1. orders[k].slot \in Slots
      BY <2>2, Types DEF OrderSet
    <3>2. orders[k].slot[3] \in Nat
      BY <3>1, Bounds DEF Slots
    <3> QED BY <1>3, <3>2 DEF NextRevision
  <2>3. CASE k = 0
    BY <1>3, <2>3 DEF NextRevision
  <2> QED BY <2>1, <2>2, <2>3
<1> HIDE DEF rev, side
<1>5. rev \in 0..MaxRev
  BY <1>1, <1>4, Bounds
<1>6. r \in RoundSet /\ r.tickets = round.tickets
  BY <1>2, <1>5, RevisionIs
<1>7. round' = [r EXCEPT !.why = "none"]
  BY <1>1
<1> HIDE DEF r
<1>8. round' \in RoundSet /\ round'.tickets = round.tickets
  BY <1>6, <1>7, WordsIn DEF RoundSet
<1>9. TicketsSane(round')
  BY <1>8 DEF StoreInv, TicketsSane
<1> QED BY <1>1, <1>2, <1>4, <1>5, <1>8, <1>9, PlacingStep

LEMMA ExitCanceledStep == StoreInv /\ ExitCanceled => StoreInv'
<1> SUFFICES ASSUME StoreInv, ExitCanceled PROVE StoreInv'
  OBVIOUS
<1> DEFINE side == ExitSide(act.net)
           rev == round.revs[side] + 1
           bumped == [round EXCEPT !.revs[side] = rev]
<1>1. Own /\ act.at = "exit"
  BY DEF ExitCanceled, Own
<1>2. side \in Sides /\ Abs(Net) \in Nat
  BY NetInt
<1>3. rev \in 0..MaxRev
  <2>1. round.revs[side] < MaxRev
    BY <1>1 DEF StoreInv, CancelSane
  <2>2. round.revs[side] \in 0..MaxRev
    BY <1>2 DEF StoreInv, RoundSet
  <2> QED BY <2>1, <2>2, Bounds
<1>4. bumped \in RoundSet /\ bumped.tickets = round.tickets /\ bumped.revs[side] = rev
  <2> HIDE DEF rev, side
  <2> QED BY <1>2, <1>3, RevisionIs
<1>5. CASE Finish("complete") /\ act' = Saving
  <2>1. Marked(round')
    BY <1>5, FinishIs, WordsIn
  <2> QED BY <1>1, <1>5, <2>1, SavingStep
<1>6. CASE round' = bumped /\ act' = Saving
  <2>1. TicketsSane(round') /\ round' \in RoundSet
    BY <1>4, <1>6 DEF StoreInv, TicketsSane
  <2>2. act' \in ActSet /\ PlaceSane' /\ CancelSane'
    BY <1>6, SavingIs, QuietSane DEF Restless
  <2>3. OrdersGo /\ mishaps' \in 0..MaxMishaps
    BY <1>1, OrdersStay DEF Own, StoreInv
  <2> QED BY <1>1, <2>1, <2>2, <2>3, StoreKeeps DEF Own
<1>7. CASE /\ round' = bumped
           /\ act' = Placing(Job("exit", side, ExitQty(act.net), bumped.revs[side], TRUE))
  <2>1. TicketsSane(round') /\ round' \in RoundSet
    BY <1>4, <1>7 DEF StoreInv, TicketsSane
  <2>2. act' = Placing(Job("exit", side, Abs(Net), rev, TRUE))
    BY <1>4, <1>7 DEF ExitQty
  <2>3. rev \in Nat /\ TRUE \in BOOLEAN
    BY <1>3
  <2> HIDE DEF side, rev, bumped
  <2> QED BY <1>1, <1>2, <1>3, <2>1, <2>2, <2>3, PlacingStep
<1>8. bumped = [round EXCEPT !.revs[side] = @ + 1]
  OBVIOUS
<1> HIDE DEF rev, bumped
<1> QED BY <1>5, <1>6, <1>7, <1>8 DEF ExitCanceled

LEMMA StopExitCanceledStep == StoreInv /\ StopExitCanceled => StoreInv'
<1> SUFFICES ASSUME StoreInv, StopExitCanceled PROVE StoreInv'
  OBVIOUS
<1>1. Own
  BY DEF StopExitCanceled, Own
<1>2. CASE Finish("hard_stop") /\ act' = Saving
  <2>1. Marked(round')
    BY <1>2, FinishIs, WordsIn
  <2> QED BY <1>1, <1>2, <2>1, SavingStep
<1>3. CASE act' = Saving /\ UNCHANGED round
  BY <1>1, <1>3, SameRound, SavingStep
<1>4. CASE /\ act' = Placing(Job("stop", ExitSide(act.net), ExitQty(act.net), round.srev, TRUE))
           /\ UNCHANGED round
  <2>1. ExitSide(act.net) \in Sides /\ ExitQty(act.net) \in Nat /\ TRUE \in BOOLEAN
    BY NetInt DEF ExitQty
  <2>2. round.srev \in 0..1 /\ round.srev \in Nat
    BY DEF StoreInv, RoundSet
  <2>3. round' \in RoundSet /\ TicketsSane(round')
    BY <1>4 DEF StoreInv
  <2> QED BY <1>1, <1>4, <2>1, <2>2, <2>3, PlacingStep
<1> QED BY <1>2, <1>3, <1>4 DEF StopExitCanceled
--------------------------------------------------------------------------------
(* Looking: the snapshots, and the tickets that are kept *)

SeenSet == [open : BOOLEAN, filled : Nat]

LEMMA SnapshotIs ==
  StoreInv => Unseen \in SeenSet /\ \A k \in Known : Snapshot(k) \in SeenSet
<1> SUFFICES ASSUME StoreInv PROVE Unseen \in SeenSet /\ \A k \in Known : Snapshot(k) \in SeenSet
  OBVIOUS
<1>1. \A k \in Known : orders[k].filled \in Nat
  BY Types DEF OrderSet
<1> QED BY <1>1 DEF Snapshot, Unseen, SeenSet

LEMMA SeenAgain ==
  ASSUME StoreInv, orders' = orders,
         \A k \in Oids : \/ seen'[k] = seen[k] \/ seen'[k] = Unseen
                         \/ Visible(k) /\ seen'[k] = Snapshot(k)
  PROVE  \A k \in Oids : SeenSane(k)'
<1> SUFFICES ASSUME NEW k \in Oids PROVE SeenSane(k)'
  OBVIOUS
<1>1. /\ SeenSane(k) /\ Known' = Known /\ orders'[k] = orders[k]
      /\ k \in Known => orders[k].filled \in Nat
  BY Types DEF StoreInv, Known, OrderSet
<1>2. CASE seen'[k] = seen[k]
  BY <1>1, <1>2 DEF SeenSane, Works
<1>3. CASE seen'[k] = Unseen
  <2>1. Unseen.filled = 0 /\ Unseen.open = TRUE
    BY DEF Unseen
  <2>2. k \in Known => Unseen.filled <= orders[k].filled
    BY <1>1, <2>1
  <2> QED BY <1>1, <1>3, <2>1, <2>2 DEF SeenSane
<1>4. CASE Visible(k) /\ seen'[k] = Snapshot(k)
  <2>1. k \in Known /\ Snapshot(k).filled = orders[k].filled /\ Snapshot(k).open = (orders[k].st = "open")
    BY <1>4 DEF Visible, Snapshot
  <2>2. Works(k)' => orders[k].st = "open"
    BY <1>1, <1>4 DEF Works, Visible
  <2>3. Snapshot(k).filled <= orders[k].filled
    BY <1>1, <2>1
  <2> QED BY <1>1, <1>4, <2>1, <2>2, <2>3 DEF SeenSane
<1> QED BY <1>2, <1>3, <1>4

\* The coordinator looks, and stores nothing.
LEMMA LookStep ==
  ASSUME StoreInv, UNCHANGED <<orders, intents, cp>>, mishaps' \in 0..MaxMishaps,
         seen' \in [Oids -> SeenSet],
         \A k \in Oids : \/ seen'[k] = seen[k] \/ seen'[k] = Unseen
                         \/ Visible(k) /\ seen'[k] = Snapshot(k),
         round' \in RoundSet, TicketsSane(round'), act' \in ActSet, PlaceSane', CancelSane'
  PROVE  StoreInv'
<1>1. OrdersGo
  BY OrdersStay
<1>2. intents' \in [Slots -> IntentSet] /\ \A s \in Slots : IntentSane(s)'
  BY <1>1, IntentsStay DEF StoreInv
<1>3. \A k \in Oids : SeenSane(k)'
  BY SeenAgain
<1>4. seen' \in [Oids -> [open : BOOLEAN, filled : Nat]]
  BY DEF SeenSet
<1> QED BY <1>1, <1>2, <1>3, <1>4, StoreParts

\* One ticket is looked at.
LEMMA LookAt ==
  ASSUME StoreInv, NEW k, Visible(k), seen' = [seen EXCEPT ![k] = Snapshot(k)]
  PROVE  /\ seen' \in [Oids -> SeenSet]
         /\ \A j \in Oids : \/ seen'[j] = seen[j] \/ seen'[j] = Unseen
                            \/ Visible(j) /\ seen'[j] = Snapshot(j)
<1>1. k \in Oids /\ k \in Known /\ seen \in [Oids -> SeenSet] /\ Snapshot(k) \in SeenSet
  BY Types, SnapshotIs DEF Visible, StoreInv, SeenSet
<1>2. \A j \in Oids : seen'[j] = IF j = k THEN Snapshot(k) ELSE seen[j]
  BY <1>1
<1> QED BY <1>1, <1>2

LEMMA RefreshStep == StoreInv /\ Refresh => StoreInv'
<1> SUFFICES ASSUME StoreInv, Refresh PROVE StoreInv'
  OBVIOUS
<1> DEFINE k == round.tickets[act.i]
<1>1. /\ act.at = "refresh" /\ act.i <= Len(round.tickets) /\ seen' = [seen EXCEPT ![k] = Snapshot(k)]
      /\ act' = [act EXCEPT !.i = @ + 1] /\ UNCHANGED <<orders, intents, cp, round, mishaps>>
  BY DEF Refresh
<1>2. act.i \in DOMAIN round.tickets
  BY <1>1, Types
<1>3. Visible(k)
  BY <1>2 DEF StoreInv, TicketsSane
<1> HIDE DEF k
<1>4. /\ seen' \in [Oids -> SeenSet]
      /\ \A j \in Oids : \/ seen'[j] = seen[j] \/ seen'[j] = Unseen
                         \/ Visible(j) /\ seen'[j] = Snapshot(j)
  BY <1>1, <1>3, LookAt
<1>5. act' \in ActSet /\ act'.at = "refresh" /\ act'.then = act.then
  <2> DEFINE n == act.i + 1
  <2>1. act \in ActSet /\ n \in Nat \ {0}
    BY Types DEF StoreInv
  <2>2. act' = [act EXCEPT !.i = n]
    BY <1>1, <2>1 DEF ActSet
  <2> HIDE DEF n
  <2> QED BY <1>1, <2>1, <2>2 DEF ActSet
<1>6. PlaceSane' /\ CancelSane'
  <2>1. act.then \in {"decide", "reduced", "flat", "flat2", "expired"}
    BY <1>1 DEF StoreInv, CancelSane
  <2> QED BY <1>5, <2>1, RefreshSane
<1>7. round' \in RoundSet /\ TicketsSane(round') /\ mishaps' \in 0..MaxMishaps
  BY <1>1 DEF StoreInv
<1> QED BY <1>1, <1>4, <1>5, <1>6, <1>7, LookStep

LEMMA KeptIs ==
  ASSUME StoreInv
  PROVE  /\ KeptTickets \in Seq(Oids) /\ IsInjective(KeptTickets)
         /\ Range(KeptTickets) = {k \in Tickets : Kept(k)}
<1> DEFINE S == {i \in DOMAIN round.tickets : Kept(round.tickets[i])}
<1>1. round.tickets \in Seq(Oids) /\ IsInjective(round.tickets)
  BY DEF StoreInv, RoundSet, TicketsSane
<1>2. KeptTickets = Picked(round.tickets, S)
  BY DEF KeptTickets, Picked, Ascending, Sorted
<1>3. S \in SUBSET DOMAIN round.tickets
  OBVIOUS
<1>4. {round.tickets[i] : i \in S} = {k \in Tickets : Kept(k)}
  BY DEF Tickets, Range
<1> HIDE DEF S
<1> QED BY <1>1, <1>2, <1>3, <1>4, PickedLists

LEMMA RefreshedStep == StoreInv /\ Refreshed => StoreInv'
<1> SUFFICES ASSUME StoreInv, Refreshed PROVE StoreInv'
  OBVIOUS
<1>1. /\ act.at = "refresh" /\ round' = [round EXCEPT !.tickets = KeptTickets]
      /\ seen' = [k \in Oids |-> IF k \in Tickets /\ Kept(k) THEN seen[k] ELSE Unseen]
      /\ act' = [At(act.then, "none") EXCEPT !.flag = act.flag]
      /\ UNCHANGED <<orders, intents, cp, mishaps>>
  BY DEF Refreshed
<1>2. seen' \in [Oids -> SeenSet]
  <2>1. \A k \in Oids : seen[k] \in SeenSet /\ Unseen \in SeenSet
    BY SnapshotIs DEF StoreInv, SeenSet
  <2>2. \A k \in Oids : (IF k \in Tickets /\ Kept(k) THEN seen[k] ELSE Unseen) \in SeenSet
    BY <2>1
  <2> QED BY <1>1, <2>2
<1>3. \A k \in Oids : seen'[k] = seen[k] \/ seen'[k] = Unseen
  BY <1>1
<1>4. round' \in RoundSet /\ round'.tickets = KeptTickets
  <2>1. KeptTickets \in Seq(Oids) /\ round \in RoundSet
    BY KeptIs DEF StoreInv
  <2> QED BY <1>1, <2>1 DEF RoundSet
<1>5. TicketsSane(round')
  <2> DEFINE t == KeptTickets
  <2>1. IsInjective(t) /\ Range(t) \subseteq Tickets
    BY KeptIs
  <2>2. \A k \in Tickets : Visible(k)
    BY DEF StoreInv, TicketsSane, Tickets, Range
  <2>3. round'.tickets = t
    BY <1>4
  <2> HIDE DEF t
  <2>4. \A i \in DOMAIN t : t[i] \in Range(t)
    BY DEF Range
  <2> QED BY <2>1, <2>2, <2>3, <2>4 DEF TicketsSane
<1>6. act' \in ActSet /\ PlaceSane' /\ CancelSane'
  <2>1. act.then \in {"decide", "reduced", "flat", "flat2", "expired"}
    BY <1>1 DEF StoreInv, CancelSane
  <2>2. act.then \in Ats /\ act.then \notin Restless /\ "none" \in Thens
    BY <2>1 DEF Ats, Restless, Thens
  <2> DEFINE a == At(act.then, "none")
  <2>3. a \in ActSet /\ a.at = act.then /\ act.flag \in BOOLEAN
    BY <2>2, AtIs, Types
  <2>4. act' = [a EXCEPT !.flag = act.flag]
    BY <1>1
  <2> HIDE DEF a
  <2>5. act' \in ActSet /\ act'.at = act.then
    BY <2>3, <2>4 DEF ActSet
  <2> QED BY <2>2, <2>5, QuietSane
<1>7. mishaps' \in 0..MaxMishaps
  BY <1>1 DEF StoreInv
<1> QED BY <1>1, <1>2, <1>3, <1>4, <1>5, <1>6, <1>7, LookStep
--------------------------------------------------------------------------------
(* Canceling *)

\* One order goes on.
LEMMA OrderChange ==
  ASSUME StoreInv, NEW k \in Known, NEW o \in OrderSet, orders' = [orders EXCEPT ![k] = o],
         o.slot = orders[k].slot, o.filled >= orders[k].filled, o.filled <= o.qty,
         o.st \in {"wire", "open"} => Works(k) /\ o.filled < o.qty,
         orders[k].st \in {"open", "ended"} => o.st \in {"open", "ended"},
         orders[k].st = "lost" => o.st = "lost"
  PROVE  OrdersGo
<1>1. orders \in Seq(OrderSet) /\ Known = 1..Len(orders) /\ Len(orders) \in Nat
  BY Types DEF StoreInv
<1>2. /\ orders' \in Seq(OrderSet) /\ Len(orders') = Len(orders)
      /\ orders'[k] = o /\ \A j \in Known : j # k => orders'[j] = orders[j]
  BY <1>1
<1>3. Known' = Known
  BY <1>1, <1>2 DEF Known
<1>4. ASSUME NEW j \in Known
      PROVE  /\ orders'[j].slot = orders[j].slot /\ orders'[j].filled >= orders[j].filled
             /\ OrderSane(j)' /\ (Works(j)' => Works(j))
             /\ (Visible(j) => Visible(j)') /\ (Lost(j) => Lost(j)')
  <2>1. CASE j = k
    BY <1>2, <1>3, <2>1 DEF OrderSane, Works, Visible, Lost
  <2>2. CASE j # k
    <3>1. orders'[j] = orders[j] /\ OrderSane(j) /\ orders[j].filled \in Nat
      BY <1>2, <2>2, Types DEF StoreInv, OrderSet
    <3>2. orders[j].filled >= orders[j].filled
      BY <3>1
    <3> QED BY <1>3, <3>1, <3>2 DEF OrderSane, Works, Visible, Lost
  <2> QED BY <2>1, <2>2
<1> QED BY <1>2, <1>3, <1>4 DEF OrdersGo

\* The cancel of an order the venue has shown
LEMMA CancelOrder ==
  ASSUME StoreInv, Rest # {},
         \/ orders' = [orders EXCEPT ![Target].st = IF @ = "open" THEN "ended" ELSE @]
         \/ UNCHANGED orders
  PROVE  OrdersGo
<1> DEFINE k == Target
           o == [orders[k] EXCEPT !.st = "ended"]
<1>1. k \in Known /\ orders[k].st \in {"open", "ended"} /\ orders[k] \in OrderSet /\ OrderSane(k)
  BY TargetIn, Types DEF Visible, StoreInv
<1>2. CASE orders' = [orders EXCEPT ![k].st = IF @ = "open" THEN "ended" ELSE @]
  <2>1. o \in OrderSet /\ o.st = "ended" /\ o.slot = orders[k].slot /\ o.qty = orders[k].qty
        /\ o.filled = orders[k].filled /\ orders[k].filled \in Nat
    BY <1>1 DEF OrderSet
  <2>2. orders' = [orders EXCEPT ![k] = o]
    BY <1>1, <1>2 DEF OrderSet
  <2> HIDE DEF o, k
  <2>3. o.filled >= orders[k].filled /\ o.filled <= o.qty
    BY <1>1, <2>1 DEF OrderSane
  <2> QED BY <1>1, <2>1, <2>2, <2>3, OrderChange
<1>3. CASE UNCHANGED orders
  BY <1>3, OrdersStay
<1> QED BY <1>2, <1>3

\* The place of the cancel
LEMMA CancelMoves ==
  ASSUME StoreInv, NEW where \in Ats, NEW i \in Nat \ {0}, NEW flag \in BOOLEAN
  PROVE  /\ [act EXCEPT !.at = where] \in ActSet /\ [act EXCEPT !.at = where].at = where
         /\ [act EXCEPT !.at = where].then = act.then /\ [act EXCEPT !.at = where].i = act.i
         /\ [act EXCEPT !.at = where].net = act.net /\ [act EXCEPT !.at = where].flag = act.flag
         /\ [act EXCEPT !.at = where, !.i = i] \in ActSet
         /\ [act EXCEPT !.at = where, !.i = i].at = where
         /\ [act EXCEPT !.at = where, !.i = i].then = act.then
         /\ [act EXCEPT !.at = where, !.i = i].net = act.net
         /\ [act EXCEPT !.at = where, !.i = i].flag = act.flag
         /\ [act EXCEPT !.at = where, !.i = i, !.flag = flag] \in ActSet
         /\ [act EXCEPT !.at = where, !.i = i, !.flag = flag].at = where
         /\ [act EXCEPT !.at = where, !.i = i, !.flag = flag].then = act.then
         /\ [act EXCEPT !.i = i] \in ActSet /\ [act EXCEPT !.i = i].at = act.at
         /\ [act EXCEPT !.i = i].then = act.then
<1>1. act \in ActSet
  BY DEF StoreInv
<1> QED BY <1>1 DEF ActSet

LEMMA CancelFailedIs ==
  ASSUME StoreInv, act.at \in {"cancel", "status"}, Rest # {}, CancelFailed
  PROVE  /\ Marked(round') /\ act' \in ActSet
         /\ \/ act'.at = "save"
            \/ /\ act'.at = "cancel" /\ act'.then = act.then
               /\ act.then \in {"flat", "flat2", "expired"}
         /\ act.then = "undo" => act'.at = "save" /\ (act.flag => Pending')
         /\ act.then # "undo" => round' = round
<1> DEFINE n == Min(Rest) + 1
<1>1. n \in Nat \ {0} /\ act.then \in Cancels /\ act.flag \in BOOLEAN
  BY TargetIn, Types DEF StoreInv, CancelSane
<1>2. "cancel" \in Ats /\ TRUE \in BOOLEAN
  BY DEF Ats
<1>3. CASE act.then \in {"startup", "entries", "exit", "stop"}
  <2>1. act' = Saving /\ round' = round
    BY <1>3 DEF CancelFailed
  <2> QED BY <1>3, <2>1, SavingIs, MarkedSane
<1>4. CASE act.then \in {"flat", "flat2"}
  <2>1. act' = [act EXCEPT !.at = "cancel", !.i = n, !.flag = TRUE] /\ round' = round
    BY <1>4 DEF CancelFailed
  <2>2. act' \in ActSet /\ act'.at = "cancel" /\ act'.then = act.then
    <3>1. act \in ActSet
      BY DEF StoreInv
    <3> HIDE DEF n
    <3> QED BY <1>1, <1>2, <2>1, <3>1 DEF ActSet
  <2> QED BY <1>4, <2>1, <2>2, MarkedSane
<1>5. CASE act.then = "expired"
  <2>1. act' = [act EXCEPT !.i = n] /\ round' = round
    BY <1>5 DEF CancelFailed
  <2>2. act.at = "cancel"
    BY <1>5 DEF StoreInv, CancelSane
  <2>3. act' \in ActSet /\ act'.at = act.at /\ act'.then = act.then
    <3> HIDE DEF n
    <3> QED BY <1>1, <1>2, <2>1, CancelMoves
  <2> QED BY <1>5, <2>1, <2>2, <2>3, MarkedSane
<1>6. CASE act.then = "undo"
  <2>1. /\ act' = Saving
        /\ round' = [round EXCEPT !.phase = "startup_recovery",
                                  !.why = IF act.flag THEN "pending" ELSE "none"]
    BY <1>6 DEF CancelFailed
  <2>2. (IF act.flag THEN "pending" ELSE "none") \in Reasons
    BY WordsIn
  <2>3. Marked(round')
    BY <2>1, <2>2, MarkedSane, MarkedIs, WordsIn
  <2>4. ASSUME act.flag PROVE Pending'
    <3>1. round'.phase = "startup_recovery" /\ round'.why = "pending"
      BY <2>1, <2>4 DEF StoreInv, RoundSet
    <3> QED BY <3>1 DEF Pending
  <2> QED BY <1>6, <2>1, <2>3, <2>4, SavingIs
<1> QED BY <1>1, <1>3, <1>4, <1>5, <1>6 DEF Cancels

LEMMA CancelFailedSane ==
  ASSUME StoreInv, act.at \in {"cancel", "status"}, Rest # {}, CancelFailed
  PROVE  /\ Marked(round') /\ round' \in RoundSet /\ TicketsSane(round')
         /\ act' \in ActSet /\ PlaceSane' /\ CancelSane'
<1>1. /\ Marked(round') /\ act' \in ActSet
      /\ \/ act'.at = "save"
         \/ act'.at = "cancel" /\ act'.then \in {"flat", "flat2", "expired"}
  BY CancelFailedIs
<1>2. PlaceSane' /\ CancelSane'
  BY <1>1, QuietSane, OpenCancelSane DEF Restless
<1> QED BY <1>1, <1>2, MarkedSane DEF Marked

LEMMA CancelIs ==
  ASSUME StoreInv, act.at \in {"cancel", "status"}
  PROVE  /\ act.then \in Cancels
         /\ act.at = "status" => Rest # {} /\ act.then # "expired"
         /\ act.then = "exit" => round.revs[ExitSide(act.net)] < MaxRev
BY DEF StoreInv, CancelSane

LEMMA CancelStepStays == StoreInv /\ Cancel => StoreInv'
<1> SUFFICES ASSUME StoreInv, Cancel PROVE StoreInv'
  OBVIOUS
<1> DEFINE n == Min(Rest) + 1
<1>1. /\ act.at = "cancel" /\ Rest # {} /\ UNCHANGED <<intents, cp, seen, mishaps>>
  BY DEF Cancel
<1>2. OrdersGo /\ mishaps' \in 0..MaxMishaps
  BY <1>1, CancelOrder DEF Cancel, StoreInv
<1>3. n \in Nat \ {0} /\ "status" \in Ats /\ act.flag \in BOOLEAN /\ "cancel" \in Ats
  BY <1>1, TargetIn, Types DEF Ats
<1>4. CASE CancelFailed
  BY <1>1, <1>2, <1>4, CancelFailedSane, CalmStep
<1>5. CASE act.then = "expired" /\ act' = [act EXCEPT !.i = n] /\ UNCHANGED round
  <2>1. act' \in ActSet /\ act'.at = "cancel" /\ act'.then = "expired"
    <3> HIDE DEF n
    <3> QED BY <1>1, <1>3, <1>5, CancelMoves
  <2> QED BY <1>1, <1>2, <1>5, <2>1, OpenCancelSane, SameRound, CalmStep
<1>6. CASE act.then # "expired" /\ act' = [act EXCEPT !.at = "status"] /\ UNCHANGED round
  <2>1. /\ act' \in ActSet /\ act'.at = "status" /\ act'.then = act.then /\ act'.i = act.i
        /\ act'.net = act.net
    <3> HIDE DEF n
    <3> QED BY <1>3, <1>6, CancelMoves
  <2>2. Rest' = Rest
    BY <1>1, <1>2, <1>6, <2>1, RestStays
  <2>3. PlaceSane' /\ CancelSane'
    BY <1>1, <1>6, <2>1, <2>2, CancelIs DEF PlaceSane, CancelSane
  <2> QED BY <1>1, <1>2, <1>6, <2>1, <2>3, SameRound, CalmStep
<1> QED BY <1>4, <1>5, <1>6 DEF Cancel

LEMMA CancelStatusStep == StoreInv /\ CancelStatus => StoreInv'
<1> SUFFICES ASSUME StoreInv, CancelStatus PROVE StoreInv'
  OBVIOUS
<1> DEFINE n == Min(Rest) + 1
           where == IF act.then \in {"exit", "stop", "undo"} THEN act.then ELSE "cancel"
<1>1. /\ act.at = "status" /\ Rest # {} /\ act.then \in Cancels /\ act.then # "expired"
      /\ seen' = [seen EXCEPT ![Target] = Snapshot(Target)]
      /\ UNCHANGED <<orders, intents, cp, mishaps>>
      /\ act.then = "exit" => round.revs[ExitSide(act.net)] < MaxRev
  BY CancelIs DEF CancelStatus
<1>2. Visible(Target) /\ mishaps' \in 0..MaxMishaps
  BY <1>1, TargetIn DEF StoreInv
<1>3. /\ seen' \in [Oids -> SeenSet]
      /\ \A j \in Oids : \/ seen'[j] = seen[j] \/ seen'[j] = Unseen
                         \/ Visible(j) /\ seen'[j] = Snapshot(j)
  BY <1>1, <1>2, LookAt
<1>4. CASE CancelFailed
  BY <1>1, <1>2, <1>3, <1>4, CancelFailedSane, LookStep
<1>5. CASE act' = [act EXCEPT !.at = where, !.i = n] /\ UNCHANGED round
  <2>1. n \in Nat \ {0} /\ where \in Ats /\ act.flag \in BOOLEAN
    BY <1>1, TargetIn, Types DEF Ats
  <2>2. act' \in ActSet /\ act'.at = where /\ act'.then = act.then /\ act'.net = act.net
    <3> HIDE DEF n, where
    <3> QED BY <1>5, <2>1, CancelMoves, ZenonT(60)
  <2>3. PlaceSane' /\ CancelSane'
    <3>1. CASE act.then = "exit"
      BY <1>1, <1>5, <2>2, <3>1 DEF PlaceSane, CancelSane
    <3>2. CASE act.then \in {"stop", "undo"}
      BY <2>2, <3>2, QuietSane DEF Restless
    <3>3. CASE act.then \in {"startup", "flat", "flat2", "entries"}
      BY <2>2, <3>3, OpenCancelSane
    <3> QED BY <1>1, <3>1, <3>2, <3>3 DEF Cancels
  <2>4. round' \in RoundSet /\ TicketsSane(round')
    BY <1>5 DEF StoreInv
  <2> QED BY <1>1, <1>2, <1>3, <2>2, <2>3, <2>4, LookStep
<1> QED BY <1>4, <1>5 DEF CancelStatus

LEMMA StatusFailsStep == StoreInv /\ StatusFails => StoreInv'
<1> SUFFICES ASSUME StoreInv, StatusFails PROVE StoreInv'
  OBVIOUS
<1>1. act.at = "status" /\ CancelFailed /\ Own
  BY DEF StatusFails, Own
<1>2. Rest # {}
  BY <1>1, CancelIs
<1> QED BY <1>1, <1>2, CancelFailedSane, OwnStep

LEMMA CanceledStep == StoreInv /\ Canceled => StoreInv'
<1> SUFFICES ASSUME StoreInv, Canceled PROVE StoreInv'
  OBVIOUS
<1>1. Own /\ act.at = "cancel" /\ Rest = {}
  BY DEF Canceled, Own
<1>2. act.then \in {"startup", "flat", "flat2", "expired", "entries"}
  BY <1>1 DEF StoreInv, CancelSane, Cancels
<1>3. CASE act.then # "startup"
  <2> DEFINE then == IF act.then = "entries" THEN "reduced" ELSE act.then
             a == Refreshing(then)
  <2>1. then \in {"decide", "reduced", "flat", "flat2", "expired"}
    BY <1>2, <1>3
  <2>2. act' = [a EXCEPT !.flag = act.flag] /\ UNCHANGED round
    BY <1>3 DEF Canceled
  <2> HIDE DEF then
  <2>3. a \in ActSet /\ a.at = "refresh" /\ a.then = then
    BY <2>1, RefreshingIs
  <2> HIDE DEF a
  <2>4. act' \in ActSet /\ act'.at = "refresh" /\ act'.then = then
    BY <2>2, <2>3, Types DEF ActSet
  <2> QED BY <1>1, <2>1, <2>2, <2>4, RefreshSane, SameRound, OwnStep
<1>4. CASE /\ act' = Saving
           /\ Finish(IF \A s \in Sides : FilledOn(s, seen) > 0 THEN "complete" ELSE "failed")
  <2>1. (IF \A s \in Sides : FilledOn(s, seen) > 0 THEN "complete" ELSE "failed") \in Phases
    BY WordsIn
  <2>2. Marked(round')
    BY <1>4, <2>1, FinishIs
  <2> QED BY <1>1, <1>4, <2>2, SavingStep
<1>5. CASE act' = Canceling("entries", Net) /\ round' = [round EXCEPT !.phase = "exposed"]
  <2>1. Marked(round') /\ Net \in Int
    BY <1>5, ExposedMark, NetInt
  <2> QED BY <1>1, <1>5, <2>1, OpenCancelStep
<1> QED BY <1>3, <1>4, <1>5 DEF Canceled

LEMMA UndoneStep == StoreInv /\ Undone => StoreInv'
<1> SUFFICES ASSUME StoreInv, Undone PROVE StoreInv'
  OBVIOUS
<1> DEFINE p == IF act.flag THEN "startup_recovery" ELSE IF Net # 0 THEN "exposed" ELSE "failed"
           w == IF act.flag THEN "pending" ELSE "none"
<1>1. Own /\ act' = Saving /\ round' = [round EXCEPT !.phase = p, !.why = w]
  BY DEF Undone, Own
<1>2. p \in Phases /\ w \in Reasons /\ TRUE \in BOOLEAN
  BY WordsIn
<1> HIDE DEF p, w
<1>3. Marked(round')
  BY <1>1, <1>2, MarkedSane, MarkedIs
<1> QED BY <1>1, <1>3, SavingStep
--------------------------------------------------------------------------------
(* Recovery *)

LEMMA SlotIs ==
  ASSUME NEW s \in Slots
  PROVE  s[3] \in Nat /\ (s[1] = "limit" => s[3] \in 0..MaxRev) /\ (s[1] = "stop" => s[3] \in 0..1)
BY Bounds DEF Slots

\* The tickets of a round, and the orders that were found
LEMMA FoundTickets ==
  ASSUME StoreInv, NEW r \in RoundSet, TicketsSane(r), NEW found \in SUBSET Findable,
         NEW new, new = {Shown(s) : s \in found},
         NEW t, t = r.tickets \o Ascending(new \ Range(r.tickets))
  PROVE  /\ \A k \in new : Visible(k)
         /\ t \in Seq(Oids) /\ IsInjective(t) /\ Range(t) = Range(r.tickets) \cup new
         /\ \A i \in DOMAIN t : Visible(t[i])
<1> DEFINE u == r.tickets
           S == new \ Range(u)
           a == Sorted(S)
<1>1. \A k \in new : Visible(k)
  BY ShownIs DEF Findable
<1>2. S \in SUBSET Known /\ Known \subseteq Oids /\ Known = 1..Len(orders) /\ Len(orders) \in Nat
  BY <1>1, Types DEF Visible
<1>3. S \in SUBSET Int /\ IsFiniteSet(S) /\ S \in SUBSET Oids
  <2>1. IsFiniteSet(1..Len(orders))
    BY <1>2, FS_Interval
  <2> HIDE DEF S
  <2>2. S \in SUBSET (1..Len(orders)) /\ S \in SUBSET Oids
    BY <1>2
  <2>3. IsFiniteSet(S)
    BY <2>1, <2>2, FS_Subset
  <2>4. \A i \in 1..Len(orders) : i \in Int
    OBVIOUS
  <2> QED BY <2>2, <2>3, <2>4
<1>4. a \in Seq(S) /\ Range(a) = S /\ IsInjective(a)
  <2> HIDE DEF S
  <2> QED BY <1>3, SortedLists
<1>5. u \in Seq(Oids) /\ IsInjective(u) /\ (\A i \in DOMAIN u : Visible(u[i]))
  BY DEF RoundSet, TicketsSane
<1>6. t = u \o a
  BY DEF Ascending, Sorted
<1>7. \A k \in S : Visible(k) /\ k \in Oids /\ k \notin Range(u)
  BY <1>1, <1>3
<1>8. a \in Seq(Oids) /\ Range(u) \cap Range(a) = {}
  <2> HIDE DEF u, a, S
  <2> QED BY <1>4, <1>7
<1> HIDE DEF u, a
<1>9. t \in Seq(Oids) /\ IsInjective(t) /\ Range(t) = Range(u) \cup S
  <2>1. u \in Seq(Oids) /\ a \in Seq(Oids) /\ IsInjective(u) /\ IsInjective(a)
    BY <1>4, <1>5, <1>8
  <2>2. u \o a \in Seq(Oids) /\ Range(u \o a) = Range(u) \cup Range(a) /\ IsInjective(u \o a)
    BY <1>8, <2>1, ConcatLists
  <2> QED BY <1>4, <1>6, <2>2
<1>10. \A k \in Range(u) : Visible(k)
  BY <1>5 DEF Range
<1>11. \A k \in Range(t) : Visible(k)
  BY <1>7, <1>9, <1>10
<1>12. \A i \in DOMAIN t : t[i] \in Range(t)
  BY DEF Range
<1>13. Range(t) = Range(r.tickets) \cup new
  BY <1>9 DEF u
<1> QED BY <1>1, <1>9, <1>11, <1>12, <1>13

LEMMA RevsIn ==
  ASSUME NEW r \in RoundSet, NEW slots \in SUBSET Slots
  PROVE  RevsOf(r, slots) \in [Sides -> 0..MaxRev] /\ StopRev(r, slots) \in 0..1
<1>1. ASSUME NEW side \in Sides
      PROVE  Max({r.revs[side]} \cup {s[3] : s \in {x \in slots : x[1] = "limit" /\ x[2] = side}}) \in 0..MaxRev
  <2> DEFINE S == {r.revs[side]} \cup {s[3] : s \in {x \in slots : x[1] = "limit" /\ x[2] = side}}
  <2>1. S \in SUBSET (0..MaxRev) /\ S # {} /\ MaxRev \in Nat
    BY SlotIs, Bounds DEF RoundSet
  <2> HIDE DEF S
  <2>2. Max(S) \in 0..MaxRev
    BY <2>1, MinMaxIn
  <2> QED BY <2>2 DEF S
<1>2. StopRev(r, slots) \in 0..1
  <2> DEFINE S == {r.srev} \cup {s[3] : s \in {x \in slots : x[1] = "stop"}}
  <2>1. S \in SUBSET (0..1) /\ S # {} /\ 1 \in Nat
    BY SlotIs DEF RoundSet
  <2> HIDE DEF S
  <2>2. Max(S) \in 0..1
    BY <2>1, MinMaxIn
  <2> QED BY <2>2 DEF S, StopRev
<1> QED BY <1>1, <1>2 DEF RevsOf

LEMMA StopOrderIn ==
  ASSUME StoreInv, NEW r \in RoundSet, NEW slots, NEW best
  PROVE  StopOrder(r, slots, best) \in {0} \cup Oids
<1>1. \A s : Shown(s) \in {0} \cup Oids
  BY ShownIs, Types DEF OrdersOf
<1>2. r.stop \in {0} \cup Oids
  BY DEF RoundSet
<1> QED BY <1>1, <1>2 DEF StopOrder

LEMMA ReconciledIs ==
  ASSUME StoreInv, OrdersGo, NEW found \in SUBSET Findable, NEW gone \in SUBSET Absences,
         intents' = Reconciled(found, gone)
  PROVE  intents' \in [Slots -> IntentSet] /\ \A s \in Slots : IntentSane(s)'
<1> SUFFICES ASSUME NEW s \in Slots PROVE intents'[s] \in IntentSet /\ IntentSane(s)'
  BY DEF Reconciled
<1>1. /\ intents[s] \in IntentSet /\ IntentSane(s)
      /\ intents'[s] = IF s \in found THEN [st |-> "known", oid |-> Shown(s)]
                       ELSE IF s \in gone THEN [st |-> "absent", oid |-> 0]
                       ELSE IF intents[s].st = "refused" THEN NoIntent ELSE intents[s]
  BY DEF StoreInv, Reconciled
<1>2. OrdersOf(s)' = OrdersOf(s) /\ \A k \in OrdersOf(s) : k \in Known
  BY SlotsStay DEF OrdersOf
<1>3. \A k \in Known : (Visible(k) => Visible(k)') /\ (Lost(k) => Lost(k)')
  BY DEF OrdersGo
<1>4. CASE s \in found
  <2>1. Shown(s) \in OrdersOf(s) /\ Visible(Shown(s)) /\ Shown(s) \in Oids
    BY <1>4, ShownIs, Types DEF Findable, OrdersOf
  <2>2. intents'[s] = [st |-> "known", oid |-> Shown(s)]
    BY <1>1, <1>4
  <2> DEFINE k == Shown(s)
  <2>3. intents'[s].st = "known" /\ intents'[s].oid = k /\ intents'[s] \in IntentSet
    BY <2>1, <2>2 DEF IntentSet
  <2>4. k \in Known' /\ orders'[k].st \in {"open", "ended"} /\ k \in OrdersOf(s)'
    BY <1>2, <1>3, <2>1 DEF Visible
  <2> HIDE DEF k
  <2> QED BY <2>3, <2>4 DEF IntentSane, Visible
<1>5. CASE s \notin found /\ s \in gone
  <2>1. \A k \in OrdersOf(s) : Lost(k)
    BY <1>5 DEF Absences, CertainlyAbsent, OrdersOf, Lost
  <2>2. intents'[s] = [st |-> "absent", oid |-> 0]
    BY <1>1, <1>5
  <2>3. intents'[s].st = "absent" /\ intents'[s] \in IntentSet
    BY <2>2 DEF IntentSet
  <2> QED BY <1>2, <1>3, <2>1, <2>3 DEF IntentSane
<1>6. CASE s \notin found /\ s \notin gone /\ intents[s].st = "refused"
  <2>1. \A k \in OrdersOf(s) : Lost(k)
    BY <1>1, <1>6 DEF IntentSane
  <2>2. intents'[s].st = "none" /\ intents'[s] \in IntentSet
    BY <1>1, <1>6, NoIntentIs
  <2> QED BY <1>2, <1>3, <2>1, <2>2 DEF IntentSane
<1>7. CASE s \notin found /\ s \notin gone /\ intents[s].st # "refused"
  <2>1. intents'[s] = intents[s]
    BY <1>1, <1>7
  <2> QED BY <1>1, <2>1, IntentsStay
<1> QED BY <1>4, <1>5, <1>6, <1>7

\* What a recovery does, in the terms of the proof
RecoverTo(found, gone, new, t, b) ==
  /\ new = {Shown(s) : s \in found} /\ t = round.tickets \o Ascending(new \ Range(round.tickets))
  /\ intents' = Reconciled(found, gone)
  /\ seen' = [k \in Oids |-> IF k \in new THEN Snapshot(k) ELSE seen[k]]
  /\ round' \in RoundSet /\ round'.tickets = t /\ round'.phase = round.phase
  /\ round'.why = round.why /\ round'.blocked = b
  /\ b = (found # Stored)
  /\ act' = IF b THEN Saving
            ELSE IF round.phase = "startup_recovery" THEN Canceling("startup", 0)
            ELSE At("recovered", "none")
  /\ UNCHANGED <<orders, cp, mishaps>>

LEMMA RecoverIs ==
  StoreInv /\ Recover =>
    \E found \in SUBSET Findable, gone \in SUBSET Absences :
      \E new, t, b : RecoverTo(found, gone, new, t, b)
<1> SUFFICES ASSUME StoreInv, Recover
             PROVE  \E found \in SUBSET Findable, gone \in SUBSET Absences :
                      \E new, t, b : RecoverTo(found, gone, new, t, b)
  OBVIOUS
<1>1. PICK found \in SUBSET Findable, gone \in SUBSET Absences :
        LET new == {Shown(s) : s \in found}
            r == [round EXCEPT !.tickets = @ \o Ascending(new \ Range(@)),
                               !.revs = RevsOf(round, found),
                               !.srev = StopRev(round, found),
                               !.stop = StopOrder(round, found, IF @ = 0 THEN 0 ELSE round.srev),
                               !.blocked = found # Stored]
        IN  /\ intents' = Reconciled(found, gone)
            /\ seen' = [k \in Oids |-> IF k \in new THEN Snapshot(k) ELSE seen[k]]
            /\ round' = r
            /\ act' = IF r.blocked THEN Saving
                      ELSE IF r.phase = "startup_recovery" THEN Canceling("startup", 0)
                      ELSE At("recovered", "none")
  BY DEF Recover
<1> DEFINE new == {Shown(s) : s \in found}
           t == round.tickets \o Ascending(new \ Range(round.tickets))
           rv == RevsOf(round, found)
           sv == StopRev(round, found)
           st == StopOrder(round, found, IF round.stop = 0 THEN 0 ELSE round.srev)
           b == (found # Stored)
           r == [round EXCEPT !.tickets = t, !.revs = rv, !.srev = sv, !.stop = st, !.blocked = b]
<1>2. /\ intents' = Reconciled(found, gone)
      /\ seen' = [k \in Oids |-> IF k \in new THEN Snapshot(k) ELSE seen[k]]
      /\ round' = r
      /\ act' = IF r.blocked THEN Saving
                ELSE IF r.phase = "startup_recovery" THEN Canceling("startup", 0)
                ELSE At("recovered", "none")
      /\ UNCHANGED <<orders, cp, mishaps>>
  BY <1>1, Zenon DEF Recover
<1>3. round \in RoundSet /\ TicketsSane(round)
  BY DEF StoreInv
<1>4. t \in Seq(Oids)
  <2> HIDE DEF new, t
  <2> QED BY <1>3, FoundTickets DEF new, t
<1>5. rv \in [Sides -> 0..MaxRev] /\ sv \in 0..1 /\ st \in {0} \cup Oids
  <2>1. found \in SUBSET Slots
    BY DEF Findable, Stored
  <2> QED BY <1>3, <2>1, RevsIn, StopOrderIn
<1>6. b \in BOOLEAN
  OBVIOUS
<1>7. r \in RoundSet /\ r.tickets = t /\ r.phase = round.phase /\ r.why = round.why /\ r.blocked = b
  <2> HIDE DEF t, rv, sv, st, b
  <2> QED BY <1>3, <1>4, <1>5, <1>6 DEF RoundSet
<1> HIDE DEF r
<1>8. RecoverTo(found, gone, new, t, b)
  BY <1>2, <1>7 DEF RecoverTo
<1> QED BY <1>8

LEMMA RecoverStepStays == StoreInv /\ Recover => StoreInv'
<1> SUFFICES ASSUME StoreInv, Recover PROVE StoreInv'
  OBVIOUS
<1>1. PICK found \in SUBSET Findable, gone \in SUBSET Absences :
        \E new, t, b : RecoverTo(found, gone, new, t, b)
  BY RecoverIs
<1>11. PICK new, t, b : RecoverTo(found, gone, new, t, b)
  BY <1>1
<1>2. /\ new = {Shown(s) : s \in found} /\ t = round.tickets \o Ascending(new \ Range(round.tickets))
      /\ intents' = Reconciled(found, gone)
      /\ seen' = [k \in Oids |-> IF k \in new THEN Snapshot(k) ELSE seen[k]]
      /\ round' \in RoundSet /\ round'.tickets = t
      /\ act' \in {Saving, Canceling("startup", 0), At("recovered", "none")}
      /\ UNCHANGED <<orders, cp, mishaps>>
  BY <1>11 DEF RecoverTo
<1>3. round \in RoundSet /\ TicketsSane(round) /\ mishaps' \in 0..MaxMishaps
  BY <1>2 DEF StoreInv
<1>4. \A k \in new : Visible(k)
  BY <1>2, <1>3, FoundTickets
<1>5. TicketsSane(round')
  <2>1. IsInjective(t)
    BY <1>2, <1>3, FoundTickets
  <2>2. \A i \in DOMAIN t : Visible(t[i])
    BY <1>2, <1>3, FoundTickets
  <2> QED BY <1>2, <2>1, <2>2 DEF TicketsSane
<1>6. OrdersGo
  BY <1>2, OrdersStay
<1>7. intents' \in [Slots -> IntentSet] /\ \A s \in Slots : IntentSane(s)'
  BY <1>2, <1>6, ReconciledIs
<1>8. seen' \in [Oids -> [open : BOOLEAN, filled : Nat]]
  <2>1. seen \in [Oids -> SeenSet] /\ \A k \in new : Snapshot(k) \in SeenSet
    BY <1>4, SnapshotIs DEF StoreInv, SeenSet, Visible
  <2>2. seen' \in [Oids -> SeenSet]
    BY <1>2, <2>1
  <2> QED BY <2>2 DEF SeenSet
<1>9. \A k \in Oids : SeenSane(k)'
  <2>1. \A k \in Oids : \/ seen'[k] = seen[k] \/ seen'[k] = Unseen
                        \/ Visible(k) /\ seen'[k] = Snapshot(k)
    BY <1>2, <1>4
  <2> QED BY <1>2, <2>1, SeenAgain
<1>10. act' \in ActSet /\ PlaceSane' /\ CancelSane'
  <2>1. CASE act' = Saving
    BY <2>1, SavingIs, QuietSane DEF Restless
  <2>2. CASE act' = Canceling("startup", 0)
    <3>1. "startup" \in Cancels /\ 0 \in Int
      BY DEF Cancels
    <3>2. act' \in ActSet /\ act'.at = "cancel" /\ act'.then = "startup"
      BY <2>2, <3>1, CancelingIs
    <3> QED BY <3>2, OpenCancelSane
  <2>3. CASE act' = At("recovered", "none")
    <3>1. "recovered" \in Ats /\ "none" \in Thens
      BY DEF Ats, Thens
    <3>2. act' \in ActSet /\ act'.at = "recovered"
      BY <2>3, <3>1, AtIs
    <3> QED BY <3>2, QuietSane DEF Restless
  <2> QED BY <1>2, <2>1, <2>2, <2>3
<1> QED BY <1>2, <1>3, <1>5, <1>6, <1>7, <1>8, <1>9, <1>10, StoreParts

LEMMA RecoveredStopStep == StoreInv /\ RecoveredStop => StoreInv'
<1> SUFFICES ASSUME StoreInv, RecoveredStop PROVE StoreInv'
  OBVIOUS
<1>1. Own
  BY DEF RecoveredStop, Own
<1>2. CASE act' = Saving /\ round' = [round EXCEPT !.why = "missing"]
  <2>1. Marked(round')
    BY <1>2, MarkedSane, MarkedIs, WordsIn
  <2> QED BY <1>1, <1>2, <2>1, SavingStep
<1>3. CASE Stopping([round EXCEPT !.phase = "stopping"])
  <2> DEFINE r == [round EXCEPT !.phase = "stopping"]
  <2>1. Marked(r)
    <3>1. "stopping" \in Phases /\ "none" \in Reasons /\ TRUE \in BOOLEAN
      BY WordsIn
    <3> QED BY <3>1, MarkedSane, MarkedIs
  <2>2. Stopping(r)
    BY <1>3
  <2> HIDE DEF r
  <2> QED BY <1>1, <2>1, <2>2, StoppingStep
<1> QED BY <1>2, <1>3 DEF RecoveredStop
--------------------------------------------------------------------------------
(* Checkpoints, crashes and restarts *)

LEMMA SaveStep == StoreInv /\ Save => StoreInv'
<1> SUFFICES ASSUME StoreInv, Save PROVE StoreInv'
  OBVIOUS
<1>1. /\ cp' = round /\ UNCHANGED <<orders, intents, round, seen, mishaps>>
      /\ act' \in {At("done", "none"), Idle}
  BY DEF Save
<1>2. "done" \in Ats /\ "none" \in Thens
  BY DEF Ats, Thens
<1>3. act' \in ActSet /\ act'.at \in {"done", "idle"}
  <2>1. CASE act' = At("done", "none")
    BY <1>2, <2>1, AtIs
  <2>2. CASE act' = Idle
    BY <2>2, IdleIs
  <2> QED BY <1>1, <2>1, <2>2
<1>4. PlaceSane' /\ CancelSane'
  BY <1>3, QuietSane DEF Restless
<1>5. OrdersGo /\ mishaps' \in 0..MaxMishaps /\ round' \in RoundSet /\ TicketsSane(round')
  BY <1>1, OrdersStay DEF StoreInv
<1> QED BY <1>1, <1>3, <1>4, <1>5, StoreKeeps

LEMMA MishapIs == StoreInv /\ Mishap => mishaps' \in 0..MaxMishaps
BY Bounds DEF StoreInv, Mishap

LEMMA AbortStep == StoreInv /\ Abort => StoreInv'
<1> SUFFICES ASSUME StoreInv, Abort PROVE StoreInv'
  OBVIOUS
<1>1. /\ Mishap /\ act' = Idle /\ UNCHANGED <<orders, intents, cp, round, seen>>
  BY DEF Abort
<1>2. act' \in ActSet /\ PlaceSane' /\ CancelSane'
  BY <1>1, IdleIs, QuietSane DEF Restless
<1>3. OrdersGo /\ Marked(round') /\ mishaps' \in 0..MaxMishaps
  BY <1>1, OrdersStay, SameRound, MishapIs
<1> QED BY <1>1, <1>2, <1>3, CalmStep

LEMMA FreshIs == Fresh \in RoundSet /\ Fresh.tickets = <<>> /\ TicketsSane(Fresh)
<1>1. <<>> \in Seq(Oids) /\ {"idle"} \subseteq Phases /\ "none" \in Reasons /\ 0 \in 0..MaxRev
  BY WordsIn, Bounds
<1>2. Fresh \in RoundSet /\ Fresh.tickets = <<>>
  BY <1>1 DEF Fresh, RoundSet
<1> QED BY <1>2 DEF TicketsSane, IsInjective

LEMMA CrashStep == StoreInv /\ Crash => StoreInv'
<1> SUFFICES ASSUME StoreInv, Crash PROVE StoreInv'
  OBVIOUS
<1>1. /\ Mishap /\ round' = Fresh /\ seen' = [k \in Oids |-> Unseen] /\ act' = At("down", "none")
      /\ UNCHANGED <<orders, intents, cp>>
  BY DEF Crash
<1>2. "down" \in Ats /\ "none" \in Thens
  BY DEF Ats, Thens
<1>3. act' \in ActSet /\ act'.at = "down"
  BY <1>1, <1>2, AtIs
<1>4. PlaceSane' /\ CancelSane'
  BY <1>3, QuietSane DEF Restless
<1>5. seen' \in [Oids -> SeenSet] /\ \A k \in Oids : seen'[k] = Unseen
  BY <1>1, SnapshotIs
<1>6. round' \in RoundSet /\ TicketsSane(round') /\ mishaps' \in 0..MaxMishaps
  BY <1>1, FreshIs, MishapIs
<1> QED BY <1>1, <1>3, <1>4, <1>5, <1>6, LookStep

\* What a restart makes of the checkpoint and the stored intents
Mine == {s \in Stored : intents[s].st = "known" /\ intents[s].oid \in Range(cp.tickets)}

AdoptTo(found, gone, new, t) ==
  /\ new = {Shown(s) : s \in found} /\ t = cp.tickets \o Ascending(new \ Range(cp.tickets))
  /\ intents' = Reconciled(found, gone)
  /\ round' \in RoundSet /\ round'.tickets = t /\ cp' = round'
  /\ \/ act' = At("done", "none")
     \/ act' = Idle /\ (Stored \ (found \cup Mine) # {} => Pending')
  /\ UNCHANGED <<orders, seen, mishaps>>

LEMMA AdoptIs ==
  StoreInv /\ Adopt =>
    \E found \in SUBSET Findable, gone \in SUBSET Absences :
      \E new, t : AdoptTo(found, gone, new, t)
<1> SUFFICES ASSUME StoreInv, Adopt
             PROVE  \E found \in SUBSET Findable, gone \in SUBSET Absences :
                      \E new, t : AdoptTo(found, gone, new, t)
  OBVIOUS
<1> DEFINE r == IF cp.phase = "reserved" THEN [cp EXCEPT !.phase = "quoting"] ELSE cp
           mine == {s \in Stored : intents[s].st = "known" /\ intents[s].oid \in Range(r.tickets)}
           all == {s \in Slots : intents[s].st # "none"}
           pending(f) == Stored \ (f \cup mine)
           new(f) == {Shown(s) : s \in f}
           t(f) == r.tickets \o Ascending(new(f) \ Range(r.tickets))
           rv == RevsOf(r, all)
           sv == StopRev(r, all)
           st(f) == StopOrder(r, f \cup mine, IF r.stop = 0 THEN 0 ELSE r.srev)
           phase(f) == CASE \E s \in pending(f) : s[1] = "stop" -> "hard_stop_recovery"
                         [] OTHER -> IF pending(f) # {} THEN "startup_recovery"
                                     ELSE IF \E s \in f \cup mine : s[1] = "stop" THEN "stopping"
                                     ELSE r.phase
           m(f) == [r EXCEPT !.tickets = t(f), !.revs = rv, !.srev = sv, !.stop = st(f),
                             !.phase = phase(f), !.why = IF pending(f) # {} THEN "pending" ELSE @,
                             !.blocked = pending(f) # {}]
           over(f) == /\ m(f).tickets = <<>>
                      /\ \/ phase(f) \notin {"startup_recovery", "hard_stop_recovery"}
                         \/ all # {} /\ \A s \in all : intents[s].st = "absent"
           end(f) == IF over(f) THEN [m(f) EXCEPT !.phase = "failed", !.why = "none", !.blocked = FALSE]
                     ELSE m(f)
<1>1. PICK found \in SUBSET (Findable \ mine), gone \in SUBSET Absences :
        /\ intents' = Reconciled(found, gone)
        /\ round' = end(found) /\ cp' = end(found)
        /\ act' = IF over(found) THEN At("done", "none") ELSE Idle
  BY Zenon DEF Adopt
<1> DEFINE tf == t(found)
           sf == st(found)
           pf == phase(found)
           none == pending(found) = {}
           wf == IF pending(found) # {} THEN "pending" ELSE r.why
           mf == [r EXCEPT !.tickets = tf, !.revs = rv, !.srev = sv, !.stop = sf, !.phase = pf,
                           !.why = wf, !.blocked = pending(found) # {}]
<1>2. cp \in RoundSet /\ TicketsSane(cp)
  BY DEF StoreInv
<1>3. r \in RoundSet /\ r.tickets = cp.tickets
  <2>1. CASE cp.phase = "reserved"
    <3>1. r = [cp EXCEPT !.phase = "quoting"]
      BY <2>1
    <3> QED BY <1>2, <3>1, WordsIn DEF RoundSet
  <2>2. CASE cp.phase # "reserved"
    BY <1>2, <2>2
  <2> QED BY <2>1, <2>2
<1>4. mine = Mine
  BY <1>3 DEF Mine
<1>5. TicketsSane(r) /\ found \in SUBSET Findable /\ all \in SUBSET Slots
  BY <1>2, <1>3 DEF TicketsSane
<1>6. m(found) = mf
  OBVIOUS
<1> HIDE DEF r
<1>7. tf \in Seq(Oids)
  <2> DEFINE nf == new(found)
  <2>1. nf = {Shown(s) : s \in found} /\ tf = r.tickets \o Ascending(nf \ Range(r.tickets))
    OBVIOUS
  <2> HIDE DEF tf, nf, t, new
  <2> QED BY <1>3, <1>5, <2>1, FoundTickets
<1>8. rv \in [Sides -> 0..MaxRev] /\ sv \in 0..1
  <2> HIDE DEF all
  <2> QED BY <1>3, <1>5, RevsIn
<1>9. sf \in {0} \cup Oids
  BY <1>3, StopOrderIn
<1>10. pf \in Phases /\ wf \in Reasons
  <2>1. r.phase \in Phases /\ r.why \in Reasons
    BY <1>3 DEF RoundSet
  <2> HIDE DEF pending
  <2> QED BY <2>1, WordsIn
<1>11. pending(found) # {} => pf \in {"startup_recovery", "hard_stop_recovery"} /\ wf = "pending"
  <2> HIDE DEF pending
  <2> QED OBVIOUS
<1>12. Stored \ (found \cup Mine) # {} => pending(found) # {}
  BY <1>4
<1>13. mf \in RoundSet /\ mf.tickets = tf /\ mf.phase = pf /\ mf.why = wf
  <2> HIDE DEF tf, rv, sv, sf, pf, wf, pending
  <2> QED BY <1>3, <1>7, <1>8, <1>9, <1>10 DEF RoundSet
<1>14. tf = cp.tickets \o Ascending(new(found) \ Range(cp.tickets))
  BY <1>3
<1>15. UNCHANGED <<orders, seen, mishaps>>
  BY DEF Adopt
<1> HIDE DEF mf, tf, wf, pf, t, phase, mine
<1>16. CASE over(found)
  <2>1. round' = [mf EXCEPT !.phase = "failed", !.why = "none", !.blocked = FALSE] /\ cp' = round'
        /\ act' = At("done", "none")
    <3> HIDE DEF over, m
    <3> QED BY <1>1, <1>6, <1>16
  <2>2. round' \in RoundSet /\ round'.tickets = tf
    BY <1>13, <2>1, WordsIn DEF RoundSet
  <2>3. AdoptTo(found, gone, new(found), tf)
    BY <1>1, <1>14, <1>15, <2>1, <2>2 DEF AdoptTo
  <2> QED BY <1>5, <2>3
<1>17. CASE ~over(found)
  <2>1. round' = mf /\ cp' = round' /\ act' = Idle
    <3> HIDE DEF over, m
    <3> QED BY <1>1, <1>6, <1>17
  <2>2. Stored \ (found \cup Mine) # {} => Pending'
    <3> HIDE DEF pending
    <3> QED BY <1>11, <1>12, <1>13, <2>1 DEF Pending
  <2>3. AdoptTo(found, gone, new(found), tf)
    BY <1>1, <1>13, <1>14, <1>15, <2>1, <2>2 DEF AdoptTo
  <2> QED BY <1>5, <2>3
<1> QED BY <1>16, <1>17

LEMMA AdoptStep == StoreInv /\ Adopt => StoreInv'
<1> SUFFICES ASSUME StoreInv, Adopt PROVE StoreInv'
  OBVIOUS
<1>1. PICK found \in SUBSET Findable, gone \in SUBSET Absences :
        \E new, t : AdoptTo(found, gone, new, t)
  BY AdoptIs
<1>10. PICK new, t : AdoptTo(found, gone, new, t)
  BY <1>1
<1>2. /\ new = {Shown(s) : s \in found} /\ t = cp.tickets \o Ascending(new \ Range(cp.tickets))
      /\ intents' = Reconciled(found, gone)
      /\ round' \in RoundSet /\ round'.tickets = t /\ cp' = round'
      /\ act' \in {At("done", "none"), Idle}
      /\ UNCHANGED <<orders, seen, mishaps>>
  BY <1>10 DEF AdoptTo
<1>3. cp \in RoundSet /\ TicketsSane(cp) /\ mishaps' \in 0..MaxMishaps
  BY <1>2 DEF StoreInv
<1>4. TicketsSane(round')
  <2>1. IsInjective(t)
    BY <1>2, <1>3, FoundTickets
  <2>2. \A i \in DOMAIN t : Visible(t[i])
    BY <1>2, <1>3, FoundTickets
  <2> QED BY <1>2, <2>1, <2>2 DEF TicketsSane
<1>5. OrdersGo
  BY <1>2, OrdersStay
<1>6. intents' \in [Slots -> IntentSet] /\ \A s \in Slots : IntentSane(s)'
  BY <1>2, <1>5, ReconciledIs
<1>7. "done" \in Ats /\ "none" \in Thens
  BY DEF Ats, Thens
<1>8. act' \in ActSet /\ act'.at \in {"done", "idle"}
  <2>1. CASE act' = At("done", "none")
    BY <1>7, <2>1, AtIs
  <2>2. CASE act' = Idle
    BY <2>2, IdleIs
  <2> QED BY <1>2, <2>1, <2>2
<1>9. PlaceSane' /\ CancelSane'
  BY <1>8, QuietSane DEF Restless
<1> QED BY <1>2, <1>3, <1>4, <1>5, <1>6, <1>8, <1>9, StoreChanges
--------------------------------------------------------------------------------
(* The venue *)

LEMMA VenueStep ==
  ASSUME StoreInv, OrdersGo, UNCHANGED <<intents, cp, round, seen, act>>, mishaps' \in 0..MaxMishaps
  PROVE  StoreInv'
<1>1. Marked(round') /\ act' \in ActSet
  BY SameRound DEF StoreInv
<1>2. JobSlot' = JobSlot /\ Rest' = Rest
  BY JobStays, RestStays
<1>3. OrdersOf(JobSlot)' = OrdersOf(JobSlot) /\ \A k \in OrdersOf(JobSlot) : k \in Known
  BY <1>2, SlotsStay DEF OrdersOf
<1>4. \A k \in Known : Lost(k) => Lost(k)'
  BY DEF OrdersGo
<1>5. PlaceSane'
  BY <1>2, <1>3, <1>4 DEF StoreInv, PlaceSane
<1>6. CancelSane'
  BY <1>2 DEF StoreInv, CancelSane
<1> QED BY <1>1, <1>5, <1>6, CalmStep

LEMMA LandStep == ASSUME StoreInv, NEW k, Land(k) PROVE OrdersGo
<1>1. PICK st \in {"open", "lost"} : orders' = [orders EXCEPT ![k].st = st]
  BY DEF Land
<1> DEFINE o == [orders[k] EXCEPT !.st = st]
<1>2. k \in Known /\ orders[k].st = "wire" /\ orders[k] \in OrderSet /\ OrderSane(k)
  BY Types DEF Land, StoreInv
<1>3. o \in OrderSet /\ o.st = st /\ o.slot = orders[k].slot /\ o.qty = orders[k].qty
      /\ o.filled = orders[k].filled /\ orders[k].filled \in Nat
  BY <1>2 DEF OrderSet
<1>4. orders' = [orders EXCEPT ![k] = o]
  BY <1>1, <1>2 DEF OrderSet
<1> HIDE DEF o
<1>5. Works(k) /\ o.filled >= orders[k].filled /\ o.filled <= o.qty /\ o.filled < o.qty
  BY <1>2, <1>3 DEF OrderSane, Works
<1> QED BY <1>2, <1>3, <1>4, <1>5, OrderChange

LEMMA FillStep == ASSUME StoreInv, NEW k, Fill(k) PROVE OrdersGo
<1> DEFINE f == orders[k].filled + 1
           st == IF f = orders[k].qty THEN "ended" ELSE "open"
           o == [orders[k] EXCEPT !.filled = f, !.st = st]
<1>1. k \in Known /\ orders[k].st = "open" /\ orders[k] \in OrderSet /\ OrderSane(k) /\ Works(k)
  BY Types DEF Fill, StoreInv, Works
<1>2. orders[k].filled \in Nat /\ orders[k].qty \in Nat /\ orders[k].filled < orders[k].qty
  BY <1>1 DEF OrderSane, OrderSet
<1>3. f \in Nat /\ f > orders[k].filled /\ f <= orders[k].qty /\ (st = "open" => f < orders[k].qty)
      /\ st \in {"open", "ended"}
  BY <1>2
<1>4. orders' = [orders EXCEPT ![k] = o]
  BY <1>1 DEF Fill, OrderSet
<1> HIDE DEF f, st
<1>5. o \in OrderSet /\ o.st = st /\ o.slot = orders[k].slot /\ o.qty = orders[k].qty
      /\ o.filled = f
  BY <1>1, <1>3 DEF OrderSet
<1> HIDE DEF o
<1>6. o.filled >= orders[k].filled
  BY <1>2, <1>3, <1>5
<1> QED BY <1>1, <1>3, <1>4, <1>5, <1>6, OrderChange

LEMMA EndStep == ASSUME StoreInv, NEW k, EndAtVenue(k) PROVE OrdersGo
<1> DEFINE o == [orders[k] EXCEPT !.st = "ended"]
<1>1. k \in Known /\ orders[k].st = "open" /\ orders[k] \in OrderSet /\ OrderSane(k)
      /\ orders' = [orders EXCEPT ![k].st = "ended"]
  BY Types DEF EndAtVenue, StoreInv
<1>2. o \in OrderSet /\ o.st = "ended" /\ o.slot = orders[k].slot /\ o.qty = orders[k].qty
      /\ o.filled = orders[k].filled /\ orders[k].filled \in Nat
  BY <1>1 DEF OrderSet
<1>3. orders' = [orders EXCEPT ![k] = o]
  BY <1>1 DEF OrderSet
<1> HIDE DEF o
<1>4. o.filled >= orders[k].filled /\ o.filled <= o.qty
  BY <1>1, <1>2 DEF OrderSane
<1> QED BY <1>1, <1>2, <1>3, <1>4, OrderChange

\* What the venue does by itself
LEMMA VenueIs ==
  StoreInv /\ Venue => /\ OrdersGo /\ UNCHANGED <<intents, cp, round, seen, act>>
                       /\ mishaps' \in 0..MaxMishaps
<1> SUFFICES ASSUME StoreInv, NEW k \in Oids, Land(k) \/ Fill(k) \/ EndAtVenue(k)
             PROVE  /\ OrdersGo /\ UNCHANGED <<intents, cp, round, seen, act>>
                    /\ mishaps' \in 0..MaxMishaps
  BY DEF Venue
<1>1. OrdersGo
  BY LandStep, FillStep, EndStep
<1>2. UNCHANGED <<intents, cp, round, seen, act>>
  BY DEF Land, Fill, EndAtVenue
<1>3. mishaps' = mishaps \/ Mishap
  BY DEF Land, Fill, EndAtVenue
<1> QED BY <1>1, <1>2, <1>3, MishapIs DEF StoreInv
--------------------------------------------------------------------------------
(* The invariant of the store *)

LEMMA InitStore == Init => StoreInv
<1> SUFFICES ASSUME Init PROVE StoreInv
  OBVIOUS
<1> DEFINE j == Job("first", "BUY", Qty, 0, FALSE)
<1>1. /\ orders = <<>> /\ intents = [s \in Slots |-> NoIntent]
      /\ cp = [Fresh EXCEPT !.phase = "reserved"] /\ round = Fresh /\ seen = [k \in Oids |-> Unseen]
      /\ act = Placing(j) /\ mishaps = 0
  BY DEF Init
<1>2. "first" \in Purposes /\ "BUY" \in Sides /\ 0 \in Nat /\ FALSE \in BOOLEAN /\ Qty \in Nat
  BY Bounds DEF Purposes, Sides
<1>3. j \in JobSet /\ j.why = "first" /\ j.side = "BUY" /\ j.rev = 0
  BY <1>2 DEF Job, JobSet
<1> HIDE DEF j
<1>4. act \in ActSet /\ act.at = "place" /\ act.job = j
  BY <1>1, <1>3, PlacingIs
<1>5. orders \in Seq(OrderSet) /\ Len(orders) = 0 /\ Known = {}
  BY <1>1 DEF Known
<1>6. \A s : OrdersOf(s) = {}
  BY <1>5 DEF OrdersOf
<1>7. JobSlot \in Slots
  BY <1>3, <1>4, Bounds DEF JobSlot, JobKind, Slots, Sides
<1>8. PlaceSane /\ CancelSane
  BY <1>3, <1>4, <1>7 DEF PlaceSane, CancelSane
<1>9. round \in RoundSet /\ cp \in RoundSet /\ cp.tickets = <<>> /\ round.tickets = <<>>
  BY <1>1, FreshIs, WordsIn DEF RoundSet
<1>10. TicketsSane(round) /\ TicketsSane(cp)
  BY <1>9 DEF TicketsSane, IsInjective
<1>11. Unseen \in [open : BOOLEAN, filled : Nat]
  BY DEF Unseen
<1>12. /\ seen \in [Oids -> [open : BOOLEAN, filled : Nat]] /\ \A k \in Oids : SeenSane(k)
  BY <1>1, <1>5, <1>11 DEF SeenSane
<1>13. intents \in [Slots -> IntentSet] /\ \A s \in Slots : intents[s].st = "none"
  BY <1>1, NoIntentIs
<1>14. \A s \in Slots : IntentSane(s)
  BY <1>6, <1>13 DEF IntentSane
<1>15. SlotsUsedOnce /\ (\A k \in Known : OrderSane(k)) /\ Len(orders) <= MaxOrders
       /\ mishaps \in 0..MaxMishaps
  BY <1>1, <1>5, Bounds DEF SlotsUsedOnce
<1> QED BY <1>4, <1>5, <1>8, <1>9, <1>10, <1>12, <1>13, <1>14, <1>15 DEF StoreInv

LEMMA StutterStore == StoreInv /\ UNCHANGED vars => StoreInv'
<1> SUFFICES ASSUME StoreInv, UNCHANGED vars PROVE StoreInv'
  OBVIOUS
<1>1. /\ OrdersGo /\ UNCHANGED <<intents, cp, round, seen, act>> /\ mishaps' \in 0..MaxMishaps
  BY OrdersStay DEF vars, StoreInv
<1> QED BY <1>1, VenueStep

LEMMA NextStore == StoreInv /\ [Next]_vars => StoreInv'
<1> SUFFICES ASSUME StoreInv, [Next]_vars PROVE StoreInv'
  OBVIOUS
<1>1. CASE Step \/ Refresh \/ Refreshed \/ Save
  BY <1>1, StepStep, RefreshStep, RefreshedStep, SaveStep
<1>2. CASE PlaceStep
  BY <1>2, RefuseEarlyStep, PersistIntentStep, ReuseStep, RefuseSubmitStep, SendStep, AnswerStep
     DEF PlaceStep
<1>3. CASE CancelStep
  BY <1>3, CancelStepStays, CancelStatusStep, StatusFailsStep, CanceledStep, UndoneStep DEF CancelStep
<1>4. CASE DecideStep
  BY <1>4, DecideRecoveryStep, DecideStoppingStep, DecideTradedStep, DecideUntradedStep,
     DecideFlatStep, DecideReducedStep, DecideExpiredStep DEF DecideStep
<1>5. CASE ExitStep
  BY <1>5, NoPriceStep, BreachStep, KeepExitStep, ReplaceExitStep, PlaceExitStep, ExitCanceledStep,
     StopExitCanceledStep DEF ExitStep
<1>6. CASE RecoverStep
  BY <1>6, RecoverStepStays, RecoveredStopStep, AdoptStep DEF RecoverStep
<1>7. CASE Abort \/ Crash
  BY <1>7, AbortStep, CrashStep
<1>8. CASE Venue
  BY <1>8, VenueIs, VenueStep
<1>9. CASE UNCHANGED vars
  BY <1>9, StutterStore
<1> QED BY <1>1, <1>2, <1>3, <1>4, <1>5, <1>6, <1>7, <1>8, <1>9 DEF Next

\* The store and the venue agree, and the coordinator's records belong to them.
THEOREM StoreInvariant == Spec => []StoreInv
<1>1. Init => StoreInv
  BY InitStore
<1>2. StoreInv /\ [Next]_vars => StoreInv'
  BY NextStore
<1> QED BY <1>1, <1>2, PTL DEF Spec

LEMMA TicketsFit ==
  ASSUME StoreInv, NEW r \in RoundSet, TicketsSane(r)
  PROVE  r \in Rounds
<1> DEFINE t == r.tickets
           n == Len(t)
<1>1. t \in Seq(Oids) /\ n \in Nat /\ DOMAIN t = 1..n /\ IsInjective(t)
  BY DEF RoundSet, TicketsSane
<1>2. t \in [1..n -> Oids]
  BY <1>1
<1>3. \A i, j \in 1..n : t[i] = t[j] => i = j
  BY <1>1 DEF IsInjective
<1>4. t \in Injection(1..n, Oids)
  <2> HIDE DEF t, n
  <2> QED BY <1>2, <1>3 DEF Injection, IsInjective
<1>5. IsFiniteSet(Oids) /\ Cardinality(Oids) = MaxOrders
  BY FS_Interval, Bounds DEF Oids
<1>6. Cardinality(1..n) = n
  BY <1>1, FS_Interval
<1>7. n <= MaxOrders
  <2> HIDE DEF t, n
  <2> QED BY <1>4, <1>5, <1>6, FS_Injection
<1>8. t \in UNION {[1..i -> Oids] : i \in 0..MaxOrders}
  <2> HIDE DEF t, n
  <2>1. n \in 0..MaxOrders
    BY <1>1, <1>7, Bounds
  <2> QED BY <1>2, <2>1
<1> QED BY <1>8 DEF RoundSet, Rounds, Phases, Reasons

\* Types, and that no order is a ticket twice.
THEOREM TypeCorrect == Spec => []TypeOK
<1>1. StoreInv => TypeOK
  <2> SUFFICES ASSUME StoreInv PROVE TypeOK
    OBVIOUS
  <2>1. round \in Rounds /\ cp \in Rounds
    BY TicketsFit DEF StoreInv
  <2>2. /\ orders \in Seq([slot : Slots, st : {"wire", "open", "ended", "lost"}, qty : Nat \ {0}, filled : Nat])
        /\ intents \in [Slots -> [st : {"none", "sent", "known", "absent", "refused"}, oid : {0} \cup Oids]]
    BY DEF StoreInv, OrderSet, IntentSet
  <2>3. Tickets \subseteq Known /\ IsInjective(round.tickets) /\ act.at \in Ats
    BY Types DEF StoreInv, TicketsSane
  <2>4. \A k \in Known : seen[k].filled <= orders[k].filled /\ orders[k].filled <= orders[k].qty
    <3> SUFFICES ASSUME NEW k \in Known
                 PROVE  seen[k].filled <= orders[k].filled /\ orders[k].filled <= orders[k].qty
      OBVIOUS
    <3>1. k \in Oids
      BY Types
    <3> QED BY <3>1 DEF StoreInv, SeenSane, OrderSane
  <2> QED BY <2>1, <2>2, <2>3, <2>4 DEF TypeOK, StoreInv
<1> QED BY <1>1, StoreInvariant, PTL

LEMMA WorkingHasIntent ==
  ASSUME StoreInv, NEW k \in Known, Works(k)
  PROVE  /\ orders[k].slot \in Slots
         /\ \/ intents[orders[k].slot].st = "sent"
            \/ intents[orders[k].slot].st = "known" /\ intents[orders[k].slot].oid = k
         /\ \/ intents[orders[k].slot].st = "sent"
            \/ intents[orders[k].slot] = [st |-> "known", oid |-> k]
<1> DEFINE s == orders[k].slot
<1>1. s \in Slots /\ k \in OrdersOf(s) /\ ~Lost(k)
  BY Types DEF OrderSet, OrdersOf, Works, Lost
<1>2. intents[s] \in IntentSet /\ IntentSane(s)
  BY <1>1 DEF StoreInv
<1>3. CASE intents[s].st = "known"
  <2>1. intents[s].oid \in OrdersOf(s) /\ Visible(intents[s].oid)
    BY <1>2, <1>3 DEF IntentSane
  <2>2. intents[s].oid = k
    BY <1>1, <2>1 DEF StoreInv, SlotsUsedOnce, OrdersOf, Visible, Lost
  <2> HIDE DEF s
  <2>3. intents[s] = [st |-> "known", oid |-> k]
    BY <1>2, <1>3, <2>2 DEF IntentSet
  <2> QED BY <1>1, <1>3, <2>2, <2>3 DEF s
<1>4. CASE intents[s].st \in {"none", "refused", "absent"}
  BY <1>1, <1>2, <1>4 DEF IntentSane
<1> QED BY <1>1, <1>2, <1>3, <1>4 DEF IntentSet

\* Whatever crashes, aborts or goes unanswered, recovery finds every order that may
\* still trade: its slot has an intent that was not given up, and if an order is
\* known under it, it is that one.
THEOREM IntentsSurvive == Spec => []WorkingOrdersHaveIntents
<1>1. StoreInv => WorkingOrdersHaveIntents
  BY WorkingHasIntent DEF WorkingOrdersHaveIntents, Works
<1> QED BY <1>1, StoreInvariant, PTL
--------------------------------------------------------------------------------
(* Quotes come before anything is filled, exits after *)

\* Where the coordinator goes
LEMMA Goes ==
  /\ \A where, then : At(where, then).at = where /\ At(where, then).then = then
  /\ \A j : Placing(j).at = "place" /\ Placing(j).job = j
  /\ \A then, net : Canceling(then, net).at = "cancel" /\ Canceling(then, net).then = then
  /\ \A then : Refreshing(then).at = "refresh" /\ Refreshing(then).then = then
  /\ Saving.at = "save" /\ Idle.at = "idle"
BY DEF At, Placing, Canceling, Refreshing, Saving, Idle

\* Once past its quotes, a round stays so.
Onward == PastQuotes => PastQuotes'

LEMMA PastIs ==
  ASSUME round' \in RoundSet
  PROVE  /\ round'.phase \notin {"idle", "reserved", "quoting", "startup_recovery"} => PastQuotes'
         /\ round'.phase = round.phase => (PastQuotes' <=> PastQuotes)
BY DEF PastQuotes

\* Where the phase does not matter
LEMMA NeutralPhase ==
  ASSUME act'.at \notin {"undo", "reduced", "flat2", "price", "exit"},
         act'.at \in {"place", "submit", "answer"} => act'.job.why \in {"stop", "restop"},
         act'.at \in {"cancel", "status", "refresh"} =>
           act'.then \notin {"undo", "entries", "reduced", "flat2", "exit"}
  PROVE  PhaseInv'
BY DEF PhaseInv, PlacingWhy, Underway

LEMMA RestingPhase ==
  act'.at \notin {"undo", "reduced", "flat2", "price", "exit", "place", "submit", "answer",
                  "cancel", "status", "refresh"} => PhaseInv'
BY NeutralPhase

\* Where nothing is quoted nor undone
LEMMA PastPhase ==
  ASSUME PastQuotes', act'.at # "undo",
         act'.at \in {"place", "submit", "answer"} => act'.job.why \notin {"first", "second"},
         act'.at \in {"cancel", "status", "refresh"} => act'.then # "undo"
  PROVE  PhaseInv'
BY DEF PhaseInv, PlacingWhy, Underway

LEMMA UnplacedPhase ==
  ASSUME StoreInv, PhaseInv, act.at \in {"place", "submit", "answer"},
         NEW how \in {"refused", "pending", "raised"}, Unplaced(how)
  PROVE  PhaseInv' /\ Onward
<1> DEFINE why == act.job.why
           r == [round EXCEPT !.blocked = @ \/ how = "pending"]
           pending == how # "refused" \/ r.blocked
<1>1. /\ round' = CASE why = "first" ->
                         [r EXCEPT !.phase = IF pending THEN "startup_recovery" ELSE "failed",
                                   !.why = IF pending THEN "pending" ELSE "none"]
                    [] why \in {"second", "exit"} -> r
                    [] why = "stop" ->
                         IF pending THEN [r EXCEPT !.phase = "hard_stop_recovery", !.why = "pending"]
                                    ELSE r
                    [] why = "restop" ->
                         [r EXCEPT !.phase = "hard_stop_recovery",
                                   !.why = IF pending THEN "pending" ELSE "retry"]
      /\ act' = IF why = "second" THEN [At("cancel", "undo") EXCEPT !.flag = pending] ELSE Saving
  BY DEF Unplaced
<1>2. round \in RoundSet /\ why \in {"first", "second", "exit", "stop", "restop"}
  BY PlaceIs DEF StoreInv, Purposes
<1>3. r.phase = round.phase /\ DOMAIN r = DOMAIN round /\ "phase" \in DOMAIN r
  BY <1>2 DEF RoundSet
<1> HIDE DEF r, pending
<1>4. why # "second" => act'.at = "save"
  BY <1>1, Goes
<1>5. why # "second" => PhaseInv'
  BY <1>4, RestingPhase
<1>6. CASE why = "first"
  <2>1. ~PastQuotes
    BY <1>6 DEF PhaseInv, PlacingWhy
  <2> QED BY <1>5, <1>6, <2>1 DEF Onward
<1>7. CASE why = "second"
  <2>1. ~PastQuotes
    BY <1>7 DEF PhaseInv, PlacingWhy
  <2>2. round' = r
    BY <1>1, <1>7
  <2>3. ~PastQuotes'
    BY <1>3, <2>1, <2>2 DEF PastQuotes
  <2>4. act' = [At("cancel", "undo") EXCEPT !.flag = pending]
    BY <1>1, <1>7
  <2>5. act'.at = "cancel" /\ act'.then = "undo"
    BY <2>4 DEF At
  <2> QED BY <2>1, <2>3, <2>5 DEF PhaseInv, PlacingWhy, Underway, Onward
<1>8. CASE why = "exit"
  <2>1. round'.phase = round.phase
    BY <1>1, <1>3, <1>8
  <2> QED BY <1>5, <1>8, <2>1 DEF Onward, PastQuotes
<1>9. CASE why \in {"stop", "restop"}
  <2>1. round'.phase \in {round.phase, "hard_stop_recovery"}
    BY <1>1, <1>3, <1>9
  <2> QED BY <1>5, <1>9, <2>1 DEF Onward, PastQuotes
<1> QED BY <1>2, <1>6, <1>7, <1>8, <1>9

LEMMA PlacedPhase ==
  ASSUME StoreInv, PhaseInv, act.at \in {"place", "submit", "answer"}, NEW k, Visible(k), Placed(k)
  PROVE  PhaseInv' /\ Onward
<1> DEFINE why == act.job.why
           u == WithTicket(round, k)
           r == [u EXCEPT !.blocked = FALSE]
           j == Job("second", "SELL", Qty, 0, FALSE)
<1>1. /\ round' = CASE why \in {"first", "exit"} -> r
                    [] why = "second" -> [r EXCEPT !.phase = "quoting"]
                    [] why = "stop" -> [r EXCEPT !.phase = "stopping", !.stop = k]
                    [] why = "restop" ->
                         [r EXCEPT !.phase = "stopping", !.stop = k, !.srev = act.job.rev]
      /\ act' = IF why = "first" THEN Placing(j) ELSE Saving
  BY DEF Placed
<1>2. round \in RoundSet /\ why \in {"first", "second", "exit", "stop", "restop"}
  BY PlaceIs DEF StoreInv, Purposes
<1>3. u \in RoundSet /\ u.phase = round.phase
  <2>1. u \in RoundSet
    BY MarkedSane, WithTicketIs
  <2>2. u.phase = round.phase
    BY <1>2 DEF WithTicket, RoundSet
  <2> QED BY <2>1, <2>2
<1> HIDE DEF u
<1>4. r.phase = round.phase /\ "phase" \in DOMAIN r
  BY <1>3 DEF RoundSet
<1> HIDE DEF r
<1>5. CASE why = "first"
  <2>1. ~PastQuotes /\ round'.phase = round.phase
    BY <1>1, <1>4, <1>5 DEF PhaseInv, PlacingWhy
  <2>2. ~PastQuotes'
    BY <2>1 DEF PastQuotes
  <2>3. j.why = "second"
    BY DEF Job
  <2> HIDE DEF j
  <2>4. act'.at = "place" /\ act'.job = j
    BY <1>1, <1>5, Goes, Zenon
  <2> QED BY <2>1, <2>2, <2>3, <2>4 DEF PhaseInv, PlacingWhy, Underway, Onward
<1>6. CASE why # "first"
  <2>1. act'.at = "save"
    BY <1>1, <1>6, Goes
  <2>2. why = "second" => ~PastQuotes
    BY DEF PhaseInv, PlacingWhy
  <2>3. why # "second" => round'.phase \in {round.phase, "stopping"}
    BY <1>1, <1>2, <1>4, <1>6
  <2>4. Onward
    BY <2>2, <2>3 DEF Onward, PastQuotes
  <2> QED BY <2>1, <2>4, RestingPhase
<1> QED BY <1>5, <1>6

LEMMA PlacePhase ==
  ASSUME StoreInv, PhaseInv, PlaceStep
  PROVE  PhaseInv' /\ Onward
<1>1. ASSUME act.at \in {"place", "submit"}, act'.at \in {"submit", "answer"}, UNCHANGED round,
             act'.job.why = act.job.why
      PROVE  PhaseInv' /\ Onward
  <2>1. PastQuotes' <=> PastQuotes
    BY <1>1 DEF PastQuotes
  <2> QED BY <1>1, <2>1 DEF PhaseInv, PlacingWhy, Underway, Onward
<1>2. CASE RefuseEarly \/ RefuseSubmit
  <2>1. act.at \in {"place", "submit"} /\ (Unplaced("refused") \/ Unplaced("raised"))
    BY <1>2 DEF RefuseEarly, RefuseSubmit, Refused
  <2> QED BY <2>1, UnplacedPhase
<1>3. CASE PersistIntent
  <2>1. act.at = "place" /\ act' = [act EXCEPT !.at = "submit"] /\ UNCHANGED round /\ act \in ActSet
    BY <1>3 DEF PersistIntent, StoreInv
  <2>2. act'.at = "submit" /\ act'.job = act.job
    BY <2>1 DEF ActSet
  <2> QED BY <1>1, <2>1, <2>2
<1>4. CASE Reuse
  <2>1. act.at = "place" /\ (Unplaced("pending") \/ (Shown(JobSlot) # 0 /\ Placed(Shown(JobSlot))))
    BY <1>4 DEF Reuse
  <2>2. Shown(JobSlot) # 0 => Visible(Shown(JobSlot))
    BY ShownIs
  <2> QED BY <2>1, <2>2, UnplacedPhase, PlacedPhase
<1>5. CASE Send
  <2>1. /\ act.at = "submit" /\ act' = [act EXCEPT !.at = "answer", !.job.oid = Len(orders) + 1]
        /\ UNCHANGED round /\ act \in ActSet /\ act.job \in JobSet
    BY <1>5, Types DEF Send, StoreInv
  <2>2. act'.at = "answer" /\ act'.job.why = act.job.why
    BY <2>1 DEF ActSet, JobSet
  <2> QED BY <1>1, <2>1, <2>2
<1>6. CASE Answer
  <2> DEFINE k == act.job.oid
  <2>1. act.at = "answer" /\ k \in Known /\ orders[k] \in OrderSet
    BY <1>6, Types DEF Answer, StoreInv, PlaceSane, OrdersOf
  <2>2. CASE orders[k].st \notin {"wire", "lost"} /\ Placed(k)
    <3>1. Visible(k)
      BY <2>1, <2>2 DEF Visible, OrderSet
    <3> HIDE DEF k
    <3> QED BY <2>1, <2>2, <3>1, PlacedPhase
  <2>3. CASE Refused
    <3>1. Unplaced("raised") \/ Unplaced("refused")
      BY <2>3 DEF Refused
    <3> QED BY <2>1, <3>1, UnplacedPhase
  <2>4. CASE Unplaced("pending")
    BY <2>1, <2>4, UnplacedPhase
  <2> QED BY <1>6, <2>2, <2>3, <2>4 DEF Answer
<1> QED BY <1>2, <1>3, <1>4, <1>5, <1>6 DEF PlaceStep

\* A cancel is for what it was begun for.
LEMMA SamePhase ==
  ASSUME PhaseInv, UNCHANGED round, act'.then = act.then, act.at \in {"cancel", "status"},
         \/ act'.at \in {"cancel", "status"}
         \/ act'.at = act.then /\ act.then \in {"undo", "exit", "stop"}
  PROVE  PhaseInv' /\ Onward
<1>1. PastQuotes' <=> PastQuotes
  BY DEF PastQuotes
<1> QED BY <1>1 DEF PhaseInv, PlacingWhy, Underway, Onward

LEMMA CancelFailedPhase ==
  ASSUME StoreInv, PhaseInv, act.at \in {"cancel", "status"}, Rest # {}, CancelFailed
  PROVE  PhaseInv' /\ Onward
<1>1. /\ act'.at = "save" \/ (act'.at = "cancel" /\ act'.then = act.then)
      /\ act.then = "undo" => act'.at = "save"
      /\ act.then # "undo" => round' = round
  BY CancelFailedIs
<1>2. CASE act.then = "undo"
  <2>1. ~PastQuotes
    BY <1>2 DEF PhaseInv, Underway
  <2> QED BY <1>1, <1>2, <2>1, RestingPhase DEF Onward
<1>3. CASE act.then # "undo" /\ act'.at = "save"
  <2>1. PastQuotes' <=> PastQuotes
    BY <1>1, <1>3 DEF PastQuotes
  <2> QED BY <1>3, <2>1, RestingPhase DEF Onward
<1>4. CASE act.then # "undo" /\ act'.at = "cancel"
  BY <1>1, <1>4, SamePhase
<1> QED BY <1>1, <1>2, <1>3, <1>4

LEMMA RefreshingWith ==
  \A then, flag : /\ [Refreshing(then) EXCEPT !.flag = flag].at = "refresh"
                  /\ [Refreshing(then) EXCEPT !.flag = flag].then = then
BY DEF Refreshing, At

LEMMA CanceledPhase ==
  ASSUME StoreInv, PhaseInv, Canceled
  PROVE  PhaseInv' /\ Onward
<1>1. act.at = "cancel" /\ Rest = {} /\ act.then \in Cancels \ {"undo"} /\ round \in RoundSet
  BY DEF Canceled, StoreInv, CancelSane
<1>2. CASE act.then # "startup"
  <2> DEFINE then == IF act.then = "entries" THEN "reduced" ELSE act.then
  <2>1. act' = [Refreshing(then) EXCEPT !.flag = act.flag] /\ UNCHANGED round
    BY <1>2 DEF Canceled
  <2>2. then \in {"reduced", "flat", "flat2", "expired", "exit", "stop"}
        /\ (then \in {"reduced", "flat2", "exit"} => act.then \in {"entries", "flat2", "exit"})
    BY <1>1, <1>2 DEF Cancels
  <2> HIDE DEF then
  <2>3. act'.at = "refresh" /\ act'.then = then
    BY <2>1, RefreshingWith, Zenon
  <2>4. PastQuotes' <=> PastQuotes
    BY <2>1 DEF PastQuotes
  <2>5. then \in {"reduced", "flat2", "exit"} => PastQuotes
    BY <1>1, <2>2 DEF PhaseInv, Underway
  <2> QED BY <2>2, <2>3, <2>4, <2>5 DEF PhaseInv, PlacingWhy, Underway, Onward
<1>3. CASE act.then = "startup"
  <2>1. \/ /\ act' = Saving
           /\ Finish(IF \A s \in Sides : FilledOn(s, seen) > 0 THEN "complete" ELSE "failed")
        \/ act' = Canceling("entries", Net) /\ round' = [round EXCEPT !.phase = "exposed"]
    BY <1>3 DEF Canceled
  <2>2. round'.phase \in {"complete", "failed", "exposed"}
    BY <1>1, <2>1 DEF Finish, RoundSet
  <2>3. PastQuotes'
    BY <2>2 DEF PastQuotes
  <2>4. act'.at = "save" \/ (act'.at = "cancel" /\ act'.then = "entries")
    BY <2>1, Goes
  <2> QED BY <2>3, <2>4, PastPhase DEF Onward
<1> QED BY <1>2, <1>3

LEMMA CancelPhase ==
  ASSUME StoreInv, PhaseInv, CancelStep
  PROVE  PhaseInv' /\ Onward
<1>1. act \in ActSet /\ round \in RoundSet
  BY DEF StoreInv
<1>2. CASE Cancel
  <2>1. act.at = "cancel" /\ Rest # {}
    BY <1>2 DEF Cancel
  <2>2. CASE act' = [act EXCEPT !.i = Min(Rest) + 1] /\ UNCHANGED round
    <3>1. act'.at = "cancel" /\ act'.then = act.then
      BY <1>1, <2>1, <2>2 DEF ActSet
    <3> QED BY <2>1, <2>2, <3>1, SamePhase
  <2>3. CASE act' = [act EXCEPT !.at = "status"] /\ UNCHANGED round
    <3>1. act'.at = "status" /\ act'.then = act.then
      BY <1>1, <2>3 DEF ActSet
    <3> QED BY <2>1, <2>3, <3>1, SamePhase
  <2> QED BY <1>2, <2>1, <2>2, <2>3, CancelFailedPhase DEF Cancel
<1>3. CASE CancelStatus
  <2>1. act.at = "status" /\ Rest # {} /\ act.then \in Cancels
    BY <1>3, CancelIs DEF CancelStatus
  <2> DEFINE where == IF act.then \in {"exit", "stop", "undo"} THEN act.then ELSE "cancel"
  <2>2. CASE act' = [act EXCEPT !.at = where, !.i = Min(Rest) + 1] /\ UNCHANGED round
    <3>1. act'.at = where /\ act'.then = act.then
      <4> HIDE DEF where
      <4> QED BY <1>1, <2>2 DEF ActSet
    <3>2. act'.at = "cancel" \/ (act'.at = act.then /\ act.then \in {"undo", "exit", "stop"})
      BY <3>1
    <3> QED BY <2>1, <2>2, <3>1, <3>2, SamePhase
  <2> QED BY <1>3, <2>1, <2>2, CancelFailedPhase DEF CancelStatus
<1>4. CASE StatusFails
  BY <1>4, CancelIs, CancelFailedPhase DEF StatusFails
<1>5. CASE Undone
  <2>1. act.at = "undo" /\ act' = Saving /\ ~PastQuotes
    BY <1>5 DEF Undone, PhaseInv
  <2>2. act'.at = "save"
    BY <2>1, Goes
  <2> QED BY <2>1, <2>2, RestingPhase DEF Onward
<1> QED BY <1>2, <1>3, <1>4, <1>5, CanceledPhase DEF CancelStep

\* One more revision of a stop, or none
LEMMA RetryStopPhase ==
  ASSUME StoreInv, NEW r, r \in RoundSet,
         r.phase \in {round.phase, "stopping"}, RetryStop(r)
  PROVE  PhaseInv' /\ Onward
<1>1. act' \in {Saving, Placing(Job("restop", ExitSide(Net), Abs(Net), r.srev + 1, TRUE))}
  BY DEF RetryStop
<1>2. act'.at = "save" \/ (act'.at = "place" /\ act'.job.why = "restop")
  BY <1>1 DEF Placing, At, Job, Saving
<1>3. round'.phase \in {r.phase, "hard_stop_recovery"}
  BY DEF RetryStop, RoundSet
<1>4. Onward
  BY <1>3 DEF Onward, PastQuotes
<1> QED BY <1>2, <1>4, NeutralPhase

LEMMA StoppingPhase ==
  ASSUME StoreInv, NEW r, r \in RoundSet,
         r.phase \in {round.phase, "stopping"}, Stopping(r)
  PROVE  PhaseInv' /\ Onward
<1>1. CASE RetryStop(r)
  BY <1>1, RetryStopPhase
<1>2. CASE act' = Saving /\ (round' = r \/ round' = [r EXCEPT !.phase = "hard_stop", !.why = "none"])
  <2>1. round'.phase \in {r.phase, "hard_stop"} /\ act'.at = "save"
    BY <1>2, Goes DEF RoundSet
  <2> QED BY <2>1, RestingPhase DEF Onward, PastQuotes
<1> QED BY <1>1, <1>2 DEF Stopping

LEMMA DecidePhase ==
  ASSUME StoreInv, PhaseInv, DecideStep
  PROVE  PhaseInv' /\ Onward
<1>1. round \in RoundSet
  BY DEF StoreInv
<1>2. CASE DecideRecovery
  <2>1. CASE RetryStop(round)
    BY <1>1, <2>1, RetryStopPhase
  <2>2. CASE UNCHANGED round /\ act' \in {At("recover", "none"), Canceling("startup", 0), Saving}
    <3>1. act'.at \in {"recover", "save"} \/ (act'.at = "cancel" /\ act'.then = "startup")
      BY <2>2, Goes
    <3>2. Onward
      BY <2>2 DEF Onward, PastQuotes
    <3> QED BY <3>1, <3>2, NeutralPhase
  <2> QED BY <1>2, <2>1, <2>2 DEF DecideRecovery
<1>3. CASE DecideStopping
  BY <1>1, <1>3, StoppingPhase DEF DecideStopping
<1>4. CASE DecideTraded \/ DecideUntraded
  <2>1. \/ act' \in {Saving, Canceling("flat", 0), Canceling("expired", 0)} /\ UNCHANGED round
        \/ act' = Canceling("entries", Net) /\ round' = [round EXCEPT !.phase = "exposed"]
    BY <1>4 DEF DecideTraded, DecideUntraded
  <2>2. CASE act' \in {Saving, Canceling("flat", 0), Canceling("expired", 0)} /\ UNCHANGED round
    <3>1. act'.at = "save" \/ (act'.at = "cancel" /\ act'.then \in {"flat", "expired"})
      BY <2>2, Goes
    <3>2. Onward
      BY <2>2 DEF Onward, PastQuotes
    <3> QED BY <3>1, <3>2, NeutralPhase
  <2>3. CASE act' = Canceling("entries", Net) /\ round' = [round EXCEPT !.phase = "exposed"]
    <3>1. act'.at = "cancel" /\ act'.then = "entries" /\ round'.phase = "exposed"
      BY <1>1, <2>3, Goes DEF RoundSet
    <3>2. PastQuotes'
      BY <3>1 DEF PastQuotes
    <3> QED BY <3>1, <3>2, PastPhase DEF Onward
  <2> QED BY <2>1, <2>2, <2>3
<1>5. CASE DecideFlat
  <2>1. \/ act' = Canceling("entries", Net) /\ round' = [round EXCEPT !.phase = "exposed"]
        \/ act.at = "flat2" /\ act' = At("price", "none") /\ UNCHANGED round
        \/ act' = Saving /\ (round' = [round EXCEPT !.phase = "closing"] \/ Finish("complete"))
    BY <1>5 DEF DecideFlat
  <2>2. PastQuotes'
    <3>1. round'.phase \in {"exposed", "closing", "complete"} \/ (act.at = "flat2" /\ UNCHANGED round)
      BY <1>1, <2>1 DEF Finish, RoundSet
    <3> QED BY <3>1 DEF PhaseInv, PastQuotes
  <2>3. act'.at \in {"price", "save"} \/ (act'.at = "cancel" /\ act'.then = "entries")
    BY <2>1, Goes
  <2> QED BY <2>2, <2>3, PastPhase DEF Onward
<1>6. CASE DecideReduced
  <2>1. \/ act' = Canceling("flat2", 0) /\ round' = [round EXCEPT !.phase = "closing"]
        \/ act' = At("price", "none") /\ UNCHANGED round
    BY <1>6 DEF DecideReduced
  <2>2. act.at = "reduced"
    BY <1>6 DEF DecideReduced
  <2>3. PastQuotes'
    <3>1. round'.phase = "closing" \/ UNCHANGED round
      BY <1>1, <2>1 DEF RoundSet
    <3> QED BY <2>2, <3>1 DEF PhaseInv, PastQuotes
  <2>4. act'.at = "price" \/ (act'.at = "cancel" /\ act'.then = "flat2")
    BY <2>1, Goes
  <2> QED BY <2>3, <2>4, PastPhase DEF Onward
<1>7. CASE DecideExpired
  <2>1. act' \in {Refreshing("decide"), Saving} /\ (UNCHANGED round \/ Finish("expired"))
    BY <1>7 DEF DecideExpired
  <2>2. act'.at = "save" \/ (act'.at = "refresh" /\ act'.then = "decide")
    BY <2>1, Goes
  <2>3. round'.phase \in {round.phase, "expired"}
    BY <1>1, <2>1 DEF Finish, RoundSet
  <2>4. Onward
    BY <2>3 DEF Onward, PastQuotes
  <2> QED BY <2>2, <2>4, NeutralPhase
<1> QED BY <1>2, <1>3, <1>4, <1>5, <1>6, <1>7 DEF DecideStep

LEMMA ExitPhase ==
  ASSUME StoreInv, PhaseInv, ExitStep
  PROVE  PhaseInv' /\ Onward
<1>1. round \in RoundSet
  BY DEF StoreInv
<1>2. CASE NoPrice \/ Breach \/ KeepExit \/ ReplaceExit
  <2>1. /\ act.at = "price" /\ round' \in {round, [round EXCEPT !.why = "none"]}
        /\ act' \in {Saving, Canceling("stop", Net), Canceling("exit", Net),
                     Placing(Job("stop", ExitSide(Net), Abs(Net), round.srev, FALSE))}
    BY <1>2, Zenon DEF NoPrice, Breach, KeepExit, ReplaceExit, Exposed
  <2>2. PastQuotes'
    <3>1. round'.phase = round.phase
      BY <1>1, <2>1 DEF RoundSet
    <3> QED BY <2>1, <3>1 DEF PhaseInv, PastQuotes
  <2>3. CASE act' \in {Saving, Canceling("stop", Net), Canceling("exit", Net)}
    <3>1. act'.at = "save" \/ (act'.at = "cancel" /\ act'.then \in {"stop", "exit"})
      BY <2>3, Goes
    <3> QED BY <2>2, <3>1, PastPhase DEF Onward
  <2>4. CASE act' = Placing(Job("stop", ExitSide(Net), Abs(Net), round.srev, FALSE))
    <3>1. act'.at = "place" /\ act'.job.why = "stop"
      BY <2>4 DEF Placing, At, Job, Saving
    <3> QED BY <2>2, <3>1, PastPhase DEF Onward
  <2> QED BY <2>1, <2>3, <2>4
<1>3. CASE PlaceExit
  <2>1. act.at = "price" /\ \E side, rev : act' = Placing(Job("exit", side, Abs(Net), rev, FALSE))
    BY <1>3, Zenon DEF PlaceExit, Exposed
  <2>2. act'.at = "place" /\ act'.job.why = "exit"
    BY <2>1 DEF Placing, At, Job, Saving
  <2>3. round'.phase = round.phase
    BY <1>1, <1>3 DEF PlaceExit, RoundSet
  <2>4. PastQuotes'
    BY <2>1, <2>3 DEF PhaseInv, PastQuotes
  <2> QED BY <2>2, <2>4, PastPhase DEF Onward
<1>4. CASE ExitCanceled
  <2>1. act.at = "exit"
        /\ (act' = Saving \/ \E side, qty, rev : act' = Placing(Job("exit", side, qty, rev, TRUE)))
    BY <1>4, Zenon DEF ExitCanceled
  <2>2. act'.at = "save" \/ (act'.at = "place" /\ act'.job.why = "exit")
    BY <2>1 DEF Placing, At, Job, Saving
  <2>3. round'.phase \in {round.phase, "complete"}
    BY <1>1, <1>4 DEF ExitCanceled, Finish, RoundSet
  <2>4. PastQuotes'
    BY <2>1, <2>3 DEF PhaseInv, PastQuotes
  <2> QED BY <2>2, <2>4, PastPhase DEF Onward
<1>5. CASE StopExitCanceled
  <2>1. act' \in {Saving, Placing(Job("stop", ExitSide(act.net), ExitQty(act.net), round.srev, TRUE))}
    BY <1>5 DEF StopExitCanceled
  <2>2. act'.at = "save" \/ (act'.at = "place" /\ act'.job.why = "stop")
    BY <2>1 DEF Placing, At, Job, Saving
  <2>3. round'.phase \in {round.phase, "hard_stop"}
    BY <1>1, <1>5 DEF StopExitCanceled, Finish, RoundSet
  <2>4. Onward
    BY <2>3 DEF Onward, PastQuotes
  <2> QED BY <2>2, <2>4, NeutralPhase
<1> QED BY <1>2, <1>3, <1>4, <1>5 DEF ExitStep

LEMMA RefreshedTo ==
  ASSUME StoreInv, Refreshed
  PROVE  act'.at = act.then /\ act.then \in {"decide", "reduced", "flat", "flat2", "expired"}
<1>1. act.at = "refresh" /\ act' = [At(act.then, "none") EXCEPT !.flag = act.flag]
  BY DEF Refreshed
<1> QED BY <1>1 DEF At, StoreInv, CancelSane

LEMMA LookPhase ==
  ASSUME StoreInv, PhaseInv, Step \/ Refresh \/ Refreshed \/ Save
  PROVE  PhaseInv' /\ Onward
<1>1. act \in ActSet /\ round \in RoundSet
  BY DEF StoreInv
<1>2. round'.phase = round.phase
  BY <1>1 DEF Step, Refresh, Refreshed, Save, RoundSet
<1>3. (PastQuotes' <=> PastQuotes) /\ Onward
  BY <1>2 DEF PastQuotes, Onward
<1>4. CASE Step \/ Save
  <2>1. act' \in {Refreshing("decide"), At("done", "none"), Idle}
    BY <1>4 DEF Step, Save
  <2>2. act'.at \in {"done", "idle"} \/ (act'.at = "refresh" /\ act'.then = "decide")
    BY <2>1, Goes
  <2> QED BY <1>3, <2>2, NeutralPhase
<1>5. CASE Refresh
  <2>1. act.at = "refresh" /\ act' = [act EXCEPT !.i = @ + 1]
    BY <1>5 DEF Refresh
  <2>2. act'.at = "refresh" /\ act'.then = act.then
    BY <1>1, <2>1 DEF ActSet
  <2> QED BY <1>3, <2>1, <2>2 DEF PhaseInv, PlacingWhy, Underway
<1>6. CASE Refreshed
  <2>1. act.at = "refresh"
    BY <1>6 DEF Refreshed
  <2> QED BY <1>3, <1>6, <2>1, RefreshedTo DEF PhaseInv, PlacingWhy, Underway
<1> QED BY <1>4, <1>5, <1>6

LEMMA RecoverPhase ==
  ASSUME StoreInv, PhaseInv, Recover \/ RecoveredStop
  PROVE  PhaseInv' /\ Onward
<1>1. CASE Recover
  <2>1. PICK found \in SUBSET Findable, gone \in SUBSET Absences :
          \E new, t, b : RecoverTo(found, gone, new, t, b)
    BY <1>1, RecoverIs
  <2>2. /\ round'.phase = round.phase
        /\ act' \in {Saving, Canceling("startup", 0), At("recovered", "none")}
    BY <2>1 DEF RecoverTo
  <2>3. act'.at \in {"save", "recovered"} \/ (act'.at = "cancel" /\ act'.then = "startup")
    BY <2>2, Goes
  <2>4. Onward
    BY <2>2 DEF Onward, PastQuotes
  <2> QED BY <2>3, <2>4, NeutralPhase
<1>2. CASE RecoveredStop
  <2> DEFINE r == [round EXCEPT !.phase = "stopping"]
  <2>1. round \in RoundSet
    BY DEF StoreInv
  <2>2. r \in RoundSet /\ r.phase = "stopping"
    BY <2>1, WordsIn DEF RoundSet
  <2>3. (act' = Saving /\ round' = [round EXCEPT !.why = "missing"]) \/ Stopping(r)
    BY <1>2 DEF RecoveredStop
  <2> HIDE DEF r
  <2>4. CASE act' = Saving /\ round' = [round EXCEPT !.why = "missing"]
    <3>1. act'.at = "save" /\ round'.phase = round.phase
      BY <2>1, <2>4, Goes DEF RoundSet
    <3> QED BY <3>1, RestingPhase DEF Onward, PastQuotes
  <2>5. CASE Stopping(r)
    BY <2>2, <2>5, StoppingPhase
  <2> QED BY <2>3, <2>4, <2>5
<1> QED BY <1>1, <1>2

LEMMA RestartPhase ==
  ASSUME StoreInv, PhaseInv, Adopt \/ Abort \/ Crash
  PROVE  PhaseInv'
<1>1. CASE Adopt
  <2>1. \E over : act' = IF over THEN At("done", "none") ELSE Idle
    BY <1>1, ZenonT(40) DEF Adopt
  <2>2. act'.at \in {"done", "idle"}
    BY <2>1, Goes
  <2> QED BY <2>2, RestingPhase
<1>2. CASE Abort \/ Crash
  <2>1. act'.at \in {"idle", "down"}
    BY <1>2, Goes DEF Abort, Crash
  <2> QED BY <2>1, RestingPhase
<1> QED BY <1>1, <1>2

LEMMA QuietPhase ==
  PhaseInv /\ UNCHANGED <<round, act>> => PhaseInv' /\ Onward
BY DEF PhaseInv, PlacingWhy, Underway, PastQuotes, Onward

LEMMA NextPhase ==
  ASSUME StoreInv, PhaseInv, [Next]_vars
  PROVE  PhaseInv'
<1>1. CASE Step \/ Refresh \/ Refreshed \/ Save
  BY <1>1, LookPhase
<1>2. CASE PlaceStep
  BY <1>2, PlacePhase
<1>3. CASE CancelStep \/ DecideStep \/ ExitStep
  BY <1>3, CancelPhase, DecidePhase, ExitPhase
<1>4. CASE RecoverStep
  BY <1>4, RecoverPhase, RestartPhase DEF RecoverStep
<1>5. CASE Abort \/ Crash
  BY <1>5, RestartPhase
<1>6. CASE Venue
  BY <1>6, VenueIs, QuietPhase
<1>7. CASE UNCHANGED vars
  BY <1>7, QuietPhase DEF vars
<1> QED BY <1>1, <1>2, <1>3, <1>4, <1>5, <1>6, <1>7 DEF Next

LEMMA InitPhase == Init => PhaseInv
<1> SUFFICES ASSUME Init PROVE PhaseInv
  OBVIOUS
<1> DEFINE j == Job("first", "BUY", Qty, 0, FALSE)
<1>1. round = Fresh /\ act = Placing(j)
  BY DEF Init
<1>2. j.why = "first"
  BY DEF Job
<1> HIDE DEF j
<1>3. act.at = "place" /\ act.job = j
  BY <1>1, Goes, Zenon
<1>4. ~PastQuotes
  BY <1>1 DEF PastQuotes, Fresh
<1> QED BY <1>2, <1>3, <1>4 DEF PhaseInv, PlacingWhy, Underway
--------------------------------------------------------------------------------
(* Every order that may still trade is watched *)

Watched == \A k \in Known : Works(k) => k \in Tickets \/ LostExit(k)

\* A lost exit stays one until it is found.
LostStay == \A k \in Known : Works(k) /\ LostExit(k) => k \in Tickets' \/ LostExit(k)'

LEMMA LostStays ==
  ASSUME OrdersGo, Onward, UNCHANGED intents
  PROVE  LostStay
BY DEF OrdersGo, Onward, LostStay, LostExit

\* Where nothing excuses an order from being a ticket
LEMMA NoExcuse ==
  ASSUME WatchInv,
         act.at \notin {"down", "done", "answer"},
         ~(act.at \in {"cancel", "status", "undo"} /\ act.then = "undo" /\ act.flag),
         Pending => /\ act.at \notin {"idle", "save", "decide", "recover"}
                    /\ ~(act.at = "refresh" /\ act.then = "decide")
  PROVE  Watched
BY DEF WatchInv, Unwatched, Watched

LEMMA WatchedStays ==
  ASSUME StoreInv, Watched, OrdersGo, LostStay, Tickets \subseteq Tickets', act'.at # "recover"
  PROVE  WatchInv'
BY DEF Watched, LostStay, OrdersGo, WatchInv

LEMMA ExcusesStay ==
  ASSUME StoreInv, WatchInv, OrdersGo, LostStay, Tickets \subseteq Tickets',
         act'.at = "recover" => Pending', \A k \in Known : Unwatched(k) => Unwatched(k)'
  PROVE  WatchInv'
BY DEF OrdersGo, LostStay, WatchInv

LEMMA OwnWatched ==
  ASSUME StoreInv, Watched, Own, Onward, round'.tickets = round.tickets, act'.at # "recover"
  PROVE  WatchInv'
<1>1. OrdersGo /\ LostStay
  BY OrdersStay, LostStays DEF Own
<1>2. Tickets' = Tickets
  BY DEF Tickets
<1> QED BY <1>1, <1>2, WatchedStays

\* A placement that ends
LEMMA UnplacedWatched ==
  ASSUME StoreInv, WatchInv, act.at \in {"place", "submit", "answer"}, UNCHANGED orders, LostStay,
         NEW how \in {"refused", "pending", "raised"}, Unplaced(how),
         Watched \/ (how # "refused" /\ act.job.why # "exit")
  PROVE  WatchInv'
<1>1. /\ Marked(round')
      /\ act'.at = "save" \/ (act'.at = "cancel" /\ act'.then = "undo")
      /\ how # "refused" /\ act.job.why # "exit" =>
           (act'.at = "save" /\ Pending') \/ (act'.at = "cancel" /\ act'.then = "undo" /\ act'.flag)
  BY PlaceIs, UnplacedIs
<1>2. OrdersGo /\ Tickets' = Tickets
  BY <1>1, OrdersStay DEF Marked, Tickets
<1>3. CASE Watched
  BY <1>1, <1>2, <1>3, WatchedStays
<1>4. CASE how # "refused" /\ act.job.why # "exit"
  <2>1. \A k : Unwatched(k)'
    BY <1>1, <1>4 DEF Unwatched
  <2> QED BY <1>1, <2>1 DEF WatchInv
<1> QED BY <1>3, <1>4

LEMMA PlacedWatched ==
  ASSUME StoreInv, act.at \in {"place", "answer"}, UNCHANGED orders, LostStay,
         NEW k, Visible(k), Placed(k),
         \A j \in Known : Works(j) => j \in Tickets \cup {k} \/ LostExit(j)
  PROVE  WatchInv'
<1>1. Tickets' = Tickets \cup {k} /\ act'.at \in {"save", "place"}
  BY PlaceIs, PlacedIs
<1>2. OrdersGo
  BY OrdersStay
<1> QED BY <1>1, <1>2 DEF OrdersGo, LostStay, WatchInv

\* An order that works is found under its slot once the venue shows it.
LEMMA FoundIs ==
  ASSUME StoreInv, NEW k \in Known, Works(k), NEW s, s = orders[k].slot, Shown(s) # 0
  PROVE  Shown(s) = k
<1>1. Shown(s) \in OrdersOf(s) /\ Visible(Shown(s))
  BY ShownIs
<1>2. ~Lost(Shown(s)) /\ ~Lost(k) /\ Shown(s) \in Known /\ orders[Shown(s)].slot = orders[k].slot
  BY <1>1 DEF Visible, Lost, Works, OrdersOf
<1> QED BY <1>2 DEF StoreInv, SlotsUsedOnce

\* What is stored of a slot changes where nothing of it works, or its order is found.
LEMMA SlotChanges ==
  ASSUME StoreInv, OrdersGo, Onward, \A s \in Slots : s # JobSlot => intents'[s] = intents[s],
         \A k \in OrdersOf(JobSlot) : Works(k) /\ LostExit(k) => k \in Tickets'
  PROVE  LostStay
<1> SUFFICES ASSUME NEW k \in Known, Works(k), LostExit(k), k \notin Tickets'
             PROVE  LostExit(k)'
  BY DEF LostStay
<1>1. orders[k] \in OrderSet
  BY Types
<1>2. orders[k].slot # JobSlot /\ orders[k].slot \in Slots
  BY <1>1 DEF OrdersOf, OrderSet
<1> QED BY <1>2 DEF OrdersGo, Onward, LostExit

LEMMA PlaceWatched ==
  ASSUME StoreInv, PhaseInv, WatchInv, PlaceStep
  PROVE  WatchInv'
<1>0. Onward /\ intents \in [Slots -> IntentSet]
  BY PlacePhase DEF StoreInv
<1>1. act.at \in {"place", "submit"} => Watched
  BY NoExcuse
<1>2. CASE RefuseEarly
  <2>1. act.at = "place" /\ UNCHANGED orders /\ (Unplaced("refused") \/ Unplaced("raised"))
        /\ IsFresh(JobSlot) /\ intents' = [intents EXCEPT ![JobSlot] = NoIntent]
    BY <1>2 DEF RefuseEarly
  <2>2. \A k \in OrdersOf(JobSlot) : ~LostExit(k)
    BY <2>1 DEF IsFresh, OrdersOf, LostExit
  <2>3. LostStay
    BY <1>0, <2>1, <2>2, OrdersStay, SlotChanges
  <2> QED BY <1>1, <2>1, <2>3, UnplacedWatched
<1>3. CASE PersistIntent
  <2>1. /\ act.at = "place" /\ UNCHANGED <<orders, round>> /\ act' = [act EXCEPT !.at = "submit"]
        /\ act \in ActSet /\ IsFresh(JobSlot)
        /\ intents' = [intents EXCEPT ![JobSlot] = [st |-> "sent", oid |-> 0]]
    BY <1>3 DEF PersistIntent, StoreInv
  <2>2. act'.at = "submit" /\ Tickets' = Tickets /\ OrdersGo
    BY <2>1, OrdersStay DEF ActSet, Tickets
  <2>3. \A k \in OrdersOf(JobSlot) : ~LostExit(k)
    BY <2>1 DEF IsFresh, OrdersOf, LostExit
  <2>4. LostStay
    BY <1>0, <2>1, <2>2, <2>3, SlotChanges
  <2> QED BY <1>1, <2>1, <2>2, <2>4, WatchedStays
<1>4. CASE Reuse
  <2>1. act.at = "place" /\ UNCHANGED orders /\ Watched /\ OrdersGo
    BY <1>1, <1>4, OrdersStay DEF Reuse
  <2>2. CASE /\ Shown(JobSlot) # 0 /\ Placed(Shown(JobSlot))
             /\ intents' = [intents EXCEPT ![JobSlot] = [st |-> "known", oid |-> Shown(JobSlot)]]
    <3>1. Visible(Shown(JobSlot))
      BY <2>2, ShownIs
    <3>2. Shown(JobSlot) \in Tickets'
      BY <2>1, <2>2, <3>1, PlaceIs, PlacedIs
    <3>3. \A k \in OrdersOf(JobSlot) : Works(k) => k = Shown(JobSlot)
      BY <2>2, FoundIs DEF OrdersOf
    <3>4. LostStay
      BY <1>0, <2>1, <2>2, <3>2, <3>3, SlotChanges
    <3>5. \A j \in Known : Works(j) => j \in Tickets \cup {Shown(JobSlot)} \/ LostExit(j)
      BY <2>1 DEF Watched
    <3> QED BY <2>1, <2>2, <3>1, <3>4, <3>5, PlacedWatched
  <2>3. CASE /\ Unplaced("pending")
             /\ \/ UNCHANGED intents
                \/ /\ CertainlyAbsent(JobSlot)
                   /\ intents' = [intents EXCEPT ![JobSlot].st = "absent"]
    <3>1. CASE UNCHANGED intents
      <4>1. LostStay
        BY <1>0, <2>1, <3>1, LostStays
      <4> QED BY <2>1, <2>3, <4>1, UnplacedWatched
    <3>2. CASE CertainlyAbsent(JobSlot) /\ intents' = [intents EXCEPT ![JobSlot].st = "absent"]
      <4>1. \A k \in OrdersOf(JobSlot) : ~Works(k)
        BY <3>2 DEF CertainlyAbsent, OrdersOf, Works
      <4>2. LostStay
        BY <1>0, <2>1, <3>2, <4>1, SlotChanges
      <4> QED BY <2>1, <2>3, <4>2, UnplacedWatched
    <3> QED BY <2>3, <3>1, <3>2
  <2> QED BY <1>4, <2>2, <2>3 DEF Reuse
<1>5. CASE RefuseSubmit
  <2>1. act.at = "submit" /\ UNCHANGED orders /\ Refused
    BY <1>5 DEF RefuseSubmit
  <2>2. \A k \in OrdersOf(JobSlot) : ~Works(k)
    BY <2>1 DEF StoreInv, PlaceSane, Lost, Works
  <2>3. LostStay
    BY <1>0, <2>1, <2>2, OrdersStay, SlotChanges DEF Refused
  <2>4. Unplaced("refused") \/ Unplaced("raised")
    BY <2>1 DEF Refused
  <2> QED BY <1>1, <2>1, <2>3, <2>4, UnplacedWatched
<1>6. CASE Send
  <2> DEFINE n == Len(orders) + 1
  <2>1. PICK q \in 1..act.job.qty :
          orders' = Append(orders, [slot |-> JobSlot, st |-> "wire", qty |-> q, filled |-> 0])
    BY <1>6 DEF Send
  <2>2. /\ act.at = "submit" /\ act' = [act EXCEPT !.at = "answer", !.job.oid = n]
        /\ UNCHANGED <<intents, round>> /\ act \in ActSet /\ act.job \in JobSet
    BY <1>6, Types DEF Send, StoreInv
  <2>3. act'.at = "answer" /\ act'.job.oid = n
    BY <2>2 DEF ActSet, JobSet
  <2>4. Known = 1..Len(orders) /\ Len(orders) \in Nat
    BY Types
  <2>5. Known' = Known \cup {n} /\ \A k \in Known : orders'[k] = orders[k]
    BY <2>1, <2>4 DEF Known
  <2> HIDE DEF n
  <2>6. \A k \in Known : Works(k)' => k \in Tickets \/ LostExit(k)
    BY <1>1, <2>2, <2>5 DEF Watched, Works
  <2>7. \A k \in Known : LostExit(k) => LostExit(k)'
    BY <2>2, <2>5 DEF LostExit, PastQuotes
  <2>8. (\A k : k = n => Unwatched(k)') /\ Tickets' = Tickets
    BY <2>2, <2>3 DEF Unwatched, Tickets
  <2> QED BY <2>3, <2>5, <2>6, <2>7, <2>8 DEF WatchInv
<1>7. CASE Answer
  <2> DEFINE k == act.job.oid
  <2>1. act.at = "answer" /\ UNCHANGED orders /\ k \in Known /\ orders[k] \in OrderSet
        /\ orders[k].slot = JobSlot /\ intents[JobSlot].st = "sent" /\ OrdersGo
    BY <1>7, Types, OrdersStay DEF Answer, StoreInv, PlaceSane, OrdersOf
  <2>2. \A j \in Known : Works(j) => j \in Tickets \cup {k} \/ LostExit(j)
    BY <2>1 DEF WatchInv, Unwatched
  <2>3. \A j \in OrdersOf(JobSlot) : Works(j) => j = k
    BY <2>1 DEF StoreInv, PlaceSane, Lost, Works
  <2>4. CASE /\ orders[k].st \notin {"wire", "lost"} /\ Placed(k)
             /\ intents' = [intents EXCEPT ![JobSlot] = [st |-> "known", oid |-> k]]
    <3>1. Visible(k)
      BY <2>1, <2>4 DEF Visible, OrderSet
    <3> HIDE DEF k
    <3>2. k \in Tickets'
      BY <2>1, <2>4, <3>1, PlaceIs, PlacedIs
    <3>3. LostStay
      BY <1>0, <2>1, <2>3, <2>4, <3>2, SlotChanges
    <3> QED BY <2>1, <2>2, <2>4, <3>1, <3>3, PlacedWatched
  <2>5. CASE orders[k].st = "lost" /\ Refused
    <3>1. Watched
      BY <2>2, <2>5 DEF Watched, Works
    <3>2. \A j \in OrdersOf(JobSlot) : ~Works(j)
      BY <2>3, <2>5 DEF Works
    <3>3. LostStay
      BY <1>0, <2>1, <2>5, <3>2, SlotChanges DEF Refused
    <3>4. Unplaced("raised") \/ Unplaced("refused")
      BY <2>5 DEF Refused
    <3> QED BY <2>1, <3>1, <3>3, <3>4, UnplacedWatched
  <2>6. CASE act.job.why \in Ambiguous /\ Unplaced("pending") /\ UNCHANGED intents
    <3>1. LostStay
      BY <1>0, <2>1, <2>6, LostStays
    \* The exit whose answer is lost here
    <3>2. act.job.why = "exit" => LostExit(k)
      <4>1. act.job.why = "exit" => PastQuotes /\ JobSlot[1] = "limit"
        BY <2>1 DEF PhaseInv, PlacingWhy, JobSlot, JobKind
      <4> QED BY <2>1, <2>6, <4>1 DEF LostExit
    <3>3. Watched \/ act.job.why # "exit"
      BY <2>2, <3>2 DEF Watched
    <3> QED BY <2>1, <2>6, <3>1, <3>3, UnplacedWatched
  <2> QED BY <1>7, <2>4, <2>5, <2>6 DEF Answer
<1> QED BY <1>2, <1>3, <1>4, <1>5, <1>6, <1>7 DEF PlaceStep

\* A cancel goes on, fails or ends.
LEMMA CancelWatched ==
  ASSUME StoreInv, PhaseInv, WatchInv, CancelStep
  PROVE  WatchInv'
<1> DEFINE undoing == act.then = "undo" /\ act.flag
<1>1. act.at \in {"cancel", "status", "undo"} /\ ~undoing => Watched
  BY NoExcuse
<1>2. act \in ActSet /\ round \in RoundSet /\ Onward
  BY CancelPhase DEF StoreInv
<1>0. ASSUME OrdersGo PROVE LostStay
  <2>1. UNCHANGED intents
    BY DEF CancelStep, Cancel, CancelStatus, StatusFails, Canceled, Undone
  <2> QED BY <1>0, <1>2, <2>1, LostStays
\* The cancel fails.
<1>3. ASSUME act.at \in {"cancel", "status"}, Rest # {}, CancelFailed, OrdersGo PROVE WatchInv'
  <2>1. /\ Marked(round') /\ act'.at \in {"save", "cancel"}
        /\ act.then = "undo" => act'.at = "save" /\ (act.flag => Pending')
    BY <1>3, CancelFailedIs
  <2>2. Tickets' = Tickets
    BY <2>1 DEF Marked, Tickets
  <2>3. CASE undoing
    BY <1>3, <2>1, <2>2, <2>3 DEF Unwatched, WatchInv, OrdersGo
  <2>4. CASE ~undoing
    BY <1>0, <1>1, <1>3, <2>1, <2>2, <2>4, WatchedStays
  <2> QED BY <2>3, <2>4
\* It goes on.
<1>4. ASSUME act.at \in {"cancel", "status"}, OrdersGo, UNCHANGED round, act'.then = act.then,
             act'.flag = act.flag, act'.at \in Cancels \cup {"cancel", "status"},
             act.then = "undo" => act'.at \in {"cancel", "status", "undo"}
      PROVE  WatchInv'
  <2>1. act'.at # "recover" /\ Tickets' = Tickets
    BY <1>4 DEF Cancels, Tickets
  <2>2. CASE undoing
    <3>1. \A k : Unwatched(k)'
      BY <1>4, <2>2 DEF Unwatched
    <3> QED BY <2>1, <3>1 DEF WatchInv
  <2>3. CASE ~undoing
    BY <1>0, <1>1, <1>4, <2>1, <2>3, WatchedStays
  <2> QED BY <2>2, <2>3
<1>5. CASE Cancel
  <2>1. act.at = "cancel" /\ Rest # {} /\ OrdersGo
    BY <1>5, CancelOrder DEF Cancel
  <2>2. CASE act' = [act EXCEPT !.i = Min(Rest) + 1] /\ UNCHANGED round
    <3>1. act'.at = "cancel" /\ act'.then = act.then /\ act'.flag = act.flag
      BY <1>2, <2>1, <2>2 DEF ActSet
    <3> QED BY <1>4, <2>1, <2>2, <3>1
  <2>3. CASE act' = [act EXCEPT !.at = "status"] /\ UNCHANGED round
    <3>1. act'.at = "status" /\ act'.then = act.then /\ act'.flag = act.flag
      BY <1>2, <2>1, <2>3 DEF ActSet
    <3> QED BY <1>4, <2>1, <2>3, <3>1
  <2> QED BY <1>3, <1>5, <2>1, <2>2, <2>3 DEF Cancel
<1>6. CASE CancelStatus
  <2>1. act.at = "status" /\ Rest # {} /\ UNCHANGED orders /\ act.then \in Cancels
    BY <1>6, CancelIs DEF CancelStatus
  <2>2. OrdersGo
    BY <2>1, OrdersStay
  <2> DEFINE where == IF act.then \in {"exit", "stop", "undo"} THEN act.then ELSE "cancel"
  <2>3. CASE act' = [act EXCEPT !.at = where, !.i = Min(Rest) + 1] /\ UNCHANGED round
    <3>1. act'.at = where /\ act'.then = act.then /\ act'.flag = act.flag
      <4> HIDE DEF where
      <4> QED BY <1>2, <2>3 DEF ActSet
    <3> QED BY <1>4, <2>1, <2>2, <2>3, <3>1 DEF Cancels
  <2> QED BY <1>3, <1>6, <2>1, <2>2, <2>3 DEF CancelStatus
<1>7. CASE StatusFails
  <2>1. act.at = "status" /\ CancelFailed /\ OrdersGo
    BY <1>7, OrdersStay DEF StatusFails
  <2> QED BY <1>3, <2>1, CancelIs
<1>8. CASE Canceled
  <2>1. Own /\ act.at = "cancel" /\ Rest = {}
    BY <1>8 DEF Canceled, Own
  <2>2. act.then # "undo"
    BY <2>1 DEF StoreInv, CancelSane
  <2>3. round'.tickets = round.tickets
    BY <1>2, <1>8 DEF Canceled, Finish, RoundSet
  <2>4. act'.at # "recover"
    <3>1. \A then, flag : [Refreshing(then) EXCEPT !.flag = flag].at = "refresh"
      BY DEF Refreshing, At
    <3>2. \/ \E then : act' = [Refreshing(then) EXCEPT !.flag = act.flag]
          \/ act' = Saving \/ act' = Canceling("entries", Net)
      BY <1>8, Zenon DEF Canceled
    <3>3. CASE \E then : act' = [Refreshing(then) EXCEPT !.flag = act.flag]
      <4>1. PICK then : act' = [Refreshing(then) EXCEPT !.flag = act.flag]
        BY <3>3
      <4>2. [Refreshing(then) EXCEPT !.flag = act.flag].at = "refresh"
        BY <3>1, Zenon
      <4>3. act'.at = "refresh"
        BY <4>1, <4>2, Zenon
      <4> QED BY <4>3
    <3>4. CASE act' = Saving \/ act' = Canceling("entries", Net)
      BY <3>4, Goes
    <3> QED BY <3>2, <3>3, <3>4
  <2> QED BY <1>1, <1>2, <2>1, <2>2, <2>3, <2>4, OwnWatched
<1>9. CASE Undone
  <2>1. Own /\ act.at = "undo" /\ act' = Saving
    BY <1>9 DEF Undone, Own
  <2> DEFINE p == IF act.flag THEN "startup_recovery" ELSE IF Net # 0 THEN "exposed" ELSE "failed"
             w == IF act.flag THEN "pending" ELSE "none"
  <2>2. round' = [round EXCEPT !.phase = p, !.why = w]
    BY <1>9 DEF Undone
  <2>3. act.flag => p = "startup_recovery" /\ w = "pending"
    OBVIOUS
  <2> HIDE DEF p, w
  <2>4. round'.tickets = round.tickets /\ round'.phase = p /\ round'.why = w
    BY <1>2, <2>2 DEF RoundSet
  <2>5. act'.at = "save"
    BY <2>1, Goes
  <2>6. CASE undoing
    BY <2>3, <2>4, <2>5, <2>6 DEF WatchInv, Unwatched, Pending
  <2>7. CASE ~undoing
    BY <1>1, <1>2, <2>1, <2>4, <2>5, <2>7, OwnWatched
  <2> QED BY <2>6, <2>7
<1> QED BY <1>5, <1>6, <1>7, <1>8, <1>9 DEF CancelStep

\* A decision is taken about orders that are all watched, or to recover the others.
LEMMA DecideWatched ==
  ASSUME StoreInv, PhaseInv, WatchInv, DecideStep
  PROVE  WatchInv'
<1>1. Own /\ round \in RoundSet /\ Onward
  BY DecidePhase DEF DecideStep, DecideRecovery, DecideStopping, DecideTraded, DecideUntraded, DecideFlat,
         DecideReduced, DecideExpired, Own, StoreInv
<1>2. \A r : Marked(r) /\ RetryStop(r) => round'.tickets = round.tickets /\ act'.at # "recover"
  <2> SUFFICES ASSUME NEW r, Marked(r), RetryStop(r)
               PROVE  round'.tickets = round.tickets /\ act'.at # "recover"
    OBVIOUS
  <2>1. r \in RoundSet /\ r.tickets = round.tickets
    BY DEF Marked
  <2>2. round'.tickets = r.tickets
    BY <2>1 DEF RetryStop, RoundSet
  <2>3. act' \in {Saving, Placing(Job("restop", ExitSide(Net), Abs(Net), r.srev + 1, TRUE))}
    BY DEF RetryStop
  <2>4. act'.at \in {"save", "place"}
    <3>1. CASE act' = Saving
      BY <3>1, Goes
    <3>2. CASE act' = Placing(Job("restop", ExitSide(Net), Abs(Net), r.srev + 1, TRUE))
      BY <3>2, Goes, Zenon
    <3> QED BY <2>3, <3>1, <3>2
  <2> QED BY <2>1, <2>2, <2>4
<1>3. CASE DecideRecovery
  <2>1. CASE round.why = "pending"
    <3>1. /\ act' = At("recover", "none") /\ UNCHANGED <<orders, round>>
          /\ act.at = "decide" /\ round.phase \in {"startup_recovery", "hard_stop_recovery"}
      BY <1>3, <2>1 DEF DecideRecovery
    <3>2. act'.at = "recover" /\ Pending' /\ OrdersGo
      BY <2>1, <3>1, Goes, OrdersStay DEF Pending
    <3> QED BY <3>1, <3>2 DEF WatchInv, Unwatched
  <2>2. CASE round.why # "pending"
    <3>1. act.at = "decide" /\ ~Pending
      BY <1>3, <2>2 DEF DecideRecovery, Pending
    <3>2. Watched
      BY <3>1, NoExcuse
    <3>3. round'.tickets = round.tickets /\ act'.at # "recover"
      BY <1>2, <1>3, <2>2, MarkedSane, Goes DEF DecideRecovery
    <3> QED BY <1>1, <3>2, <3>3, OwnWatched
  <2> QED BY <2>1, <2>2
<1>4. CASE ~DecideRecovery
  <2>1. act.at = "decide" => ~Pending
    BY <1>4 DEF DecideStep, DecideStopping, DecideTraded, DecideUntraded, DecideFlat,
                DecideReduced, DecideExpired, Pending
  <2>2. act.at \in {"decide", "flat", "flat2", "reduced", "expired"}
    BY <1>4 DEF DecideStep, DecideStopping, DecideTraded, DecideUntraded, DecideFlat,
                DecideReduced, DecideExpired
  <2>3. Watched
    BY <2>1, <2>2, NoExcuse
  <2>4. round'.tickets = round.tickets /\ act'.at # "recover"
    <3>1. CASE DecideStopping
      BY <1>1, <1>2, <3>1, MarkedSane, Goes DEF DecideStopping, Stopping, RoundSet
    <3>2. CASE DecideTraded \/ DecideUntraded
      BY <1>1, <3>2, Goes DEF DecideTraded, DecideUntraded, RoundSet
    <3>3. CASE DecideFlat
      <4>1. act' \in {Saving, At("price", "none"), Canceling("entries", Net)}
        BY <3>3 DEF DecideFlat
      <4>2. round'.tickets = round.tickets
        BY <1>1, <3>3 DEF DecideFlat, Finish, RoundSet
      <4> QED BY <4>1, <4>2, Goes
    <3>4. CASE DecideReduced \/ DecideExpired
      <4>1. act' \in {Saving, At("price", "none"), Canceling("flat2", 0), Refreshing("decide")}
        BY <3>4 DEF DecideReduced, DecideExpired
      <4>2. round'.tickets = round.tickets
        BY <1>1, <3>4 DEF DecideReduced, DecideExpired, Finish, RoundSet
      <4> QED BY <4>1, <4>2, Goes
    <3> QED BY <1>4, <3>1, <3>2, <3>3, <3>4 DEF DecideStep
  <2> QED BY <1>1, <2>3, <2>4, OwnWatched
<1> QED BY <1>3, <1>4

LEMMA ExitWatched ==
  ASSUME StoreInv, PhaseInv, WatchInv, ExitStep
  PROVE  WatchInv'
<1>1. Own /\ round \in RoundSet /\ Onward /\ act.at \in {"price", "exit", "stop"}
  BY ExitPhase DEF ExitStep, NoPrice, Breach, KeepExit, ReplaceExit, PlaceExit, ExitCanceled, StopExitCanceled,
         Exposed, Own, StoreInv
<1>2. Watched
  BY <1>1, NoExcuse
<1>3. round'.tickets = round.tickets /\ act'.at # "recover"
  <2>1. CASE NoPrice \/ Breach \/ KeepExit \/ ReplaceExit
    <3>1. act' \in {Saving, Canceling("stop", Net), Canceling("exit", Net),
                    Placing(Job("stop", ExitSide(Net), Abs(Net), round.srev, FALSE))}
      BY <2>1, Zenon DEF NoPrice, Breach, KeepExit, ReplaceExit
    <3>2. round'.tickets = round.tickets
      BY <1>1, <2>1 DEF NoPrice, Breach, KeepExit, ReplaceExit, RoundSet
    <3>3. CASE act' = Placing(Job("stop", ExitSide(Net), Abs(Net), round.srev, FALSE))
      <4>1. act'.at = "place"
        BY <3>3, Goes, Zenon
      <4> QED BY <3>2, <4>1
    <3>4. CASE act' \in {Saving, Canceling("stop", Net), Canceling("exit", Net)}
      BY <3>2, <3>4, Goes
    <3> QED BY <3>1, <3>3, <3>4
  <2>2. CASE PlaceExit
    <3>1. round'.tickets = round.tickets
      BY <1>1, <2>2 DEF PlaceExit, RoundSet
    <3>2. PICK side, rev : act' = Placing(Job("exit", side, Abs(Net), rev, FALSE))
      BY <2>2, Zenon DEF PlaceExit
    <3>3. act'.at = "place"
      BY <3>2, Goes, Zenon
    <3> QED BY <3>1, <3>3
  <2>3. CASE ExitCanceled
    <3>1. round'.tickets = round.tickets
      BY <1>1, <2>3 DEF ExitCanceled, Finish, RoundSet
    <3>2. act' = Saving \/ \E side, qty, rev : act' = Placing(Job("exit", side, qty, rev, TRUE))
      BY <2>3, Zenon DEF ExitCanceled
    <3>3. act'.at \in {"save", "place"}
      BY <3>2, Goes, Zenon
    <3> QED BY <3>1, <3>3
  <2>4. CASE StopExitCanceled
    <3>1. act' \in {Saving,
                    Placing(Job("stop", ExitSide(act.net), ExitQty(act.net), round.srev, TRUE))}
      BY <2>4 DEF StopExitCanceled
    <3>2. round'.tickets = round.tickets
      BY <1>1, <2>4 DEF StopExitCanceled, Finish, RoundSet
    <3>3. act'.at \in {"save", "place"}
      <4>1. CASE act' = Saving
        BY <4>1, Goes
      <4>2. CASE act' = Placing(Job("stop", ExitSide(act.net), ExitQty(act.net), round.srev, TRUE))
        BY <4>2, Goes, Zenon
      <4> QED BY <3>1, <4>1, <4>2
    <3> QED BY <3>2, <3>3
  <2> QED BY <2>1, <2>2, <2>3, <2>4 DEF ExitStep
<1> QED BY <1>1, <1>2, <1>3, OwnWatched

\* Looking keeps what works: nothing that works was seen ended.
LEMMA LookWatched ==
  ASSUME StoreInv, PhaseInv, WatchInv, Step \/ Refresh \/ Refreshed \/ Save
  PROVE  WatchInv'
<1>0. UNCHANGED <<orders, intents>> /\ Onward
  BY LookPhase DEF Step, Refresh, Refreshed, Save
<1>1. UNCHANGED orders /\ act \in ActSet /\ round \in RoundSet /\ OrdersGo /\ LostStay
  BY <1>0, OrdersStay, LostStays DEF StoreInv
<1>2. CASE Step
  <2>1. act.at = "idle" /\ act' = Refreshing("decide") /\ UNCHANGED round
    BY <1>2 DEF Step
  <2>2. act'.at = "refresh" /\ act'.then = "decide" /\ Tickets' = Tickets /\ (Pending' <=> Pending)
    BY <2>1, Goes DEF Tickets, Pending
  <2> QED BY <1>1, <2>1, <2>2, ExcusesStay DEF Unwatched
<1>3. CASE Refresh
  <2>1. act.at = "refresh" /\ act' = [act EXCEPT !.i = @ + 1] /\ UNCHANGED round
    BY <1>3 DEF Refresh
  <2>2. act'.at = "refresh" /\ act'.then = act.then /\ Tickets' = Tickets /\ (Pending' <=> Pending)
    BY <1>1, <2>1 DEF ActSet, Tickets, Pending
  <2> QED BY <1>1, <2>1, <2>2, ExcusesStay DEF Unwatched
<1>4. CASE Refreshed
  <2>1. act.at = "refresh" /\ round' = [round EXCEPT !.tickets = KeptTickets]
    BY <1>4 DEF Refreshed
  <2>2. act'.at = act.then /\ act.then \in {"decide", "reduced", "flat", "flat2", "expired"}
    BY <1>4, RefreshedTo
  <2>3. Tickets' = {k \in Tickets : Kept(k)}
    <3>1. round'.tickets = KeptTickets
      BY <1>1, <2>1 DEF RoundSet
    <3> QED BY <3>1, KeptIs DEF Tickets
  <2>4. Pending' <=> Pending
    BY <1>1, <2>1 DEF Pending, RoundSet
  <2>5. \A k \in Known : Works(k) /\ k \in Tickets => k \in Tickets'
    <3> SUFFICES ASSUME NEW k \in Known, Works(k), k \in Tickets PROVE k \in Tickets'
      OBVIOUS
    <3>1. k \in Oids
      BY Types
    <3>2. seen[k].open
      BY <3>1 DEF StoreInv, SeenSane
    <3> QED BY <2>3, <3>2 DEF Kept
  <2>6. \A k : Unwatched(k) => Unwatched(k)'
    BY <2>1, <2>2, <2>4 DEF Unwatched
  <2> QED BY <1>1, <2>2, <2>5, <2>6 DEF WatchInv, OrdersGo, LostStay
<1>5. CASE Save
  <2>1. act.at = "save" /\ act' \in {At("done", "none"), Idle} /\ UNCHANGED round
    BY <1>5 DEF Save
  <2>2. act'.at \in {"done", "idle"} /\ Tickets' = Tickets /\ (Pending' <=> Pending)
    BY <2>1, Goes DEF Tickets, Pending
  <2> QED BY <1>1, <2>1, <2>2, ExcusesStay DEF Unwatched
<1> QED BY <1>2, <1>3, <1>4, <1>5

LEMMA StoredIs ==
  ASSUME StoreInv, NEW k \in Known, Works(k)
  PROVE  orders[k].slot \in Stored
BY WorkingHasIntent DEF Stored

LEMMA RecoverWatched ==
  ASSUME StoreInv, WatchInv, Recover
  PROVE  WatchInv'
<1>1. PICK found \in SUBSET Findable, gone \in SUBSET Absences :
        \E new, t, b : RecoverTo(found, gone, new, t, b)
  BY RecoverIs
<1>2. PICK new, t, b : RecoverTo(found, gone, new, t, b)
  BY <1>1
<1>3. /\ new = {Shown(s) : s \in found} /\ t = round.tickets \o Ascending(new \ Range(round.tickets))
      /\ round'.tickets = t /\ round'.phase = round.phase /\ round'.why = round.why
      /\ b = (found # Stored) /\ UNCHANGED orders
      /\ act' = IF b THEN Saving
                ELSE IF round.phase = "startup_recovery" THEN Canceling("startup", 0)
                ELSE At("recovered", "none")
  BY <1>2 DEF RecoverTo
<1>4. round \in RoundSet /\ TicketsSane(round) /\ Pending /\ OrdersGo
  BY <1>3, OrdersStay DEF StoreInv, WatchInv, Recover
<1>5. Tickets' = Tickets \cup new
  BY <1>3, <1>4, FoundTickets DEF Tickets
<1>6. CASE b
  <2>1. act'.at = "save" /\ Pending'
    BY <1>3, <1>4, <1>6, Goes DEF Pending
  <2> QED BY <2>1 DEF WatchInv, Unwatched
<1>7. CASE ~b
  <2>1. found = Stored
    BY <1>3, <1>7
  <2>2. \A k \in Known : Works(k) => k \in new
    <3> SUFFICES ASSUME NEW k \in Known, Works(k) PROVE k \in new
      OBVIOUS
    <3>1. orders[k].slot \in found /\ Shown(orders[k].slot) # 0
      BY <2>1, StoredIs DEF Findable
    <3>2. Shown(orders[k].slot) = k
      BY <3>1, FoundIs
    <3> QED BY <1>3, <3>1, <3>2
  <2>3. act'.at # "recover"
    <3>1. act' \in {Canceling("startup", 0), At("recovered", "none")}
      BY <1>3, <1>7
    <3> QED BY <3>1, Goes
  <2> QED BY <1>4, <1>5, <2>2, <2>3 DEF WatchInv, OrdersGo
<1> QED BY <1>3, <1>6, <1>7

LEMMA RecoveredStopWatched ==
  ASSUME StoreInv, PhaseInv, WatchInv, RecoveredStop
  PROVE  WatchInv'
<1>1. Own /\ Onward /\ act.at = "recovered" /\ round \in RoundSet
  BY RecoverPhase DEF RecoveredStop, Own, StoreInv
<1>2. Watched
  BY <1>1, NoExcuse
<1> DEFINE r == [round EXCEPT !.phase = "stopping"]
<1>3. r \in RoundSet /\ r.tickets = round.tickets
  BY <1>1, WordsIn DEF RoundSet
<1>4. (act' = Saving /\ round' = [round EXCEPT !.why = "missing"]) \/ Stopping(r)
  BY DEF RecoveredStop
<1> HIDE DEF r
<1>5. round'.tickets = round.tickets
  BY <1>1, <1>3, <1>4 DEF Stopping, RetryStop, RoundSet
<1>6. act'.at # "recover"
  <2>1. act' \in {Saving, Placing(Job("restop", ExitSide(Net), Abs(Net), r.srev + 1, TRUE))}
    BY <1>4 DEF Stopping, RetryStop
  <2> QED BY <2>1, Goes
<1> QED BY <1>1, <1>2, <1>5, <1>6, OwnWatched

LEMMA AdoptWatched ==
  ASSUME StoreInv, WatchInv, Adopt
  PROVE  WatchInv'
<1>1. PICK found \in SUBSET Findable, gone \in SUBSET Absences :
        \E new, t : AdoptTo(found, gone, new, t)
  BY AdoptIs
<1>2. PICK new, t : AdoptTo(found, gone, new, t)
  BY <1>1
<1>3. /\ new = {Shown(s) : s \in found} /\ t = cp.tickets \o Ascending(new \ Range(cp.tickets))
      /\ round'.tickets = t /\ UNCHANGED orders
      /\ \/ act' = At("done", "none")
         \/ act' = Idle /\ (Stored \ (found \cup Mine) # {} => Pending')
  BY <1>2 DEF AdoptTo
<1>4. cp \in RoundSet /\ TicketsSane(cp) /\ OrdersGo
  BY <1>3, OrdersStay DEF StoreInv
<1>5. Tickets' = Range(cp.tickets) \cup new
  BY <1>3, <1>4, FoundTickets DEF Tickets
<1>6. CASE act' = At("done", "none")
  <2>1. act'.at = "done"
    BY <1>6, Goes
  <2> QED BY <2>1 DEF WatchInv, Unwatched
<1>7. CASE act' = Idle /\ Stored \ (found \cup Mine) # {}
  <2>1. act'.at = "idle" /\ Pending'
    BY <1>3, <1>7, Goes
  <2> QED BY <2>1 DEF WatchInv, Unwatched
<1>8. CASE act' = Idle /\ Stored \subseteq found \cup Mine
  <2>1. ASSUME NEW k \in Known, Works(k) PROVE k \in Tickets'
    <3> DEFINE s == orders[k].slot
    <3>1. s \in found \cup Mine
      BY <1>8, <2>1, StoredIs
    <3>2. CASE s \in found
      <4>1. Shown(s) = k
        BY <2>1, <3>2, FoundIs DEF Findable
      <4> QED BY <1>3, <1>5, <3>2, <4>1
    <3>3. CASE s \in Mine
      <4>1. intents[s].st = "known" /\ intents[s].oid \in Range(cp.tickets)
        BY <3>3 DEF Mine
      <4>2. intents[s].st = "sent" \/ intents[s].oid = k
        BY <2>1, WorkingHasIntent
      <4> QED BY <1>5, <4>1, <4>2
    <3> QED BY <3>1, <3>2, <3>3
  <2>2. act'.at = "idle"
    BY <1>8, Goes
  <2> QED BY <1>4, <2>1, <2>2 DEF WatchInv, OrdersGo
<1> QED BY <1>3, <1>6, <1>7, <1>8

LEMMA MishapWatched ==
  ASSUME StoreInv, WatchInv, Abort \/ Crash
  PROVE  WatchInv'
<1>1. CASE Abort
  <2>1. /\ act.at \in {"refresh", "price", "place"} /\ act' = Idle
        /\ UNCHANGED <<orders, intents, round>>
    BY <1>1 DEF Abort
  <2>2. act'.at = "idle" /\ OrdersGo /\ Tickets' = Tickets /\ (Pending' <=> Pending)
    BY <2>1, Goes, OrdersStay DEF Tickets, Pending
  <2>3. LostStay
    BY <2>1, <2>2, LostStays DEF Onward, PastQuotes
  <2> QED BY <2>1, <2>2, <2>3, ExcusesStay DEF Unwatched
<1>2. CASE Crash
  <2>1. act'.at = "down"
    BY <1>2, Goes DEF Crash
  <2> QED BY <2>1 DEF WatchInv, Unwatched
<1> QED BY <1>1, <1>2

LEMMA QuietWatched ==
  ASSUME StoreInv, WatchInv, OrdersGo, UNCHANGED <<intents, cp, round, seen, act>>
  PROVE  WatchInv'
<1>1. Tickets' = Tickets /\ (Pending' <=> Pending)
  BY DEF Tickets, Pending
<1>2. act.at = "recover" => Pending
  BY DEF WatchInv
<1>3. LostStay
  BY LostStays DEF Onward, PastQuotes
<1> QED BY <1>1, <1>2, <1>3, ExcusesStay DEF Unwatched

LEMMA NextWatched ==
  ASSUME StoreInv, PhaseInv, WatchInv, [Next]_vars
  PROVE  WatchInv'
<1>1. CASE Step \/ Refresh \/ Refreshed \/ Save
  BY <1>1, LookWatched
<1>2. CASE PlaceStep
  BY <1>2, PlaceWatched
<1>3. CASE CancelStep \/ DecideStep \/ ExitStep
  BY <1>3, CancelWatched, DecideWatched, ExitWatched
<1>4. CASE RecoverStep
  BY <1>4, RecoverWatched, RecoveredStopWatched, AdoptWatched DEF RecoverStep
<1>5. CASE Abort \/ Crash
  BY <1>5, MishapWatched
<1>6. CASE Venue
  BY <1>6, VenueIs, QuietWatched
<1>7. CASE UNCHANGED vars
  <2>1. OrdersGo /\ UNCHANGED <<intents, cp, round, seen, act>>
    BY <1>7, OrdersStay DEF vars
  <2> QED BY <2>1, QuietWatched
<1> QED BY <1>1, <1>2, <1>3, <1>4, <1>5, <1>6, <1>7 DEF Next

\* Between two steps the coordinator watches every order that may still trade, or
\* knows that it has to recover one first, or it is an exit whose answer was lost: of
\* that one, nothing marks the round (rtrade_pair.py:684-686), but the store says that
\* it was sent.  This holds whichever submissions lose their answers; where those of
\* exits do not, it leaves no exception.
THEOREM OrdersWatched == Spec => []WorkingOrdersAreWatched
<1>1. Init => WatchInv
  <2> SUFFICES ASSUME Init PROVE WatchInv
    OBVIOUS
  <2>1. act.at = "place"
    BY Goes DEF Init
  <2>2. Known = {}
    BY DEF Init, Known
  <2> QED BY <2>1, <2>2 DEF WatchInv
<1>2. StoreInv /\ PhaseInv /\ [Next]_vars => PhaseInv'
  BY NextPhase
<1>3. StoreInv /\ PhaseInv /\ WatchInv /\ [Next]_vars => WatchInv'
  BY NextWatched
<1>4. WatchInv => WorkingOrdersAreWatched
  BY DEF WatchInv, Unwatched, WorkingOrdersAreWatched, Works, Pending
<1> QED BY <1>1, <1>2, <1>3, <1>4, InitPhase, StoreInvariant, PTL DEF Spec
=============================================================================
