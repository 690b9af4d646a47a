---------------------------- MODULE OrderOutboxInv ----------------------------
(***************************************************************************)
(* The inductive strengthenings behind the theorems of OrderOutbox: what   *)
(* ties the snapshots processes keep in memory to the records of the queue *)
(* file (TInv, DInv), and the records to the venue (VInv).                 *)
(***************************************************************************)
EXTENDS OrderOutbox

\* No order is filled beyond its quantity.
OrdersSane == \A o \in Oids : orders[o] # NoOrder => orders[o].filled <= orders[o].qty

\* An accepted record carries the id of an order that exists.
AcceptedHasOrder ==
  /\ \A i \in Queued : queue[i].life = "accepted" =>
       queue[i].oid \in Oids /\ orders[queue[i].oid] # NoOrder
  /\ \A a \in Actors : answer[a] # NoOid => orders[answer[a]] # NoOrder

\* Past its first lock section a process has a job, and the snapshot of it.
WithSnapshot == {"claimed", "looked", "begun", "unsure", "cleared", "sent"}

JobHeld ==
  \A a \in Actors :
    /\ stage[a] \in WithSnapshot \cup {"refused"} => job[a] \in Intents
    /\ stage[a] \in WithSnapshot =>
         held[a][job[a]] # NoRec /\ held[a][job[a]].life = "submit_pending"

\* A snapshot that still matches describes the same lifecycle and order.
SnapshotsAgree ==
  \A a \in Actors, i \in Intents : Matches(i, held[a][i]) =>
    queue[i].life = held[a][i].life /\ queue[i].oid = held[a][i].oid

\* Two processes never hold the same claim token.
TokensDistinct ==
  \A a, b \in Actors, i, j \in Intents :
    a # b /\ held[a][i] # NoRec /\ held[b][j] # NoRec
      => held[a][i].token # held[b][j].token

\* A snapshot was leased, and its revision is never ahead of the record.
SnapshotsLeased ==
  \A a \in Actors, i \in Intents : held[a][i] # NoRec =>
    /\ held[a][i].token \in Tokens
    /\ queue[i] # NoRec => held[a][i].rev <= queue[i].rev

\* The typing argument: holds with any number of workers.
TInv == TypeOK /\ OrdersSane /\ AcceptedHasOrder /\ JobHeld /\ SnapshotsAgree

--------------------------------------------------------------------------------
(* What single_instance adds: OneAtATime is assumed from here on. *)

\* Only one worker is inside a pass, and only one that has just scanned has a
\* plan.
SoloWorker ==
  /\ \A v, w \in Workers : v # w => stage[v] = "idle" \/ stage[w] = "idle"
  /\ \A w \in Workers : plan[w] # {} => stage[w] = "planned"

\* The steps of a pass are a worker's.
StagesFit ==
  /\ \A p \in Producers : stage[p] \in {"idle", "refused", "claimed", "cleared", "sent"}
  /\ \A w \in Workers : stage[w] \notin {"refused", "claimed"}

\* Not in the queue yet: no trace of the intent exists, and one producer has it.
Unplaced(i) == i \in todo \/ \E p \in Producers : stage[p] = "refused" /\ job[p] = i

UnplacedUntouched ==
  /\ \A i \in Intents : Unplaced(i) =>
       /\ queue[i] = NoRec
       /\ \A a \in Actors : held[a][i] = NoRec
       /\ \A w \in Workers : i \notin plan[w]
  /\ \A p \in Producers : stage[p] = "refused" => job[p] \notin todo
  /\ \A p, r \in Producers :
       p # r /\ stage[p] = "refused" /\ stage[r] = "refused" => job[p] # job[r]

\* A live claim is in nobody's plan.
PlansSpareLiveClaims ==
  \A w \in Workers, i \in Queued : i \in plan[w] => ~LiveClaim(queue[i])

\* A process at work on a claim owns its record, or the record is gone, adopted,
\* or at a later revision.
Owns(a) ==
  LET i == job[a]
      s == held[a][i]
  IN  \/ /\ Matches(i, s)
         /\ queue[i].life = "submit_pending"
         /\ queue[i].sub = "producer_claimed" /\ queue[i].owner = a
      \/ queue[i] = NoRec
      \/ queue[i].life = "accepted"
      \/ queue[i].rev > s.rev

DispatchersOwn ==
  \A a \in Actors : stage[a] \in {"claimed", "begun", "cleared", "sent"} => Owns(a)

\* A record in a worker's batch is no live claim of another process.
BatchesSpareLiveClaims ==
  \A w \in Workers, i \in Intents :
    Matches(i, held[w][i]) => ~LiveClaim(queue[i]) \/ queue[i].owner = w

DInv ==
  /\ TokensDistinct /\ SnapshotsLeased /\ SoloWorker /\ StagesFit /\ UnplacedUntouched
  /\ PlansSpareLiveClaims /\ DispatchersOwn /\ BatchesSpareLiveClaims
  /\ SingleDispatcher

--------------------------------------------------------------------------------
(* What ties the orders of the venue, and the requests on their way to it, to   *)
(* the records of the queue                                                     *)

\* A client order id stands for one request or one order.
IdsUsedOnce ==
  /\ \A o, p \in Oids :
       /\ orders[o] # NoOrder /\ orders[p] # NoOrder
       /\ orders[o].intent = orders[p].intent /\ orders[o].rev = orders[p].rev
       => o = p
  /\ \A m, n \in wire : m.intent = n.intent /\ m.rev = n.rev => m = n
  /\ \A m \in wire : OrdersOf(m.intent, m.rev) = {}

\* A request on its way is one its record has to look up.
WireTracked ==
  \A m \in wire :
    /\ queue[m.intent] # NoRec
    /\ PossiblySubmitted(queue[m.intent]) /\ queue[m.intent].rev = m.rev

\* No order exists before its intent is placed, nor for a revision to come.
OrdersPlaced ==
  \A o \in Oids : orders[o] # NoOrder =>
    /\ ~Unplaced(orders[o].intent)
    /\ queue[orders[o].intent] # NoRec => orders[o].rev <= queue[orders[o].intent].rev

\* A tracker tracks the order of its own intent and revision.
TrackersMatch ==
  \A i \in Queued : queue[i].life = "accepted" =>
    orders[queue[i].oid].intent = i /\ orders[queue[i].oid].rev = queue[i].rev

Untraced(i, rev) == OrdersOf(i, rev) = {} /\ ~OnWire(i, rev)

\* Up to the submit a process owns its record for certain ...
ClaimsHold ==
  \A a \in Actors : stage[a] \in {"claimed", "begun", "cleared"} =>
    LET i == job[a]
    IN  /\ Matches(i, held[a][i])
        /\ queue[i].life = "submit_pending"
        /\ queue[i].sub = "producer_claimed" /\ queue[i].owner = a

\* ... and nothing has been submitted under its client order id.
ClaimsUnsent ==
  \A a \in Actors : stage[a] \in {"claimed", "looked", "begun", "cleared"} =>
    (Matches(job[a], held[a][job[a]]) => Untraced(job[a], held[a][job[a]].rev))

\* A process that waits for an answer waits for the one to its last request.
AnswersMatch ==
  /\ \A a \in Actors : answer[a] # NoOid =>
       /\ stage[a] = "sent"
       /\ orders[answer[a]].intent = job[a]
       /\ orders[answer[a]].rev = held[a][job[a]].rev
  /\ \A m \in wire : stage[m.by] = "sent" /\ job[m.by] = m.intent
       => m.rev = held[m.by][m.intent].rev

\* What a matching snapshot says of the submission is still so.
SnapshotsCurrent ==
  \A a \in Actors, i \in Intents : Matches(i, held[a][i]) =>
    queue[i].sub = held[a][i].sub /\ queue[i].why = held[a][i].why

VInv ==
  /\ SnapshotsCurrent /\ IdsUsedOnce /\ WireTracked /\ LiveOrderTracked /\ RefusedMeansAbsent
  /\ OrdersPlaced /\ TrackersMatch /\ ClaimsHold /\ ClaimsUnsent /\ AnswersMatch

--------------------------------------------------------------------------------
(* Quantities: what ties the ledger of a record to the fills of its orders *)

\* A matching snapshot has the quantity of the record.
SnapshotsCount ==
  \A a \in Actors, i \in Intents : Matches(i, held[a][i]) =>
    queue[i].qty = held[a][i].qty

\* The order or the request of a record's revision is for the record's quantity.
QuantitiesAgree ==
  \A i \in Queued :
    /\ \A o \in OrdersOf(i, queue[i].rev) : orders[o].qty = queue[i].qty
    /\ \A m \in wire : m.intent = i => m.qty = queue[i].qty

\* So far the venue has only taken so many orders, whatever ids it can hand out.
OrdersFinite == IsFiniteSet({o \in Oids : orders[o] # NoOrder})

LInv ==
  /\ SnapshotsCount /\ QuantitiesAgree /\ OrdersFinite
  /\ LedgerMatchesVenue /\ NeverOverfilled

===============================================================================
