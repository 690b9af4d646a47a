------------------------ MODULE OrderOutboxVenueProofs ------------------------
(***************************************************************************)
(* With one worker at a time: a client order id is submitted once, an open *)
(* order always has a record that leads to it, "refused" proves absence,   *)
(* trackers outlive their orders, revisions only grow, and no intent is    *)
(* ever overfilled, because the ledger of a record agrees with what the    *)
(* venue filled to the last unit; for any number of intents and producers, *)
(* any quantity, partial fills, crashes, lapsed leases and lost answers.   *)
(***************************************************************************)
EXTENDS OrderOutboxProofs, SetLemmas, FiniteSetTheorems

USE DEF Actors

--------------------------------------------------------------------------------
(* What may become of one record *)

\* The record q of intent i, or its absence, is consistent with the venue.
Fits(i, q) ==
  /\ q # NoRec => \A o \in AllOrdersOf(i) : orders[o].rev <= q.rev
  /\ \A o \in AllOrdersOf(i) : Open(o) =>
       /\ q # NoRec
       /\ \/ q.life = "accepted" /\ q.oid = o
          \/ PossiblySubmitted(q) /\ q.rev = orders[o].rev
  /\ \A m \in wire : m.intent = i => q # NoRec /\ PossiblySubmitted(q) /\ q.rev = m.rev
  /\ q # NoRec /\ q.life = "submit_pending" /\ ~PossiblySubmitted(q) => Untraced(i, q.rev)
  /\ q # NoRec /\ q.life = "accepted" =>
       q.oid \in AllOrdersOf(i) /\ orders[q.oid].rev = q.rev

\* Only an expired order opens the next revision.
Advances(i, q) ==
  q # NoRec =>
    \/ q.rev = queue[i].rev
    \/ /\ q.rev = queue[i].rev + 1
       /\ queue[i].life = "accepted" /\ orders[queue[i].oid].status = "expired"

\* The tracker of an open order stays.
Outlives(i, q) ==
  queue[i].life = "accepted" /\ Open(queue[i].oid) =>
    q # NoRec /\ q.life = "accepted" /\ q.oid = queue[i].oid

Follows(i, q) == Fits(i, q) /\ (queue[i] # NoRec => Advances(i, q) /\ Outlives(i, q))

LEMMA Fitting ==
  ASSUME TInv, VInv, NEW i \in Intents
  PROVE  Fits(i, queue[i])
<1>1. queue[i] # NoRec => \A o \in AllOrdersOf(i) : orders[o].rev <= queue[i].rev
  BY DEF VInv, OrdersPlaced, AllOrdersOf
<1>2. \A o \in AllOrdersOf(i) : Open(o) =>
        /\ queue[i] # NoRec
        /\ \/ queue[i].life = "accepted" /\ queue[i].oid = o
           \/ PossiblySubmitted(queue[i]) /\ queue[i].rev = orders[o].rev
  BY DEF VInv, LiveOrderTracked, AllOrdersOf
<1>3. \A m \in wire : m.intent = i =>
        queue[i] # NoRec /\ PossiblySubmitted(queue[i]) /\ queue[i].rev = m.rev
  BY DEF VInv, WireTracked
<1>4. queue[i] # NoRec /\ queue[i].life = "submit_pending" /\ ~PossiblySubmitted(queue[i])
        => Untraced(i, queue[i].rev)
  BY DEF VInv, RefusedMeansAbsent, Queued, Untraced
<1>5. queue[i] # NoRec /\ queue[i].life = "accepted" =>
        queue[i].oid \in AllOrdersOf(i) /\ orders[queue[i].oid].rev = queue[i].rev
  BY DEF VInv, TrackersMatch, TInv, AcceptedHasOrder, Queued, AllOrdersOf
<1> QED BY <1>1, <1>2, <1>3, <1>4, <1>5 DEF Fits

LEMMA FittingNext ==
  ASSUME TInv', \A i \in Intents : Fits(i, queue[i])',
         \A o \in Oids, i \in Intents :
           orders'[o] # NoOrder /\ orders'[o].intent = i => ~Unplaced(i)'
  PROVE  WireTracked' /\ LiveOrderTracked' /\ RefusedMeansAbsent' /\ TrackersMatch' /\ OrdersPlaced'
<1>1. /\ \A o \in Oids : orders'[o] # NoOrder => orders'[o].intent \in Intents
      /\ \A m \in wire' : m.intent \in Intents
  BY DEF TInv, TypeOK, Orders, Requests
<1>2. WireTracked'
  BY <1>1 DEF Fits, WireTracked
<1>3. LiveOrderTracked'
  BY <1>1 DEF Fits, LiveOrderTracked, AllOrdersOf, Open
<1>4. RefusedMeansAbsent'
  BY DEF Fits, RefusedMeansAbsent, Queued, Untraced
<1>5. TrackersMatch'
  BY DEF Fits, TrackersMatch, Queued, AllOrdersOf
<1>6. OrdersPlaced'
  BY <1>1 DEF Fits, AllOrdersOf, OrdersPlaced
<1> QED BY <1>2, <1>3, <1>4, <1>5, <1>6

LEMMA Untouched ==
  ASSUME TInv, NEW i \in Intents, Fits(i, queue[i])
  PROVE  Follows(i, queue[i])
BY DEF Follows, Advances, Outlives

\* A record nothing was submitted under may go, or be refused.
LEMMA UnsentFollows ==
  ASSUME TInv, NEW i \in Intents, queue[i] # NoRec, Fits(i, queue[i]),
         queue[i].life = "submit_pending", Untraced(i, queue[i].rev)
  PROVE  /\ Follows(i, NoRec)
         /\ \A q \in Records : q.life = "submit_pending" /\ q.rev = queue[i].rev => Follows(i, q)
<1>1. \A o \in AllOrdersOf(i) : ~Open(o)
  BY DEF Fits, Untraced, OrdersOf, AllOrdersOf
<1>2. \A m \in wire : m.intent # i
  BY DEF Fits, Untraced, OnWire
<1>3. queue[i].life # "accepted"
  OBVIOUS
<1>4. Follows(i, NoRec)
  BY <1>1, <1>2, <1>3 DEF Follows, Fits, Advances, Outlives
<1>5. ASSUME NEW q \in Records, q.life = "submit_pending", q.rev = queue[i].rev
      PROVE  Follows(i, q)
  BY <1>1, <1>2, <1>3, <1>5, NullsAssumption DEF Follows, Fits, Advances, Outlives
<1> QED BY <1>4, <1>5

\* A lease, an owner or a quantity may change.
LEMMA SameFollows ==
  ASSUME TInv, NEW i \in Intents, queue[i] # NoRec, Fits(i, queue[i]), NEW q \in Records,
         q.life = queue[i].life, q.sub = queue[i].sub, q.why = queue[i].why,
         q.oid = queue[i].oid, q.rev = queue[i].rev
  PROVE  Follows(i, q)
<1>1. PossiblySubmitted(q) = PossiblySubmitted(queue[i]) /\ q # NoRec
  BY NullsAssumption DEF PossiblySubmitted, NeedsLookup
<1> QED BY <1>1 DEF Follows, Fits, Advances, Outlives

\* A record may come to need a lookup.
LEMMA PossibleFollows ==
  ASSUME TInv, NEW i \in Intents, queue[i] # NoRec, Fits(i, queue[i]),
         queue[i].life = "submit_pending", NEW q \in Records,
         PossiblySubmitted(q), q.rev = queue[i].rev
  PROVE  Follows(i, q)
<1>1. q # NoRec /\ q.life = "submit_pending"
  BY NullsAssumption DEF PossiblySubmitted
<1> QED BY <1>1 DEF Follows, Fits, Advances, Outlives

\* An order found under the client order id is adopted.
LEMMA AcceptedFollows ==
  ASSUME TInv, IdsUsedOnce, NEW i \in Intents, queue[i] # NoRec, Fits(i, queue[i]),
         NEW o \in OrdersOf(i, queue[i].rev), NEW q \in Records,
         q.life = "accepted", q.oid = o, q.rev = queue[i].rev
  PROVE  Follows(i, q)
<1>1. q # NoRec /\ o \in AllOrdersOf(i) /\ o \in Oids /\ ~PossiblySubmitted(q)
  BY NullsAssumption DEF OrdersOf, AllOrdersOf, PossiblySubmitted
<1>2. \A p \in AllOrdersOf(i) : orders[p].rev = queue[i].rev => p = o
  BY DEF IdsUsedOnce, OrdersOf, AllOrdersOf
<1>3. \A m \in wire : m.intent # i
  BY DEF Fits, IdsUsedOnce
<1>4. \A p \in AllOrdersOf(i) : Open(p) => p = o
  BY <1>2 DEF Fits
<1>5. queue[i].life = "accepted" => queue[i].oid = o
  BY <1>2 DEF Fits
<1> QED BY <1>1, <1>3, <1>4, <1>5 DEF Follows, Fits, Advances, Outlives, OrdersOf

\* A tracker whose order has ended may go, or open a revision if it has expired.
LEMMA EndedFollows ==
  ASSUME TInv, NEW i \in Intents, queue[i] # NoRec, Fits(i, queue[i]),
         queue[i].life = "accepted", ~Open(queue[i].oid)
  PROVE  /\ Follows(i, NoRec)
         /\ orders[queue[i].oid].status = "expired" =>
              \A q \in Records :
                q.life = "submit_pending" /\ q.rev = queue[i].rev + 1 /\ ~PossiblySubmitted(q)
                  => Follows(i, q)
<1>1. ~PossiblySubmitted(queue[i])
  BY DEF PossiblySubmitted
<1>2. \A o \in AllOrdersOf(i) : ~Open(o)
  BY <1>1 DEF Fits
<1>3. \A m \in wire : m.intent # i
  BY <1>1 DEF Fits
<1>4. \A o \in AllOrdersOf(i) : orders[o].rev <= queue[i].rev /\ orders[o].rev \in Nat
  BY DEF Fits, AllOrdersOf, TInv, TypeOK, Orders
<1>5. Follows(i, NoRec)
  BY <1>2, <1>3 DEF Follows, Fits, Advances, Outlives
<1>6. ASSUME NEW q \in Records, q.life = "submit_pending", q.rev = queue[i].rev + 1,
             ~PossiblySubmitted(q), orders[queue[i].oid].status = "expired"
      PROVE  Follows(i, q)
  <2>1. queue[i].rev \in Nat
    BY DEF TInv, TypeOK, Records
  <2>2. \A o \in AllOrdersOf(i) : orders[o].rev < q.rev /\ orders[o].rev <= q.rev
                                  /\ orders[o].rev # q.rev
    BY <1>4, <1>6, <2>1
  <2>3. Untraced(i, q.rev)
    BY <1>3, <2>2 DEF Untraced, OrdersOf, AllOrdersOf, OnWire
  <2> QED BY <1>2, <1>3, <1>6, <2>2, <2>3 DEF Follows, Fits, Advances, Outlives
<1> QED BY <1>5, <1>6

--------------------------------------------------------------------------------
(* Steps that leave the venue alone *)

Unsent == {"claimed", "begun", "cleared"}

\* Process b stands still, and nothing disturbs its claim or its snapshots.
Bystander(b) ==
  /\ stage'[b] = stage[b] /\ job'[b] = job[b] /\ held'[b] = held[b] /\ answer'[b] = answer[b]
  /\ stage[b] \in Unsent =>
       LET i == job[b]
       IN  /\ queue'[i] # NoRec
           /\ queue'[i].token = queue[i].token /\ queue'[i].rev = queue[i].rev
           /\ queue'[i].life = queue[i].life /\ queue'[i].sub = queue[i].sub
           /\ queue'[i].owner = queue[i].owner
  /\ \A i \in Intents : Matches(i, held[b][i])' =>
       /\ Matches(i, held[b][i])
       /\ queue'[i].sub = queue[i].sub /\ queue'[i].why = queue[i].why

\* Process a moves: it awaits no answer, and if it is about to submit, it may.
Mover(a) ==
  /\ stage'[a] # "sent" /\ answer'[a] = NoOid
  /\ \A i \in Intents : stage'[a] \in Unsent /\ job'[a] = i =>
       /\ Matches(i, held[a][i])'
       /\ queue'[i].life = "submit_pending"
       /\ queue'[i].sub = "producer_claimed" /\ queue'[i].owner = a
  /\ \A i \in Intents : stage'[a] \in Unsent \cup {"looked"} /\ job'[a] = i =>
       (Matches(i, held[a][i])' => Untraced(i, held'[a][i].rev))
  /\ \A i \in Intents : Matches(i, held[a][i])' =>
       queue'[i].sub = held'[a][i].sub /\ queue'[i].why = held'[a][i].why

\* What every step is shown to do
Steady ==
  \A i \in Queued : Advances(i, queue'[i]) /\ Outlives(i, queue'[i])

VStep == VInv' /\ Steady

LEMMA QuietVenue ==
  ASSUME TInv, TInv', VInv, UNCHANGED <<orders, wire>>,
         \A i \in Intents : Follows(i, queue'[i]),
         \A i \in Intents : Unplaced(i)' => Unplaced(i),
         \A b \in Actors : Bystander(b) \/ Mover(b)
  PROVE  VStep
<1>1. /\ \A o \in Oids : orders[o] # NoOrder => orders[o].intent \in Intents
      /\ \A m \in wire : m.intent \in Intents /\ m.by \in Actors
  BY DEF TInv, TypeOK, Orders, Requests
<1>2. \A i \in Intents : Fits(i, queue[i])'
  BY DEF Follows, Fits, AllOrdersOf, Open, Untraced, OrdersOf, OnWire
<1>3. WireTracked' /\ LiveOrderTracked' /\ RefusedMeansAbsent' /\ TrackersMatch' /\ OrdersPlaced'
  <2>1. \A o \in Oids, i \in Intents :
          orders'[o] # NoOrder /\ orders'[o].intent = i => ~Unplaced(i)'
    BY <1>1 DEF OrdersPlaced, VInv
  <2> QED BY <1>2, <2>1, FittingNext
<1>4. IdsUsedOnce'
  BY DEF VInv, IdsUsedOnce, OrdersOf
<1>5. SnapshotsCurrent'
  <2> SUFFICES ASSUME NEW b \in Actors, NEW i \in Intents, Matches(i, held[b][i])'
               PROVE  queue'[i].sub = held'[b][i].sub /\ queue'[i].why = held'[b][i].why
    BY DEF SnapshotsCurrent
  <2>1. CASE Bystander(b)
    BY <2>1 DEF Bystander, VInv, SnapshotsCurrent
  <2>2. CASE Mover(b)
    BY <2>2 DEF Mover
  <2> QED BY <2>1, <2>2
<1>6. ClaimsHold'
  <2> SUFFICES ASSUME NEW b \in Actors, stage'[b] \in Unsent
               PROVE  /\ Matches(job[b], held[b][job[b]])'
                      /\ queue'[job'[b]].life = "submit_pending"
                      /\ queue'[job'[b]].sub = "producer_claimed" /\ queue'[job'[b]].owner = b
    BY DEF ClaimsHold, Unsent
  <2>0. job'[b] \in Intents
    BY DEF TInv, JobHeld, WithSnapshot, Unsent
  <2>1. CASE Bystander(b)
    BY <2>1 DEF Bystander, VInv, ClaimsHold, Unsent, Matches
  <2>2. CASE Mover(b)
    BY <2>0, <2>2 DEF Mover, Matches
  <2> QED BY <2>1, <2>2
<1>7. ClaimsUnsent'
  <2> SUFFICES ASSUME NEW b \in Actors, stage'[b] \in Unsent \cup {"looked"},
                      Matches(job[b], held[b][job[b]])'
               PROVE  Untraced(job'[b], held'[b][job'[b]].rev)
    BY DEF ClaimsUnsent, Unsent, Untraced, OrdersOf, OnWire
  <2>1. CASE Bystander(b)
    <3>1. job[b] \in Intents
      BY <2>1 DEF Bystander, TInv, JobHeld, WithSnapshot, Unsent
    <3>2. Matches(job[b], held[b][job[b]])
      BY <2>1, <3>1 DEF Bystander
    <3> QED BY <2>1, <3>2 DEF Bystander, VInv, ClaimsUnsent, Unsent
  <2>2. CASE Mover(b)
    <3>1. job'[b] \in Intents
      BY DEF TInv, JobHeld, WithSnapshot, Unsent
    <3> QED BY <2>2, <3>1 DEF Mover, Matches
  <2> QED BY <2>1, <2>2
<1>8. AnswersMatch'
  BY <1>1 DEF VInv, AnswersMatch, Bystander, Mover
<1>9. Steady
  BY DEF Steady, Follows, Queued
<1> QED BY <1>3, <1>4, <1>5, <1>6, <1>7, <1>8, <1>9 DEF VStep, VInv

\* A write fenced by another process's claim does not disturb a bystander.
LEMMA FencedBystander ==
  ASSUME TInv, DInv, VInv, NEW a \in Actors, NEW b \in Actors, a # b,
         NEW i \in Intents, NEW new, Write(i, held[a][i], new),
         Matches(i, held[a][i]) =>
           new = NoRec \/ new.token = NoToken \/ new.token = held[a][i].token,
         stage'[b] = stage[b], job'[b] = job[b], held'[b] = held[b], answer'[b] = answer[b]
  PROVE  Bystander(b)
<1>1. /\ queue \in [Intents -> Records \cup {NoRec}]
      /\ \A j \in Intents : j # i => queue'[j] = queue[j]
      /\ Matches(i, held[a][i]) => queue'[i] = new
      /\ ~Matches(i, held[a][i]) => queue'[i] = queue[i]
  BY DEF TInv, TypeOK, Write
<1>2. Matches(i, held[a][i]) =>
        held[b][i] = NoRec \/ queue[i].token # held[b][i].token
  BY DEF Matches, DInv, TokensDistinct
<1>3. ASSUME NEW j \in Intents, Matches(j, held[b][j])'
      PROVE  Matches(j, held[b][j]) /\ queue'[j] = queue[j]
  BY <1>1, <1>2, <1>3 DEF Matches, DInv, TokensDistinct
<1>4. stage[b] \in Unsent => queue'[job[b]] = queue[job[b]] /\ queue[job[b]] # NoRec
  <2> SUFFICES ASSUME stage[b] \in Unsent
               PROVE  queue'[job[b]] = queue[job[b]] /\ queue[job[b]] # NoRec
    OBVIOUS
  <2>1. Matches(job[b], held[b][job[b]]) /\ job[b] \in Intents
    BY DEF VInv, ClaimsHold, Unsent, TInv, JobHeld, WithSnapshot
  <2> QED BY <1>1, <1>2, <2>1 DEF Matches
<1> QED BY <1>3, <1>4 DEF Bystander

\* A process completes its claim and drops the snapshot.
LEMMA FencedMove ==
  ASSUME TInv, TInv', DInv, VInv, UNCHANGED <<orders, wire, todo>>,
         NEW a \in Actors, NEW i \in Intents, NEW new, Write(i, held[a][i], new),
         Matches(i, held[a][i]) =>
           (new = NoRec \/ new.token = NoToken) /\ Follows(i, new),
         held' = [held EXCEPT ![a][i] = NoRec],
         \A b \in Actors \ {a} : stage'[b] = stage[b] /\ job'[b] = job[b] /\ answer'[b] = answer[b],
         stage'[a] \notin Unsent \cup {"looked", "sent", "refused"}, answer'[a] = NoOid
  PROVE  VStep
<1>1. /\ queue \in [Intents -> Records \cup {NoRec}]
      /\ \A j \in Intents : j # i => queue'[j] = queue[j]
      /\ Matches(i, held[a][i]) => queue'[i] = new
      /\ ~Matches(i, held[a][i]) => queue'[i] = queue[i]
      /\ held \in [Actors -> [Intents -> Records \cup {NoRec}]]
  BY DEF TInv, TypeOK, Write
<1>2. \A j \in Intents : Follows(j, queue'[j])
  BY <1>1, Fitting, Untouched
<1>3. \A j \in Intents : Unplaced(j)' => Unplaced(j)
  BY ActorsAssumption DEF Unplaced
<1>4. \A b \in Actors \ {a} : held'[b] = held[b]
  BY <1>1
<1>5. \A b \in Actors \ {a} : Bystander(b)
  BY <1>4, FencedBystander
<1>6. Mover(a)
  <2>1. ASSUME NEW j \in Intents, Matches(j, held[a][j])'
        PROVE  queue'[j].sub = held'[a][j].sub /\ queue'[j].why = held'[a][j].why
    <3>1. j # i /\ held'[a][j] = held[a][j] /\ queue'[j] = queue[j]
      BY <1>1, <2>1 DEF Matches
    <3> QED BY <2>1, <3>1 DEF Matches, VInv, SnapshotsCurrent
  <2> QED BY <2>1 DEF Mover
<1> QED BY <1>2, <1>3, <1>5, <1>6, QuietVenue

--------------------------------------------------------------------------------
(* Completions of a claim *)

LEMMA CompletionsFollow ==
  ASSUME TInv, VInv, NEW i \in Intents, NEW s, Matches(i, s)
  PROVE  /\ Follows(i, Unclaimed(queue[i])) /\ Unclaimed(queue[i]).token = NoToken
         /\ queue[i].life = "submit_pending" =>
              /\ Follows(i, Unclaimed(Ambiguous(queue[i])))
              /\ Unclaimed(Ambiguous(queue[i])).token = NoToken
         /\ \A o \in OrdersOf(i, s.rev) :
              /\ Follows(i, Unclaimed(Accepted(queue[i], o)))
              /\ Unclaimed(Accepted(queue[i], o)).token = NoToken
         /\ queue[i].life = "submit_pending" /\ Untraced(i, s.rev) =>
              /\ Follows(i, NoRec)
              /\ \A reason \in Refusals :
                   /\ Follows(i, Unclaimed(Refused(queue[i], reason)))
                   /\ Unclaimed(Refused(queue[i], reason)).token = NoToken
<1>1. /\ queue[i] \in Records /\ queue[i] # NoRec /\ Fits(i, queue[i]) /\ queue[i].rev = s.rev
      /\ IdsUsedOnce
  BY MatchedRecord, Fitting DEF Matches, VInv
<1>2. Follows(i, Unclaimed(queue[i])) /\ Unclaimed(queue[i]).token = NoToken
  <2> DEFINE u == Unclaimed(queue[i])
  <2>1. /\ u \in Records /\ u.life = queue[i].life /\ u.sub = queue[i].sub /\ u.why = queue[i].why
        /\ u.oid = queue[i].oid /\ u.rev = queue[i].rev /\ u.token = NoToken
    BY <1>1 DEF Unclaimed, Records
  <2> HIDE DEF u
  <2> QED BY <1>1, <2>1, SameFollows DEF u
<1>3. ASSUME queue[i].life = "submit_pending"
      PROVE  /\ Follows(i, Unclaimed(Ambiguous(queue[i])))
             /\ Unclaimed(Ambiguous(queue[i])).token = NoToken
  <2> DEFINE u == Unclaimed(Ambiguous(queue[i]))
  <2>1. /\ u \in Records /\ u.life = "submit_pending" /\ u.sub = "unknown"
        /\ u.rev = queue[i].rev /\ u.token = NoToken
    BY <1>1, <1>3 DEF Unclaimed, Ambiguous, Records, SubmissionStates, Reasons
  <2> HIDE DEF u
  <2>2. PossiblySubmitted(u)
    BY <2>1 DEF PossiblySubmitted, NeedsLookup
  <2> QED BY <1>1, <1>3, <2>1, <2>2, PossibleFollows DEF u
<1>4. ASSUME NEW o \in OrdersOf(i, s.rev)
      PROVE  /\ Follows(i, Unclaimed(Accepted(queue[i], o)))
             /\ Unclaimed(Accepted(queue[i], o)).token = NoToken
  <2> DEFINE u == Unclaimed(Accepted(queue[i], o))
  <2>0. o \in Oids /\ orders[o] \in Orders
    BY DEF OrdersOf, TInv, TypeOK
  <2>1. /\ u \in Records /\ u.life = "accepted" /\ u.oid = o
        /\ u.rev = queue[i].rev /\ u.token = NoToken
    BY <1>1, <2>0 DEF Unclaimed, Accepted, Orders, Records, SubmissionStates, Reasons, Lifecycles
  <2> HIDE DEF u
  <2> QED BY <1>1, <2>1, AcceptedFollows DEF u
<1>5. ASSUME queue[i].life = "submit_pending", Untraced(i, s.rev)
      PROVE  Follows(i, NoRec)
  BY <1>1, <1>5, UnsentFollows
<1>6. ASSUME queue[i].life = "submit_pending", Untraced(i, s.rev), NEW reason \in Refusals
      PROVE  /\ Follows(i, Unclaimed(Refused(queue[i], reason)))
             /\ Unclaimed(Refused(queue[i], reason)).token = NoToken
  <2> DEFINE r == Refused(queue[i], reason)
             u == Unclaimed(r)
  <2>1. r \in Records /\ r.life = "submit_pending" /\ r.rev = queue[i].rev
    BY <1>1, <1>6, ZenonT(40) DEF Refused, Discardable, VenueEvidence, Records, SubmissionStates, Reasons, Refusals
  <2> HIDE DEF r
  <2>2. u \in Records /\ u.life = "submit_pending" /\ u.rev = queue[i].rev /\ u.token = NoToken
    BY <2>1, UnclaimedFields
  <2> HIDE DEF u
  <2> QED BY <1>1, <1>6, <2>2, UnsentFollows DEF u, r
<1> QED BY <1>2, <1>3, <1>4, <1>5, <1>6

LEMMA SettledFollows ==
  ASSUME TInv, VInv, NEW i \in Intents, NEW s, Matches(i, s),
         queue[i].life = "accepted", orders[queue[i].oid].status \in {"closed", "canceled", "expired"}
  PROVE  /\ Follows(i, NoRec)
         /\ orders[queue[i].oid].status = "expired" =>
              /\ Follows(i, Unclaimed(Revised(queue[i])))
              /\ Unclaimed(Revised(queue[i])).token = NoToken
<1>1. /\ queue[i] \in Records /\ queue[i] # NoRec /\ Fits(i, queue[i])
      /\ queue[i].oid \in Oids /\ orders[queue[i].oid] \in Orders
      /\ orders[queue[i].oid].filled <= orders[queue[i].oid].qty
      /\ ~Open(queue[i].oid)
  BY MatchedRecord, Fitting DEF Matches, TInv, TypeOK, OrdersSane, Open
<1>2. Follows(i, NoRec)
  BY <1>1, EndedFollows
<1>3. ASSUME orders[queue[i].oid].status = "expired"
      PROVE  Follows(i, Unclaimed(Revised(queue[i]))) /\ Unclaimed(Revised(queue[i])).token = NoToken
  <2> DEFINE r == Revised(queue[i])
             u == Unclaimed(r)
  <2>1. r \in Records /\ r.life = "submit_pending" /\ r.rev = queue[i].rev + 1
    BY <1>1, RevisedRecord
  <2>2. r.sub = "refused"
    BY <1>1 DEF Revised, Records
  <2> HIDE DEF r
  <2>3. /\ u \in Records /\ u.life = "submit_pending" /\ u.rev = queue[i].rev + 1
        /\ u.token = NoToken /\ u.sub = "refused"
    BY <2>1, <2>2, UnclaimedFields
  <2> HIDE DEF u
  <2>4. ~PossiblySubmitted(u)
    BY <2>3 DEF PossiblySubmitted, NeedsLookup
  <2> QED BY <1>1, <1>3, <2>3, <2>4, EndedFollows DEF u, r
<1> QED BY <1>2, <1>3

LEMMA ResumeVenue ==
  ASSUME TInv, TInv', DInv, VInv, UNCHANGED <<orders, wire, todo>>,
         NEW a \in Actors, stage[a] \in WithSnapshot, Resume(a), answer'[a] = NoOid,
         \A b \in Actors \ {a} : answer'[b] = answer[b],
         NEW new, Write(job[a], held[a][job[a]], new),
         Matches(job[a], held[a][job[a]]) => (new = NoRec \/ new.token = NoToken) /\ Follows(job[a], new)
  PROVE  VStep
<1>1. job[a] \in Intents /\ stage \in [Actors -> Stages] /\ job \in [Actors -> Intents \cup {NoIntent}]
  BY DEF TInv, TypeOK, JobHeld
<1>2. \A b \in Actors \ {a} : stage'[b] = stage[b] /\ job'[b] = job[b] /\ answer'[b] = answer[b]
  BY <1>1 DEF Resume
<1>3. stage'[a] \notin Unsent \cup {"looked", "sent", "refused"}
  BY <1>1 DEF Resume, Unsent
<1>4. held' = [held EXCEPT ![a][job[a]] = NoRec]
  BY DEF Resume
<1> QED BY <1>1, <1>2, <1>3, <1>4, FencedMove

LEMMA RefuseLateVenue ==
  ASSUME TInv, TInv', DInv, VInv, NEW a \in Actors, RefuseLate(a)
  PROVE  VStep
<1> DEFINE i == job[a]
           s == held[a][i]
<1>1. i \in Intents /\ stage[a] \in WithSnapshot /\ UNCHANGED <<orders, wire, todo, answer>>
      /\ Resume(a) /\ stage[a] \in Unsent
  BY DEF RefuseLate, TInv, JobHeld, WithSnapshot, Unsent
<1>2. Matches(i, s) /\ queue[i].life = "submit_pending" /\ Untraced(i, s.rev)
  BY <1>1 DEF VInv, ClaimsHold, ClaimsUnsent, Unsent
<1>3. answer'[a] = NoOid
  BY <1>1 DEF VInv, AnswersMatch, Unsent
<1>4. CASE Write(i, s, NoRec)
  BY <1>1, <1>2, <1>3, <1>4, CompletionsFollow, ResumeVenue
<1>5. ASSUME NEW reason \in Refusals, Write(i, s, Unclaimed(Refused(queue[i], reason)))
      PROVE  VStep
  BY <1>1, <1>2, <1>3, <1>5, CompletionsFollow, ResumeVenue
<1> QED BY <1>4, <1>5 DEF RefuseLate

LEMMA ReturnAcceptedVenue ==
  ASSUME TInv, TInv', DInv, VInv, NEW a \in Actors, ReturnAccepted(a)
  PROVE  VStep
<1> DEFINE i == job[a]
           s == held[a][i]
<1>1. i \in Intents /\ stage[a] \in WithSnapshot /\ UNCHANGED <<orders, wire, todo>>
      /\ Resume(a) /\ answer' = [answer EXCEPT ![a] = NoOid]
      /\ Write(i, s, Unclaimed(Accepted(queue[i], answer[a])))
  BY DEF ReturnAccepted, TInv, JobHeld, WithSnapshot
<1>2. answer[a] \in OrdersOf(i, s.rev)
  BY DEF ReturnAccepted, VInv, AnswersMatch, TInv, TypeOK, AcceptedHasOrder, OrdersOf
<1>3. answer'[a] = NoOid /\ \A b \in Actors \ {a} : answer'[b] = answer[b]
  BY <1>1 DEF TInv, TypeOK
<1>4. Matches(i, s) => /\ Follows(i, Unclaimed(Accepted(queue[i], answer[a])))
                       /\ Unclaimed(Accepted(queue[i], answer[a])).token = NoToken
  BY <1>1, <1>2, CompletionsFollow
<1> QED BY <1>1, <1>3, <1>4, ResumeVenue

\* A step that leaves the queue as it is, and takes up no submit.
LEMMA StillVenue ==
  ASSUME TInv, TInv', VInv, UNCHANGED <<queue, orders, wire>>, NEW a \in Actors,
         \A b \in Actors \ {a} :
           stage'[b] = stage[b] /\ job'[b] = job[b] /\ held'[b] = held[b] /\ answer'[b] = answer[b],
         \A i \in Intents : held'[a][i] = held[a][i] \/ held'[a][i] = NoRec,
         stage'[a] \notin Unsent \cup {"looked", "sent"}, answer'[a] = NoOid,
         \A i \in Intents : Unplaced(i)' => Unplaced(i)
  PROVE  VStep
<1>1. \A i \in Intents : Follows(i, queue'[i])
  BY Fitting, Untouched
<1>2. \A b \in Actors \ {a} : Bystander(b)
  <2> SUFFICES ASSUME NEW b \in Actors \ {a} PROVE Bystander(b)
    OBVIOUS
  <2>1. stage[b] \in Unsent => queue[job[b]] # NoRec
    BY DEF VInv, ClaimsHold, Unsent, Matches
  <2> QED BY <2>1 DEF Bystander, Matches
<1>3. Mover(a)
  <2>1. ASSUME NEW i \in Intents, Matches(i, held[a][i])'
        PROVE  queue'[i].sub = held'[a][i].sub /\ queue'[i].why = held'[a][i].why
    BY <2>1 DEF Matches, VInv, SnapshotsCurrent
  <2> QED BY <2>1 DEF Mover
<1> QED BY <1>1, <1>2, <1>3, QuietVenue

LEMMA ReturnUnknownVenue ==
  ASSUME TInv, TInv', DInv, VInv, NEW a \in Actors, ReturnUnknown(a)
  PROVE  VStep
<1> DEFINE i == job[a]
           s == held[a][i]
<1>1. /\ i \in Intents /\ stage[a] = "sent" /\ stage[a] \in WithSnapshot
      /\ UNCHANGED <<orders, wire, todo>>
      /\ answer'[a] = NoOid /\ \A b \in Actors \ {a} : answer'[b] = answer[b]
  BY DEF ReturnUnknown, TInv, TypeOK, JobHeld, WithSnapshot
<1>2. CASE a \in Producers
  <2>1. Write(i, s, Unclaimed(Ambiguous(queue[i]))) /\ Resume(a)
    BY <1>2 DEF ReturnUnknown
  <2>2. Matches(i, s) => queue[i].life = "submit_pending"
    BY <1>1 DEF TInv, JobHeld, SnapshotsAgree
  <2>3. Matches(i, s) => /\ Follows(i, Unclaimed(Ambiguous(queue[i])))
                         /\ Unclaimed(Ambiguous(queue[i])).token = NoToken
    BY <1>1, <2>2, CompletionsFollow
  <2> QED BY <1>1, <2>1, <2>3, ResumeVenue
<1>3. CASE a \notin Producers
  <2>1. /\ UNCHANGED <<queue, held, job>> /\ stage' = [stage EXCEPT ![a] = "unsure"]
        /\ stage \in [Actors -> Stages]
    BY <1>3 DEF ReturnUnknown, TInv, TypeOK
  <2>2. stage'[a] = "unsure" /\ \A b \in Actors \ {a} : stage'[b] = stage[b]
    BY <2>1
  <2> QED BY <1>1, <1>3, <2>1, <2>2, StillVenue DEF Unsent, Unplaced
<1> QED BY <1>2, <1>3

LEMMA LookupAfterVenue ==
  ASSUME TInv, TInv', DInv, VInv, NEW w \in Workers, LookupAfter(w)
  PROVE  VStep
<1> DEFINE i == job[w]
           s == held[w][i]
<1>1. /\ i \in Intents /\ stage[w] \in WithSnapshot /\ stage[w] = "unsure"
      /\ UNCHANGED <<orders, wire, todo, answer>> /\ Resume(w)
  BY DEF LookupAfter, TInv, JobHeld, WithSnapshot
<1>2. answer'[w] = NoOid
  BY <1>1 DEF VInv, AnswersMatch
<1>3. ASSUME NEW o \in OrdersOf(i, s.rev), Write(i, s, Unclaimed(Accepted(queue[i], o)))
      PROVE  VStep
  BY <1>1, <1>2, <1>3, CompletionsFollow, ResumeVenue
<1>4. CASE Write(i, s, Unclaimed(Ambiguous(queue[i])))
  <2>1. Matches(i, s) => queue[i].life = "submit_pending"
    BY <1>1 DEF TInv, JobHeld, SnapshotsAgree
  <2> QED BY <1>1, <1>2, <1>4, <2>1, CompletionsFollow, ResumeVenue
<1> QED BY <1>3, <1>4 DEF LookupAfter

\* A worker completes one claim of its pass and goes on.
LEMMA DropVenue ==
  ASSUME TInv, TInv', DInv, VInv, UNCHANGED <<orders, wire, todo, stage, job, answer>>,
         NEW w \in Workers, NEW i \in Intents, Turn(w, i), Drop(w, i),
         NEW new, Write(i, held[w][i], new),
         Matches(i, held[w][i]) => (new = NoRec \/ new.token = NoToken) /\ Follows(i, new)
  PROVE  VStep
<1>1. stage'[w] = "working" /\ answer'[w] = NoOid
  BY DEF Turn, VInv, AnswersMatch
<1>2. held' = [held EXCEPT ![w][i] = NoRec]
  BY DEF Drop
<1> QED BY <1>1, <1>2, FencedMove DEF Unsent

LEMMA ReleaseVenue ==
  ASSUME TInv, TInv', DInv, VInv, UNCHANGED <<orders, wire, todo, stage, job, answer>>,
         NEW w \in Workers, NEW i \in Intents, Turn(w, i), Release(w, i)
  PROVE  VStep
BY CompletionsFollow, DropVenue DEF Release

LEMMA LookupFoundVenue ==
  ASSUME TInv, TInv', DInv, VInv, NEW w \in Workers, NEW i \in Intents, LookupFound(w, i)
  PROVE  VStep
<1>1. PICK o \in OrdersOf(i, held[w][i].rev) :
        Write(i, held[w][i], Unclaimed(Accepted(queue[i], o)))
  BY DEF LookupFound
<1> QED BY <1>1, CompletionsFollow, DropVenue DEF LookupFound

LEMMA SettleOrderVenue ==
  ASSUME TInv, TInv', DInv, VInv, NEW w \in Workers, NEW i \in Intents, SettleOrder(w, i)
  PROVE  VStep
<1> DEFINE s == held[w][i]
           o == orders[s.oid]
           rest == IF o.filled = o.qty THEN NoRec ELSE Unclaimed(Revised(queue[i]))
<1>1. /\ UNCHANGED <<orders, wire, todo, stage, job, answer>> /\ Turn(w, i) /\ Drop(w, i)
      /\ s.life = "accepted"
  BY DEF SettleOrder
<1>2. ASSUME Matches(i, s), o.status \in {"closed", "canceled", "expired"}
      PROVE  /\ Follows(i, NoRec)
             /\ o.status = "expired" =>
                  /\ Follows(i, Unclaimed(Revised(queue[i])))
                  /\ Unclaimed(Revised(queue[i])).token = NoToken
  <2>1. queue[i].life = "accepted" /\ queue[i].oid = s.oid
    BY <1>1, <1>2 DEF TInv, SnapshotsAgree
  <2> QED BY <1>2, <2>1, SettledFollows
<1>3. CASE o.status \in {"closed", "canceled"} /\ Write(i, s, NoRec)
  BY <1>1, <1>2, <1>3, DropVenue
<1>4. CASE o.status = "expired" /\ Write(i, s, rest)
  BY <1>1, <1>2, <1>4, DropVenue
<1> QED BY <1>3, <1>4 DEF SettleOrder

--------------------------------------------------------------------------------
(* The fences before the submit *)

LEMMA FenceVenue ==
  ASSUME TInv, TInv', DInv, VInv, UNCHANGED <<orders, wire, todo, job, answer>>,
         NEW a \in Actors, stage[a] \in {"claimed", "looked", "begun"},
         Matches(job[a], held[a][job[a]]), NEW r \in Records,
         r.life = queue[job[a]].life, r.token = queue[job[a]].token,
         r.rev = queue[job[a]].rev, r.sub = "producer_claimed", r.owner = a,
         queue' = [queue EXCEPT ![job[a]] = r], held' = [held EXCEPT ![a][job[a]] = r],
         NEW to \in {"begun", "cleared"}, stage' = [stage EXCEPT ![a] = to]
  PROVE  VStep
<1> DEFINE i == job[a]
           s == held[a][i]
<1>1. /\ i \in Intents /\ s # NoRec /\ s.life = "submit_pending"
      /\ queue \in [Intents -> Records \cup {NoRec}] /\ stage \in [Actors -> Stages]
      /\ held \in [Actors -> [Intents -> Records \cup {NoRec}]]
      /\ queue[i] # NoRec /\ queue[i].token = s.token /\ queue[i].rev = s.rev
      /\ r # NoRec /\ r.token # NoToken
  BY NullsAssumption DEF TInv, TypeOK, JobHeld, WithSnapshot, Matches
<1>2. queue[i].life = "submit_pending"
  BY <1>1 DEF TInv, SnapshotsAgree
<1>3. /\ queue'[i] = r /\ \A j \in Intents : j # i => queue'[j] = queue[j]
      /\ held'[a][i] = r /\ \A j \in Intents : j # i => held'[a][j] = held[a][j]
      /\ stage'[a] = to
      /\ \A b \in Actors \ {a} : stage'[b] = stage[b] /\ held'[b] = held[b]
  BY <1>1
<1>4. \A j \in Intents : Follows(j, queue'[j])
  <2>1. PossiblySubmitted(r)
    BY <1>2 DEF PossiblySubmitted, NeedsLookup
  <2>2. Follows(i, r)
    BY <1>1, <1>2, <2>1, Fitting, PossibleFollows
  <2> QED BY <1>3, <2>2, Fitting, Untouched
<1>5. \A j \in Intents : Unplaced(j)' => Unplaced(j)
  BY <1>3 DEF Unplaced
<1>6. ASSUME NEW b \in Actors \ {a}
      PROVE  Bystander(b)
  <2>1. held[b][i] # NoRec => held[b][i].token # queue[i].token
    BY <1>1 DEF DInv, TokensDistinct
  <2>2. ASSUME NEW j \in Intents, Matches(j, held[b][j])'
        PROVE  Matches(j, held[b][j]) /\ queue'[j] = queue[j]
    BY <1>3, <2>1, <2>2 DEF Matches
  <2>3. stage[b] \in Unsent => queue[job[b]] # NoRec /\ queue'[job[b]] = queue[job[b]]
    <3> SUFFICES ASSUME stage[b] \in Unsent
                 PROVE  queue[job[b]] # NoRec /\ queue'[job[b]] = queue[job[b]]
      OBVIOUS
    <3>1. job[b] \in Intents /\ Matches(job[b], held[b][job[b]])
      BY DEF Unsent, TInv, JobHeld, WithSnapshot, VInv, ClaimsHold
    <3> QED BY <1>3, <2>1, <3>1 DEF Matches
  <2> QED BY <1>3, <2>2, <2>3 DEF Bystander
<1>7. Mover(a)
  <2>1. answer[a] = NoOid
    BY DEF VInv, AnswersMatch
  <2>2. Matches(i, held[a][i])'
    BY <1>1, <1>3 DEF Matches
  <2>3. Untraced(i, s.rev)
    BY <1>1 DEF VInv, ClaimsUnsent
  <2>4. ASSUME NEW j \in Intents, Matches(j, held[a][j])'
        PROVE  queue'[j].sub = held'[a][j].sub /\ queue'[j].why = held'[a][j].why
    <3>1. CASE j = i
      BY <1>3, <3>1
    <3>2. CASE j # i
      BY <1>3, <2>4, <3>2 DEF Matches, VInv, SnapshotsCurrent
    <3> QED BY <3>1, <3>2
  <2>5. queue'[i].life = "submit_pending" /\ queue'[i].sub = "producer_claimed"
        /\ queue'[i].owner = a /\ held'[a][i].rev = s.rev
    BY <1>1, <1>2, <1>3
  <2> QED BY <1>3, <2>1, <2>2, <2>3, <2>4, <2>5 DEF Mover
<1> QED BY <1>4, <1>5, <1>6, <1>7, QuietVenue

\* A process that lost its claim submits nothing.
LEMMA FenceLostVenue ==
  ASSUME TInv, TInv', VInv, UNCHANGED <<queue, orders, wire, todo, answer>>, NEW a \in Actors,
         stage[a] \in {"claimed", "looked", "begun"}, Resume(a)
  PROVE  VStep
<1>1. /\ stage \in [Actors -> Stages] /\ job \in [Actors -> Intents \cup {NoIntent}]
      /\ held \in [Actors -> [Intents -> Records \cup {NoRec}]]
  BY DEF TInv, TypeOK
<1>2. \A b \in Actors \ {a} : stage'[b] = stage[b] /\ job'[b] = job[b] /\ held'[b] = held[b]
  BY <1>1 DEF Resume
<1>3. stage'[a] \in {"idle", "working"} /\ \A i \in Intents : held'[a][i] \in {held[a][i], NoRec}
  BY <1>1 DEF Resume
<1>4. \A i \in Intents : Unplaced(i)' => Unplaced(i)
  BY <1>2, <1>3 DEF Unplaced
<1>5. answer'[a] = NoOid
  BY DEF VInv, AnswersMatch
<1> QED BY <1>2, <1>3, <1>4, <1>5, StillVenue DEF Unsent

LEMMA BeginProducerVenue ==
  ASSUME TInv, TInv', DInv, VInv, NEW p \in Producers, BeginProducer(p)
  PROVE  VStep
<1> DEFINE i == job[p]
<1>0. i \in Intents
  BY DEF TInv, JobHeld, BeginProducer, WithSnapshot
<1>1. CASE Matches(i, held[p][i])
  <2>1. PICK q \in 1..queue[i].qty :
          LET r == [Begun(queue[i], p, q) EXCEPT !.live = TRUE]
          IN  /\ queue' = [queue EXCEPT ![i] = r]
              /\ held' = [held EXCEPT ![p][i] = r]
              /\ stage' = [stage EXCEPT ![p] = "cleared"]
              /\ job' = job
    BY <1>1 DEF BeginProducer
  <2> DEFINE b == Begun(queue[i], p, q)
             r == [b EXCEPT !.live = TRUE]
  <2>2. queue[i] \in Records /\ q \in Nat
    BY <1>0, <1>1, MatchedRecord DEF Records
  <2>3. b \in Records /\ b.life = queue[i].life /\ b.token = queue[i].token
        /\ b.rev = queue[i].rev
    BY <2>2, BegunRecord
  <2>4. b.sub = "producer_claimed" /\ b.owner = p
    BY <2>2 DEF Begun, Records
  <2>5. r \in Records /\ r.life = queue[i].life /\ r.token = queue[i].token
        /\ r.rev = queue[i].rev /\ r.sub = "producer_claimed" /\ r.owner = p
    <3> HIDE DEF b
    <3> QED BY <2>3, <2>4 DEF Records
  <2>6. /\ queue' = [queue EXCEPT ![i] = r] /\ held' = [held EXCEPT ![p][i] = r]
        /\ stage' = [stage EXCEPT ![p] = "cleared"]
        /\ UNCHANGED <<orders, wire, todo, job, answer>> /\ stage[p] = "claimed"
    BY <2>1 DEF BeginProducer
  <2> HIDE DEF b, r
  <2> QED BY <1>1, <2>5, <2>6, FenceVenue
<1>2. CASE ~Matches(i, held[p][i])
  BY <1>2, FenceLostVenue DEF BeginProducer
<1> QED BY <1>1, <1>2

LEMMA BeginWorkerVenue ==
  ASSUME TInv, TInv', DInv, VInv, NEW w \in Workers, BeginWorker(w)
  PROVE  VStep
<1> DEFINE i == job[w]
           r == Begun(queue[i], w, queue[i].qty)
<1>0. i \in Intents
  BY DEF TInv, JobHeld, BeginWorker, WithSnapshot
<1>1. CASE Matches(i, held[w][i])
  <2>1. queue[i] \in Records /\ queue[i].qty \in Nat
    BY <1>0, <1>1, MatchedRecord DEF Records
  <2>2. r \in Records /\ r.life = queue[i].life /\ r.token = queue[i].token
        /\ r.rev = queue[i].rev
    BY <2>1, BegunRecord
  <2>3. r.sub = "producer_claimed" /\ r.owner = w
    BY <2>1 DEF Begun, Records
  <2>4. /\ queue' = [queue EXCEPT ![i] = r] /\ held' = [held EXCEPT ![w][i] = r]
        /\ stage' = [stage EXCEPT ![w] = "begun"]
        /\ UNCHANGED <<orders, wire, todo, job, answer>> /\ stage[w] = "looked"
    BY <1>1 DEF BeginWorker
  <2> HIDE DEF r
  <2> QED BY <1>1, <2>2, <2>3, <2>4, FenceVenue
<1>2. CASE ~Matches(i, held[w][i])
  BY <1>2, FenceLostVenue DEF BeginWorker
<1> QED BY <1>1, <1>2

LEMMA SyncQtyVenue ==
  ASSUME TInv, TInv', DInv, VInv, NEW w \in Workers, SyncQty(w)
  PROVE  VStep
<1> DEFINE i == job[w]
<1>0. i \in Intents /\ stage[w] = "begun"
  BY DEF TInv, JobHeld, SyncQty, WithSnapshot
<1>1. CASE Matches(i, held[w][i])
  <2>1. PICK q \in 1..queue[i].qty :
          LET r == [queue[i] EXCEPT !.qty = q]
          IN  /\ queue' = [queue EXCEPT ![i] = r]
              /\ held' = [held EXCEPT ![w][i] = r]
              /\ stage' = [stage EXCEPT ![w] = "cleared"]
              /\ job' = job
    BY <1>1 DEF SyncQty
  <2> DEFINE r == [queue[i] EXCEPT !.qty = q]
  <2>2. queue[i] \in Records /\ q \in Nat
    BY <1>0, <1>1, MatchedRecord DEF Records
  <2>3. queue[i].sub = "producer_claimed" /\ queue[i].owner = w
    BY <1>0 DEF VInv, ClaimsHold
  <2>4. r \in Records /\ r.life = queue[i].life /\ r.token = queue[i].token
        /\ r.rev = queue[i].rev /\ r.sub = "producer_claimed" /\ r.owner = w
    BY <2>2, <2>3 DEF Records
  <2>5. /\ queue' = [queue EXCEPT ![i] = r] /\ held' = [held EXCEPT ![w][i] = r]
        /\ stage' = [stage EXCEPT ![w] = "cleared"]
        /\ UNCHANGED <<orders, wire, todo, job, answer>>
    BY <2>1 DEF SyncQty
  <2> HIDE DEF r
  <2> QED BY <1>0, <1>1, <2>4, <2>5, FenceVenue
<1>2. CASE ~Matches(i, held[w][i])
  BY <1>0, <1>2, FenceLostVenue DEF SyncQty
<1> QED BY <1>1, <1>2

--------------------------------------------------------------------------------
(* Steps of a pass and of the clock, crashes, and what makes room in the queue *)

\* Between its first and its last fence a process holds the record for certain.
LEMMA ClaimsAhead ==
  ASSUME TInv, VInv, NEW b \in Actors, stage[b] \in Unsent
  PROVE  LET i == job[b]
         IN  /\ i \in Intents /\ queue[i] # NoRec /\ queue[i].life = "submit_pending"
             /\ queue[i].sub = "producer_claimed" /\ queue[i].owner = b
             /\ PossiblySubmitted(queue[i]) /\ Untraced(i, queue[i].rev)
BY DEF TInv, JobHeld, WithSnapshot, VInv, ClaimsHold, ClaimsUnsent, Unsent, Matches,
       PossiblySubmitted, NeedsLookup

LEMMA KeptBystander ==
  ASSUME TInv, VInv, NEW b \in Actors, stage'[b] = stage[b], job'[b] = job[b],
         held'[b] = held[b], answer'[b] = answer[b],
         \A j \in Intents :
           \/ ~(stage[b] \in Unsent /\ job[b] = j) /\ ~Matches(j, held[b][j])'
           \/ /\ (queue'[j] = NoRec) <=> (queue[j] = NoRec)
              /\ queue'[j].token = queue[j].token /\ queue'[j].rev = queue[j].rev
              /\ queue'[j].life = queue[j].life /\ queue'[j].sub = queue[j].sub
              /\ queue'[j].why = queue[j].why
              /\ queue[j].owner = b => queue'[j].owner = b
  PROVE  Bystander(b)
<1>1. stage[b] \in Unsent =>
        /\ job[b] \in Intents /\ queue[job[b]] # NoRec /\ queue[job[b]].owner = b
  BY ClaimsAhead
<1> QED BY <1>1 DEF Bystander, Matches

LEMMA ClearVenue ==
  ASSUME TInv, TInv', DInv, VInv, NEW w \in Workers, NEW i \in Intents, Clear(w, i)
  PROVE  VStep
<1> DEFINE s == held[w][i]
<1>1. /\ UNCHANGED <<queue, orders, wire, todo, held, answer>> /\ stage[w] = "working"
      /\ s.life = "submit_pending"
      /\ stage' = [stage EXCEPT ![w] = "looked"] /\ job' = [job EXCEPT ![w] = i]
      /\ stage \in [Actors -> Stages] /\ job \in [Actors -> Intents \cup {NoIntent}]
  BY DEF Clear, Turn, TInv, TypeOK
<1>2. Matches(i, s) => Untraced(i, s.rev)
  <2> SUFFICES ASSUME Matches(i, s) PROVE Untraced(i, s.rev)
    OBVIOUS
  <2>1. CASE NeedsLookup(s)
    BY <2>1 DEF Clear, Untraced
  <2>2. CASE ~NeedsLookup(s)
    <3>1. /\ queue[i] # NoRec /\ queue[i].life = "submit_pending" /\ queue[i].rev = s.rev
          /\ ~PossiblySubmitted(queue[i])
      BY <1>1, <2>2 DEF VInv, SnapshotsCurrent, TInv, SnapshotsAgree, NeedsLookup,
                        PossiblySubmitted, Matches
    <3> QED BY <3>1 DEF VInv, RefusedMeansAbsent, Queued, Untraced
  <2> QED BY <2>1, <2>2
<1>3. \A b \in Actors \ {w} : stage'[b] = stage[b] /\ job'[b] = job[b]
  BY <1>1
<1>4. stage'[w] = "looked" /\ job'[w] = i /\ answer'[w] = NoOid
  BY <1>1 DEF VInv, AnswersMatch
<1>5. \A b \in Actors \ {w} : Bystander(b)
  BY <1>1, <1>3, KeptBystander
<1>6. Mover(w)
  BY <1>1, <1>2, <1>4 DEF Mover, Unsent, Matches, VInv, SnapshotsCurrent
<1>7. \A j \in Intents : Follows(j, queue'[j])
  BY <1>1, Fitting, Untouched
<1>8. \A j \in Intents : Unplaced(j)' => Unplaced(j)
  BY <1>1, <1>3, <1>4 DEF Unplaced
<1> QED BY <1>1, <1>5, <1>6, <1>7, <1>8, QuietVenue

LEMMA EndPassVenue ==
  ASSUME TInv, TInv', VInv, NEW w \in Workers, EndPass(w)
  PROVE  VStep
<1>1. /\ UNCHANGED <<queue, orders, wire, todo, held, answer, job>> /\ stage[w] = "working"
      /\ stage' = [stage EXCEPT ![w] = "idle"] /\ stage \in [Actors -> Stages]
  BY DEF EndPass, TInv, TypeOK
<1>2. stage'[w] = "idle" /\ answer'[w] = NoOid /\ \A b \in Actors \ {w} : stage'[b] = stage[b]
  BY <1>1 DEF VInv, AnswersMatch
<1>3. \A j \in Intents : Unplaced(j)' => Unplaced(j)
  BY <1>1, <1>2 DEF Unplaced
<1> QED BY <1>1, <1>2, <1>3, StillVenue DEF Unsent

LEMMA QuarantineVenue ==
  ASSUME TInv, TInv', VInv, NEW w \in Workers, NEW i \in Intents, Quarantine(w, i)
  PROVE  VStep
<1>1. /\ UNCHANGED <<queue, orders, wire, todo, held, answer, job, stage>>
      /\ stage'[w] = "working" /\ answer'[w] = NoOid
  BY DEF Quarantine, VInv, AnswersMatch
<1>2. \A j \in Intents : Unplaced(j)' => Unplaced(j)
  BY <1>1 DEF Unplaced
<1> QED BY <1>1, <1>2, StillVenue DEF Unsent

LEMMA ScanVenue ==
  ASSUME TInv, TInv', VInv, NEW w \in Workers, NEW due \in SUBSET Intents, Scan(w, due)
  PROVE  VStep
<1>1. /\ UNCHANGED <<queue, orders, wire, todo, held, answer, job>> /\ stage[w] = "idle"
      /\ stage' = [stage EXCEPT ![w] = "planned"] /\ stage \in [Actors -> Stages]
  BY DEF Scan, TInv, TypeOK
<1>2. stage'[w] = "planned" /\ answer'[w] = NoOid /\ \A b \in Actors \ {w} : stage'[b] = stage[b]
  BY <1>1 DEF VInv, AnswersMatch
<1>3. \A j \in Intents : Unplaced(j)' => Unplaced(j)
  BY <1>1, <1>2 DEF Unplaced
<1> QED BY <1>1, <1>2, <1>3, StillVenue DEF Unsent

LEMMA RefuseEarlyVenue ==
  ASSUME TInv, TInv', VInv, NEW p \in Producers, NEW i \in Intents, RefuseEarly(p, i)
  PROVE  VStep
<1>1. /\ UNCHANGED <<queue, orders, wire, held, answer>> /\ stage[p] = "idle"
      /\ i \in todo /\ todo' = todo \ {i}
      /\ stage' = [stage EXCEPT ![p] = "refused"] /\ stage \in [Actors -> Stages]
      /\ job' = [job EXCEPT ![p] = i] /\ job \in [Actors -> Intents \cup {NoIntent}]
  BY DEF RefuseEarly, TInv, TypeOK
<1>2. /\ stage'[p] = "refused" /\ job'[p] = i /\ answer'[p] = NoOid
      /\ \A b \in Actors \ {p} : stage'[b] = stage[b] /\ job'[b] = job[b]
  BY <1>1 DEF VInv, AnswersMatch
<1>3. \A j \in Intents : Unplaced(j)' => Unplaced(j)
  BY <1>1, <1>2 DEF Unplaced
<1> QED BY <1>1, <1>2, <1>3, StillVenue DEF Unsent

LEMMA ForgetVenue ==
  ASSUME TInv, NEW a \in Actors, Forget(a), UNCHANGED todo
  PROVE  /\ stage'[a] = "idle" /\ answer'[a] = NoOid /\ \A i \in Intents : held'[a][i] = NoRec
         /\ \A b \in Actors \ {a} :
              stage'[b] = stage[b] /\ job'[b] = job[b] /\ held'[b] = held[b] /\ answer'[b] = answer[b]
         /\ \A j \in Intents : Unplaced(j)' => Unplaced(j)
<1>1. /\ stage'[a] = "idle" /\ answer'[a] = NoOid /\ \A i \in Intents : held'[a][i] = NoRec
      /\ \A b \in Actors \ {a} :
           stage'[b] = stage[b] /\ job'[b] = job[b] /\ held'[b] = held[b] /\ answer'[b] = answer[b]
  BY DEF Forget, NoneHeld, TInv, TypeOK
<1>2. \A j \in Intents : Unplaced(j)' => Unplaced(j)
  BY <1>1 DEF Unplaced
<1> QED BY <1>1, <1>2

LEMMA AbandonVenue ==
  ASSUME TInv, TInv', VInv, NEW a \in Actors, Abandon(a)
  PROVE  VStep
BY ForgetVenue, StillVenue DEF Abandon, Unsent

LEMMA CrashVenue ==
  ASSUME TInv, TInv', VInv, NEW a \in Actors, Crash(a)
  PROVE  VStep
<1> DEFINE r(i) == [queue[i] EXCEPT !.owner = Nobody]
<1>1. /\ UNCHANGED <<orders, wire, todo>> /\ queue \in [Intents -> Records \cup {NoRec}]
      /\ queue' = [i \in Intents |-> IF i \in Queued /\ queue[i].owner = a THEN r(i) ELSE queue[i]]
  BY DEF TInv, TypeOK, Crash
<1>2. \A j \in Intents : queue[j] # NoRec =>
        /\ r(j) \in Records /\ r(j) # NoRec
        /\ r(j).token = queue[j].token /\ r(j).rev = queue[j].rev
        /\ r(j).life = queue[j].life /\ r(j).sub = queue[j].sub
        /\ r(j).why = queue[j].why /\ r(j).oid = queue[j].oid
  <2> SUFFICES ASSUME NEW j \in Intents, queue[j] # NoRec
               PROVE  /\ r(j) \in Records
                      /\ r(j).token = queue[j].token /\ r(j).rev = queue[j].rev
                      /\ r(j).life = queue[j].life /\ r(j).sub = queue[j].sub
                      /\ r(j).why = queue[j].why /\ r(j).oid = queue[j].oid
    BY NullsAssumption
  <2>1. queue[j] \in Records
    BY <1>1
  <2> QED BY <2>1 DEF Records
<1> HIDE DEF r
<1>3. \A j \in Intents :
        queue'[j] = (IF queue[j] # NoRec /\ queue[j].owner = a THEN r(j) ELSE queue[j])
  BY <1>1 DEF Queued
<1>4. \A j \in Intents : Follows(j, queue'[j])
  <2> SUFFICES ASSUME NEW j \in Intents PROVE Follows(j, queue'[j])
    OBVIOUS
  <2>1. Fits(j, queue[j]) /\ Follows(j, queue[j])
    BY Fitting, Untouched
  <2>2. queue[j] # NoRec => Follows(j, r(j))
    BY <1>2, <2>1, SameFollows
  <2> QED BY <1>3, <2>1, <2>2
<1>5. \A b \in Actors \ {a} : Bystander(b)
  <2> SUFFICES ASSUME NEW b \in Actors \ {a} PROVE Bystander(b)
    OBVIOUS
  <2>1. stage'[b] = stage[b] /\ job'[b] = job[b] /\ held'[b] = held[b] /\ answer'[b] = answer[b]
    BY ForgetVenue DEF Crash
  <2> QED BY <1>2, <1>3, <2>1, KeptBystander
<1>6. Mover(a)
  BY ForgetVenue DEF Crash, Mover, Unsent, Matches
<1>7. \A j \in Intents : Unplaced(j)' => Unplaced(j)
  BY ForgetVenue DEF Crash
<1> QED BY <1>1, <1>4, <1>5, <1>6, <1>7, QuietVenue

LEMMA LapseVenue ==
  ASSUME TInv, TInv', VInv, NEW i \in Intents, Lapse(i)
  PROVE  VStep
<1> DEFINE r == [queue[i] EXCEPT !.live = FALSE]
<1>1. /\ UNCHANGED <<orders, wire, todo, stage, job, held, answer>>
      /\ queue \in [Intents -> Records \cup {NoRec}] /\ queue[i] \in Records
      /\ queue[i] # NoRec /\ queue' = [queue EXCEPT ![i] = r]
  BY DEF TInv, TypeOK, Lapse, Queued
<1>2. /\ r \in Records /\ r # NoRec /\ r.token = queue[i].token /\ r.rev = queue[i].rev
      /\ r.life = queue[i].life /\ r.sub = queue[i].sub /\ r.owner = queue[i].owner
      /\ r.why = queue[i].why /\ r.oid = queue[i].oid
  BY <1>1, NullsAssumption, ZenonT(40) DEF Records
<1> HIDE DEF r
<1>3. queue'[i] = r /\ \A j \in Intents : j # i => queue'[j] = queue[j]
  BY <1>1
<1>4. \A j \in Intents : Follows(j, queue'[j])
  BY <1>1, <1>2, <1>3, Fitting, Untouched, SameFollows
<1>5. \A b \in Actors : Bystander(b)
  BY <1>1, <1>2, <1>3, KeptBystander
<1>6. \A j \in Intents : Unplaced(j)' => Unplaced(j)
  BY <1>1 DEF Unplaced
<1> QED BY <1>1, <1>4, <1>5, <1>6, QuietVenue

\* Records that were never submitted, and trackers of ended orders, may go.
LEMMA PurgeVenue ==
  ASSUME TInv, TInv', VInv, UNCHANGED <<orders, wire, todo, stage, job, held, answer>>,
         NEW gone \in SUBSET Intents,
         queue' = [j \in Intents |-> IF j \in gone THEN NoRec ELSE queue[j]],
         \A j \in gone : ~PossiblySubmitted(queue[j]) /\ Follows(j, NoRec)
  PROVE  VStep
<1>1. \A j \in Intents : Follows(j, queue'[j])
  BY Fitting, Untouched
<1>2. \A b \in Actors : Bystander(b)
  <2> SUFFICES ASSUME NEW b \in Actors PROVE Bystander(b)
    OBVIOUS
  <2>1. stage[b] \in Unsent => PossiblySubmitted(queue[job[b]])
    BY ClaimsAhead
  <2>2. \A j \in gone : ~Matches(j, held[b][j])'
    BY DEF Matches
  <2> QED BY <2>1, <2>2, KeptBystander
<1>3. \A j \in Intents : Unplaced(j)' => Unplaced(j)
  BY DEF Unplaced
<1> QED BY <1>1, <1>2, <1>3, QuietVenue

LEMMA RefusedMayGo ==
  ASSUME TInv, VInv, NEW i \in Intents, queue[i] # NoRec, queue[i].life = "submit_pending",
         ~PossiblySubmitted(queue[i])
  PROVE  Follows(i, NoRec)
<1>1. Fits(i, queue[i]) /\ Untraced(i, queue[i].rev)
  BY Fitting DEF Fits
<1> QED BY <1>1, UnsentFollows

LEMMA ExpireVenue ==
  ASSUME TInv, TInv', VInv, NEW w \in Workers, NEW i \in Intents, Expire(w, i)
  PROVE  VStep
<1>1. /\ queue' = [j \in Intents |-> IF j \in {i} THEN NoRec ELSE queue[j]]
      /\ UNCHANGED <<orders, wire, todo, stage, job, held, answer>>
  BY DEF TInv, TypeOK, Expire
<1>2. ~PossiblySubmitted(queue[i]) /\ Follows(i, NoRec)
  BY RefusedMayGo DEF Expire, CanExpire, Queued
<1>3. {i} \in SUBSET Intents /\ \A j \in {i} : ~PossiblySubmitted(queue[j]) /\ Follows(j, NoRec)
  BY <1>2
<1> QED BY <1>1, <1>3, PurgeVenue

LEMMA ConsolidateVenue ==
  ASSUME TInv, TInv', VInv, NEW w \in Workers, Consolidate(w)
  PROVE  VStep
<1>1. PICK gone \in SUBSET Intents :
        /\ queue' = [i \in Intents |-> IF i \in gone THEN NoRec ELSE queue[i]]
        /\ \A i \in gone : queue[i] # NoRec /\ Evictable(queue[i])
  BY DEF Consolidate, Queued
<1>2. \A j \in gone : ~PossiblySubmitted(queue[j]) /\ Follows(j, NoRec)
  BY <1>1, RefusedMayGo DEF Evictable
<1>3. UNCHANGED <<orders, wire, todo, stage, job, held, answer>>
  BY DEF Consolidate
<1> QED BY <1>1, <1>2, <1>3, PurgeVenue

LEMMA ResolveAcceptedVenue ==
  ASSUME TInv, TInv', VInv, NEW i \in Intents, ResolveAccepted(i)
  PROVE  VStep
<1>1. /\ queue' = [j \in Intents |-> IF j \in {i} THEN NoRec ELSE queue[j]]
      /\ UNCHANGED <<orders, wire, todo, stage, job, held, answer>>
      /\ queue[i] # NoRec /\ queue[i].life = "accepted" /\ ~Open(queue[i].oid)
  BY DEF TInv, TypeOK, ResolveAccepted, Queued, Open
<1>2. ~PossiblySubmitted(queue[i]) /\ Follows(i, NoRec)
  BY <1>1, Fitting, EndedFollows DEF PossiblySubmitted
<1>3. {i} \in SUBSET Intents /\ \A j \in {i} : ~PossiblySubmitted(queue[j]) /\ Follows(j, NoRec)
  BY <1>2
<1> QED BY <1>1, <1>3, PurgeVenue

LEMMA AdoptLiveVenue ==
  ASSUME TInv, TInv', VInv, NEW w \in Workers, NEW i \in Intents, AdoptLive(w, i)
  PROVE  VStep
<1> DEFINE s == seen[w][i]
<1>1. PICK o \in OrdersOf(i, s.rev) : Write(i, s, Unclaimed(Accepted(queue[i], o)))
  BY DEF AdoptLive
<1> DEFINE new == Unclaimed(Accepted(queue[i], o))
<1>2. UNCHANGED <<orders, wire, todo, stage, job, held, answer>>
      /\ queue \in [Intents -> Records \cup {NoRec}]
  BY DEF AdoptLive, TInv, TypeOK
<1>3. Matches(i, s) => Follows(i, new) /\ new.token = NoToken
  BY CompletionsFollow
<1> HIDE DEF new
<1>4. /\ \A j \in Intents : j # i => queue'[j] = queue[j]
      /\ Matches(i, s) => queue'[i] = new
      /\ ~Matches(i, s) => queue'[i] = queue[i]
  BY <1>1, <1>2 DEF Write, new
<1>5. \A j \in Intents : Follows(j, queue'[j])
  BY <1>3, <1>4, Fitting, Untouched
<1>6. ASSUME NEW b \in Actors
      PROVE  Bystander(b)
  <2>1. Matches(i, s) => ~(stage[b] \in Unsent /\ job[b] = i)
    BY <1>1, ClaimsAhead DEF Untraced, Matches
  <2>2. Matches(i, s) => ~Matches(i, held[b][i])'
    BY <1>3, <1>4 DEF Matches
  <2> QED BY <1>2, <1>4, <2>1, <2>2, KeptBystander
<1>7. \A j \in Intents : Unplaced(j)' => Unplaced(j)
  BY <1>2 DEF Unplaced
<1> QED BY <1>2, <1>5, <1>6, <1>7, QuietVenue

LEMMA ClaimVenue ==
  ASSUME TInv, TInv', DInv, VInv, NEW w \in Workers, Claim(w)
  PROVE  VStep
<1> DEFINE got == {i \in plan[w] \cap Queued : ~queue[i].live}
           leased(t, i) == [queue[i] EXCEPT !.token = t, !.live = TRUE]
<1>1. PICK t \in Tokens :
        /\ FreshToken(t)
        /\ queue' = [i \in Intents |-> IF i \in got THEN leased(t, i) ELSE queue[i]]
        /\ held' = [held EXCEPT ![w] = [i \in Intents |-> IF i \in got THEN leased(t, i) ELSE NoRec]]
  BY DEF Claim
<1>2. /\ queue \in [Intents -> Records \cup {NoRec}] /\ stage \in [Actors -> Stages]
      /\ held \in [Actors -> [Intents -> Records \cup {NoRec}]]
      /\ stage[w] = "planned" /\ stage' = [stage EXCEPT ![w] = "working"]
      /\ UNCHANGED <<orders, wire, todo, job, answer>>
  BY DEF TInv, TypeOK, Claim
<1>3. \A i \in got : i \in Intents /\ i \in plan[w] /\ queue[i] # NoRec
  BY DEF Queued, TInv, TypeOK
<1>4. \A i \in got :
        LET r == leased(t, i)
        IN  /\ r \in Records /\ r # NoRec /\ r.token = t /\ r.rev = queue[i].rev
            /\ r.life = queue[i].life /\ r.sub = queue[i].sub /\ r.why = queue[i].why
            /\ r.oid = queue[i].oid
  <2> SUFFICES ASSUME NEW i \in got
               PROVE  LET r == leased(t, i)
                      IN  /\ r \in Records /\ r.token = t /\ r.rev = queue[i].rev
                          /\ r.life = queue[i].life /\ r.sub = queue[i].sub
                          /\ r.why = queue[i].why /\ r.oid = queue[i].oid
    BY NullsAssumption
  <2>1. queue[i] \in Records
    BY <1>2, <1>3
  <2> QED BY <2>1 DEF Records
<1>5. \A i \in got : ~LiveClaim(queue[i])
  BY <1>3 DEF DInv, PlansSpareLiveClaims, Queued
<1> HIDE DEF got, leased
<1>6. \A i \in Intents :
        /\ i \in got => queue'[i] = leased(t, i) /\ held'[w][i] = queue'[i]
        /\ i \notin got => queue'[i] = queue[i] /\ held'[w][i] = NoRec
  BY <1>1, <1>2
<1>7. \A b \in Actors \ {w} : stage'[b] = stage[b] /\ held'[b] = held[b]
  BY <1>1, <1>2
<1>8. \A i \in Intents : Follows(i, queue'[i])
  <2> SUFFICES ASSUME NEW i \in Intents PROVE Follows(i, queue'[i])
    OBVIOUS
  <2>1. Fits(i, queue[i]) /\ Follows(i, queue[i])
    BY Fitting, Untouched
  <2>2. ASSUME i \in got PROVE Follows(i, leased(t, i))
    <3> DEFINE r == leased(t, i)
    <3>1. /\ r \in Records /\ queue[i] # NoRec /\ r.life = queue[i].life /\ r.sub = queue[i].sub
          /\ r.why = queue[i].why /\ r.oid = queue[i].oid /\ r.rev = queue[i].rev
      BY <1>3, <1>4, <2>2
    <3> HIDE DEF r
    <3>2. Follows(i, r)
      BY <2>1, <3>1, SameFollows
    <3> QED BY <3>2 DEF r
  <2> QED BY <1>6, <2>1, <2>2
<1>9. ASSUME NEW b \in Actors \ {w}
      PROVE  Bystander(b)
  <2>1. \A i \in got : ~(stage[b] \in Unsent /\ job[b] = i)
    BY <1>5, ClaimsAhead, NobodyAssumption DEF LiveClaim, OwnerAlive
  <2>2. \A i \in Intents : held[b][i] # NoRec => held[b][i].token # t
    BY <1>1 DEF FreshToken, Unused
  <2>3. \A i \in got : ~Matches(i, held[b][i])'
    BY <1>3, <1>4, <1>6, <1>7, <2>2 DEF Matches
  <2> QED BY <1>2, <1>6, <1>7, <2>1, <2>3, KeptBystander
<1>10. Mover(w)
  <2>1. stage'[w] = "working" /\ answer'[w] = NoOid
    BY <1>2 DEF VInv, AnswersMatch
  <2>2. \A i \in Intents : Matches(i, held[w][i])' => held'[w][i] = queue'[i]
    BY <1>6 DEF Matches
  <2> QED BY <2>1, <2>2 DEF Mover, Unsent
<1>11. \A j \in Intents : Unplaced(j)' => Unplaced(j)
  BY <1>2, <1>7, ActorsAssumption DEF Unplaced
<1> QED BY <1>2, <1>8, <1>9, <1>10, <1>11, QuietVenue

--------------------------------------------------------------------------------
(* New records *)

\* Whatever is enqueued first for an intent, the venue knows nothing of it.
LEMMA NewFollows ==
  ASSUME TInv, DInv, VInv, NEW i \in Intents, Unplaced(i)
  PROVE  /\ queue[i] = NoRec /\ \A b \in Actors : held[b][i] = NoRec
         /\ \A rev : Untraced(i, rev)
         /\ \A q : q = NoRec \/ (q # NoRec /\ q.life = "submit_pending") => Follows(i, q)
<1>1. queue[i] = NoRec /\ \A b \in Actors : held[b][i] = NoRec
  BY DEF DInv, UnplacedUntouched
<1>2. AllOrdersOf(i) = {}
  BY DEF VInv, OrdersPlaced, AllOrdersOf
<1>3. \A m \in wire : m.intent # i
  BY <1>1 DEF VInv, WireTracked
<1>4. \A rev : Untraced(i, rev)
  BY <1>2, <1>3 DEF Untraced, OrdersOf, AllOrdersOf, OnWire
<1>5. ASSUME NEW q, q = NoRec \/ (q # NoRec /\ q.life = "submit_pending")
      PROVE  Follows(i, q)
  BY <1>1, <1>2, <1>3, <1>4, <1>5 DEF Follows, Fits
<1> QED BY <1>1, <1>4, <1>5

LEMMA AdmitSpares ==
  ASSUME NEW q \in [Intents -> Records \cup {NoRec}], NEW i \in Intents, NEW r, Admit(q, i, r)
  PROVE  /\ queue'[i] = r
         /\ \A j \in Intents \ {i} :
              \/ queue'[j] = q[j]
              \/ queue'[j] = NoRec /\ q[j] # NoRec /\ Evictable(q[j])
<1>1. CASE queue' = [q EXCEPT ![i] = r]
  BY <1>1
<1>2. ASSUME NEW v \in Intents, q[v] # NoRec /\ Evictable(q[v]),
             queue' = [q EXCEPT ![v] = NoRec, ![i] = r]
      PROVE  /\ queue'[i] = r
             /\ \A j \in Intents \ {i} :
                  \/ queue'[j] = q[j]
                  \/ queue'[j] = NoRec /\ q[j] # NoRec /\ Evictable(q[j])
  BY <1>2
<1> QED BY <1>1, <1>2 DEF Admit, Victims

\* Records that make room for the new one: nobody waits for them.
LEMMA RoomMade ==
  ASSUME TInv, VInv, NEW i \in Intents,
         \A j \in Intents \ {i} :
           \/ queue'[j] = queue[j]
           \/ queue'[j] = NoRec /\ queue[j] # NoRec /\ Evictable(queue[j])
  PROVE  /\ \A j \in Intents \ {i} : Follows(j, queue'[j])
         /\ \A b \in Actors : stage[b] \in Unsent => queue'[job[b]] = queue[job[b]] \/ job[b] = i
         /\ \A j \in Intents \ {i} : queue'[j] # NoRec => queue'[j] = queue[j]
<1>1. \A j \in Intents \ {i} : Follows(j, queue'[j])
  BY Fitting, Untouched, RefusedMayGo DEF Evictable
<1>2. \A b \in Actors : stage[b] \in Unsent => queue'[job[b]] = queue[job[b]] \/ job[b] = i
  BY ClaimsAhead DEF Evictable
<1> QED BY <1>1, <1>2

LEMMA NewBystander ==
  ASSUME TInv, DInv, VInv, NEW i \in Intents, Unplaced(i), NEW b \in Actors,
         stage'[b] = stage[b], job'[b] = job[b], held'[b] = held[b], answer'[b] = answer[b],
         \A j \in Intents \ {i} :
           \/ queue'[j] = queue[j]
           \/ queue'[j] = NoRec /\ queue[j] # NoRec /\ Evictable(queue[j])
  PROVE  Bystander(b)
<1>1. ~(stage[b] \in Unsent /\ job[b] = i) /\ ~Matches(i, held[b][i])'
  BY ClaimsAhead, NewFollows DEF Matches
<1>2. \A j \in Intents \ {i} : queue'[j] # queue[j] =>
        ~(stage[b] \in Unsent /\ job[b] = j) /\ ~Matches(j, held[b][j])'
  BY RoomMade DEF Matches
<1> QED BY <1>1, <1>2, KeptBystander

LEMMA PersistVenue ==
  ASSUME TInv, TInv', DInv, VInv, NEW p \in Producers, NEW i \in Intents, Persist(p, i)
  PROVE  VStep
<1>1. PICK t \in Tokens :
        LET r == NewRecord("producer_claimed", "pending", FALSE, t, p)
        IN  /\ FreshToken(t)
            /\ Admit(queue, i, r)
            /\ held' = [held EXCEPT ![p][i] = r]
  BY DEF Persist
<1> DEFINE r == NewRecord("producer_claimed", "pending", FALSE, t, p)
<1>2. /\ r \in Records /\ r.life = "submit_pending" /\ r.sub = "producer_claimed"
      /\ r.owner = p /\ r.token = t
  BY QtyAssumption DEF NewRecord, Records, Lifecycles, SubmissionStates, Reasons
<1> HIDE DEF r
<1>3. Admit(queue, i, r) /\ held' = [held EXCEPT ![p][i] = r]
  BY <1>1 DEF r
<1>4. /\ queue \in [Intents -> Records \cup {NoRec}] /\ stage \in [Actors -> Stages]
      /\ job \in [Actors -> Intents \cup {NoIntent}]
      /\ held \in [Actors -> [Intents -> Records \cup {NoRec}]]
      /\ r # NoRec /\ r.token # NoToken
  BY <1>2, NullsAssumption DEF TInv, TypeOK
<1>5. /\ queue'[i] = r
      /\ \A j \in Intents \ {i} :
           \/ queue'[j] = queue[j]
           \/ queue'[j] = NoRec /\ queue[j] # NoRec /\ Evictable(queue[j])
  BY <1>3, <1>4, AdmitSpares
<1>6. /\ i \in todo /\ stage[p] = "idle" /\ todo' = todo \ {i}
      /\ stage' = [stage EXCEPT ![p] = "claimed"] /\ job' = [job EXCEPT ![p] = i]
      /\ UNCHANGED <<orders, wire, answer>>
  BY DEF Persist
<1>7. Unplaced(i)
  BY <1>6 DEF Unplaced
<1>8. /\ \A b \in Actors \ {p} : stage'[b] = stage[b] /\ job'[b] = job[b] /\ held'[b] = held[b]
      /\ stage'[p] = "claimed" /\ job'[p] = i /\ held'[p][i] = r
      /\ \A j \in Intents \ {i} : held'[p][j] = held[p][j]
  BY <1>3, <1>4, <1>6
<1>9. \A j \in Intents : Follows(j, queue'[j])
  <2>1. Follows(i, r)
    BY <1>2, <1>4, <1>7, NewFollows
  <2> QED BY <1>5, <2>1, RoomMade
<1>10. \A b \in Actors \ {p} : Bystander(b)
  BY <1>5, <1>6, <1>7, <1>8, NewBystander
<1>11. Mover(p)
  <2>1. answer'[p] = NoOid
    BY <1>6 DEF VInv, AnswersMatch
  <2>2. Matches(i, held[p][i])' /\ Untraced(i, r.rev)
    BY <1>4, <1>5, <1>7, <1>8, NewFollows DEF Matches
  <2>3. \A j \in Intents : Matches(j, held[p][j])' =>
          queue'[j].sub = held'[p][j].sub /\ queue'[j].why = held'[p][j].why
    <3> SUFFICES ASSUME NEW j \in Intents, Matches(j, held[p][j])'
                 PROVE  queue'[j].sub = held'[p][j].sub /\ queue'[j].why = held'[p][j].why
      OBVIOUS
    <3>1. CASE j = i
      BY <1>5, <1>8, <3>1
    <3>2. CASE j # i
      <4>1. queue'[j] = queue[j] /\ held'[p][j] = held[p][j]
        BY <1>5, <1>8, <3>2 DEF Matches
      <4> QED BY <4>1 DEF Matches, VInv, SnapshotsCurrent
    <3> QED BY <3>1, <3>2
  <2> QED BY <1>2, <1>5, <1>8, <2>1, <2>2, <2>3 DEF Mover
<1>12. \A j \in Intents : Unplaced(j)' => Unplaced(j)
  BY <1>6, <1>8 DEF Unplaced
<1> QED BY <1>6, <1>9, <1>10, <1>11, <1>12, QuietVenue

LEMMA EnqueueRefusedVenue ==
  ASSUME TInv, TInv', DInv, VInv, NEW p \in Producers, EnqueueRefused(p)
  PROVE  VStep
<1> DEFINE i == job[p]
           gone == IF why[p] \in Consolidated THEN Superseded(i) ELSE {}
           q == [j \in Intents |-> IF j \in gone THEN NoRec ELSE queue[j]]
           r == NewRecord("none", why[p], why[p] \in Deferrals \cup Consolidated, NoToken, Nobody)
<1>1. /\ stage \in [Actors -> Stages] /\ job \in [Actors -> Intents \cup {NoIntent}]
      /\ i \in Intents /\ queue \in [Intents -> Records \cup {NoRec}]
      /\ stage[p] = "refused" /\ stage' = [stage EXCEPT ![p] = "idle"]
      /\ job' = [job EXCEPT ![p] = NoIntent]
      /\ UNCHANGED <<orders, wire, todo, held, answer>>
  BY DEF TInv, TypeOK, JobHeld, EnqueueRefused
<1>2. /\ q \in [Intents -> Records \cup {NoRec}]
      /\ \A j \in Intents :
           \/ q[j] = queue[j]
           \/ q[j] = NoRec /\ queue[j] # NoRec /\ Evictable(queue[j])
  BY <1>1 DEF Superseded, Queued
<1>3. why[p] # "abort" => r # NoRec /\ r.life = "submit_pending"
  <2>1. why[p] \in Refusals \cup {"abort"} /\ Qty \in Nat
    BY QtyAssumption DEF TInv, TypeOK
  <2>2. r.life = "submit_pending"
    BY DEF NewRecord
  <2>3. why[p] # "abort" => r \in Records
    BY <2>1 DEF NewRecord, Records, Lifecycles, SubmissionStates, Reasons, Refusals
  <2> QED BY <2>2, <2>3, NullsAssumption
<1>4. Unplaced(i)
  BY <1>1 DEF Unplaced
<1>5. /\ queue'[i] = NoRec \/ (queue'[i] = r /\ why[p] # "abort")
      /\ \A j \in Intents \ {i} :
           \/ queue'[j] = queue[j]
           \/ queue'[j] = NoRec /\ queue[j] # NoRec /\ Evictable(queue[j])
  <2> HIDE DEF q, r
  <2>1. CASE why[p] # "abort" /\ Admit(q, i, r)
    BY <1>1, <1>2, <2>1, AdmitSpares
  <2>2. CASE queue' = queue
    BY <1>4, <2>2, NewFollows, <1>1
  <2> QED BY <2>1, <2>2 DEF EnqueueRefused, q, r
<1> HIDE DEF r, q, gone
<1>6. \A j \in Intents : Follows(j, queue'[j])
  <2>1. Follows(i, NoRec) /\ (why[p] # "abort" => Follows(i, r))
    BY <1>1, <1>3, <1>4, NewFollows
  <2> QED BY <1>1, <1>5, <2>1, RoomMade
<1>7. stage'[p] = "idle" /\ \A b \in Actors \ {p} : stage'[b] = stage[b] /\ job'[b] = job[b]
  BY <1>1
<1>8. \A b \in Actors \ {p} : Bystander(b)
  BY <1>1, <1>4, <1>5, <1>7, NewBystander
<1>9. Mover(p)
  <2>1. answer'[p] = NoOid
    BY <1>1 DEF VInv, AnswersMatch
  <2>2. held[p][i] = NoRec
    BY <1>1, <1>4, NewFollows
  <2>3. ASSUME NEW j \in Intents, Matches(j, held[p][j])'
        PROVE  queue'[j].sub = held'[p][j].sub /\ queue'[j].why = held'[p][j].why
    <3>1. j # i /\ queue'[j] = queue[j] /\ held'[p][j] = held[p][j]
      BY <1>1, <1>5, <2>2, <2>3 DEF Matches
    <3> QED BY <2>3, <3>1 DEF Matches, VInv, SnapshotsCurrent
  <2> QED BY <1>7, <2>1, <2>3 DEF Mover, Unsent
<1>10. \A j \in Intents : Unplaced(j)' => Unplaced(j)
  BY <1>1, <1>7 DEF Unplaced
<1> QED BY <1>1, <1>6, <1>8, <1>9, <1>10, QuietVenue

--------------------------------------------------------------------------------
(* The submit, and the venue's own steps *)

LEMMA KeptSteady ==
  ASSUME TInv, VInv, queue' = queue
  PROVE  Steady
<1>1. \A i \in Intents : Follows(i, queue[i])
  BY Fitting, Untouched
<1> QED BY <1>1 DEF Steady, Follows, Queued

LEMMA SendVenue ==
  ASSUME TInv, TInv', DInv, VInv, NEW a \in Actors, Send(a)
  PROVE  VStep
<1> DEFINE i == job[a]
           s == held[a][i]
           m == [by |-> a, intent |-> i, rev |-> s.rev, qty |-> s.qty]
<1>1. /\ stage[a] = "cleared" /\ stage[a] \in Unsent /\ wire' = wire \cup {m}
      /\ stage' = [stage EXCEPT ![a] = "sent"] /\ stage \in [Actors -> Stages]
      /\ UNCHANGED <<queue, todo, job, held, answer, orders>>
  BY DEF Send, TInv, TypeOK, Unsent
<1>2. /\ i \in Intents /\ queue[i] # NoRec /\ PossiblySubmitted(queue[i])
      /\ Untraced(i, s.rev) /\ Matches(i, s) /\ queue[i].rev = s.rev
  BY <1>1, ClaimsAhead DEF VInv, ClaimsHold, Matches
<1>3. m.by = a /\ m.intent = i /\ m.rev = s.rev
  OBVIOUS
<1> HIDE DEF m
<1>4. stage'[a] = "sent" /\ \A b \in Actors \ {a} : stage'[b] = stage[b]
  BY <1>1
<1>5. \A n \in wire : n.intent \in Intents /\ n.by \in Actors /\ ~(n.intent = i /\ n.rev = s.rev)
  BY <1>2 DEF TInv, TypeOK, Requests, Untraced, OnWire
<1>6. IdsUsedOnce'
  <2>1. OrdersOf(m.intent, m.rev) = {}
    BY <1>2, <1>3 DEF Untraced
  <2>2. \A x, n \in wire' : x.intent = n.intent /\ x.rev = n.rev => x = n
    BY <1>1, <1>3, <1>5 DEF VInv, IdsUsedOnce
  <2>3. \A n \in wire' : OrdersOf(n.intent, n.rev) = {}
    BY <1>1, <2>1 DEF VInv, IdsUsedOnce
  <2> QED BY <1>1, <2>2, <2>3 DEF VInv, IdsUsedOnce, OrdersOf
<1>7. WireTracked'
  BY <1>1, <1>2, <1>3 DEF VInv, WireTracked
<1>8. LiveOrderTracked' /\ TrackersMatch'
  BY <1>1 DEF VInv, LiveOrderTracked, TrackersMatch, Open, Queued
<1>9. RefusedMeansAbsent'
  BY <1>1, <1>2, <1>3 DEF VInv, RefusedMeansAbsent, Queued, OrdersOf, OnWire
<1>10. OrdersPlaced'
  <2>1. \A j \in Intents : Unplaced(j)' => Unplaced(j)
    BY <1>1, <1>4 DEF Unplaced
  <2>2. \A o \in Oids : orders[o] # NoOrder => orders[o].intent \in Intents
    BY DEF TInv, TypeOK, Orders
  <2> QED BY <1>1, <2>1, <2>2 DEF VInv, OrdersPlaced
<1>11. ClaimsHold'
  BY <1>1, <1>4 DEF VInv, ClaimsHold, Matches
<1>12. ClaimsUnsent'
  <2> SUFFICES ASSUME NEW b \in Actors, stage'[b] \in {"claimed", "looked", "begun", "cleared"},
                      Matches(job[b], held[b][job[b]])'
               PROVE  Untraced(job[b], held[b][job[b]].rev)'
    BY DEF ClaimsUnsent
  <2>1. b # a /\ stage[b] = stage'[b] /\ job[b] \in Intents
    BY <1>4 DEF TInv, JobHeld, WithSnapshot
  <2>2. Matches(job[b], held[b][job[b]])
    BY <1>1 DEF Matches
  <2>3. Untraced(job[b], held[b][job[b]].rev)
    BY <2>1, <2>2 DEF VInv, ClaimsUnsent
  <2>4. job[b] # i
    BY <1>2, <2>1, <2>2 DEF Matches, DInv, TokensDistinct
  <2> QED BY <1>1, <1>3, <2>3, <2>4 DEF Untraced, OrdersOf, OnWire
<1>13. AnswersMatch'
  <2>1. \A b \in Actors : answer[b] # NoOid => b # a
    BY <1>1 DEF VInv, AnswersMatch
  <2>2. ASSUME NEW n \in wire', stage'[n.by] = "sent", job[n.by] = n.intent
        PROVE  n.rev = held[n.by][n.intent].rev
    <3>1. CASE n = m
      BY <1>3, <3>1
    <3>2. CASE n # m /\ n.by = a
      BY <1>1, <1>2, <2>2, <3>2 DEF VInv, WireTracked
    <3>3. CASE n # m /\ n.by # a
      BY <1>1, <1>4, <1>5, <2>2, <3>3 DEF VInv, AnswersMatch
    <3> QED BY <3>1, <3>2, <3>3
  <2> QED BY <1>1, <1>4, <2>1, <2>2 DEF VInv, AnswersMatch
<1>14. SnapshotsCurrent'
  BY <1>1 DEF VInv, SnapshotsCurrent, Matches
<1>15. Steady
  BY <1>1, KeptSteady
<1> QED BY <1>6, <1>7, <1>8, <1>9, <1>10, <1>11, <1>12, <1>13, <1>14, <1>15 DEF VStep, VInv

LEMMA AcceptVenue ==
  ASSUME TInv, TInv', DInv, VInv, NEW m \in wire, Accept(m)
  PROVE  VStep
<1>1. PICK o \in Oids :
        /\ orders[o] = NoOrder
        /\ orders' = [orders EXCEPT ![o] = [intent |-> m.intent, rev |-> m.rev, qty |-> m.qty,
                                            filled |-> 0, status |-> "open"]]
        /\ answer' = IF stage[m.by] = "sent" /\ job[m.by] = m.intent
                     THEN [answer EXCEPT ![m.by] = o] ELSE answer
  BY DEF Accept
<1> DEFINE i == m.intent
<1>2. /\ wire' = wire \ {m} /\ UNCHANGED <<queue, todo, stage, job, held>>
      /\ orders \in [Oids -> Orders \cup {NoOrder}] /\ answer \in [Actors -> Oids \cup {NoOid}]
      /\ i \in Intents /\ m.by \in Actors /\ m.rev \in Nat
      /\ \A n \in wire : n.intent \in Intents /\ n.by \in Actors
  BY DEF Accept, TInv, TypeOK, Requests
<1>3. /\ \A p \in Oids \ {o} : orders'[p] = orders[p]
      /\ orders'[o] # NoOrder /\ orders'[o].intent = i /\ orders'[o].rev = m.rev
  BY <1>1, <1>2, QtyAssumption, NullsAssumption DEF TInv, TypeOK, Requests, Orders
<1>4. queue[i] # NoRec /\ PossiblySubmitted(queue[i]) /\ queue[i].rev = m.rev
  BY DEF VInv, WireTracked
<1>5. OrdersOf(i, m.rev) = {} /\ \A n \in wire : n.intent = i /\ n.rev = m.rev => n = m
  BY DEF VInv, IdsUsedOnce
<1>6. IdsUsedOnce'
  <2>1. \A p, q \in Oids :
          /\ orders'[p] # NoOrder /\ orders'[q] # NoOrder
          /\ orders'[p].intent = orders'[q].intent /\ orders'[p].rev = orders'[q].rev
          => p = q
    BY <1>3, <1>5 DEF VInv, IdsUsedOnce, OrdersOf
  <2>2. \A n \in wire' : OrdersOf(n.intent, n.rev)' = {}
    BY <1>2, <1>3, <1>5 DEF VInv, IdsUsedOnce, OrdersOf
  <2> QED BY <1>2, <2>1, <2>2 DEF VInv, IdsUsedOnce
<1>7. WireTracked'
  BY <1>2 DEF VInv, WireTracked
<1>8. LiveOrderTracked'
  BY <1>2, <1>3, <1>4 DEF VInv, LiveOrderTracked, Open
<1>9. RefusedMeansAbsent'
  BY <1>2, <1>3, <1>4 DEF VInv, RefusedMeansAbsent, Queued, OrdersOf, OnWire
<1>10. OrdersPlaced'
  <2>1. ~Unplaced(i) /\ m.rev <= queue[i].rev
    BY <1>2, <1>4 DEF DInv, UnplacedUntouched
  <2> QED BY <1>2, <1>3, <2>1 DEF VInv, OrdersPlaced, Unplaced
<1>11. TrackersMatch'
  BY <1>1, <1>2, <1>3 DEF VInv, TrackersMatch, Queued, TInv, AcceptedHasOrder
<1>12. ClaimsHold'
  BY <1>2 DEF VInv, ClaimsHold, Matches
<1>13. ClaimsUnsent'
  BY <1>2, <1>3 DEF VInv, ClaimsUnsent, Untraced, Matches, OrdersOf, OnWire
<1>14. AnswersMatch'
  <2>1. ASSUME NEW b \in Actors, answer'[b] # NoOid
        PROVE  /\ stage[b] = "sent" /\ orders'[answer'[b]].intent = job[b]
               /\ orders'[answer'[b]].rev = held[b][job[b]].rev
    <3>1. CASE b = m.by /\ stage[m.by] = "sent" /\ job[m.by] = m.intent
      BY <1>1, <1>2, <1>3, <3>1 DEF VInv, AnswersMatch
    <3>2. CASE answer'[b] = answer[b]
      BY <1>1, <1>2, <1>3, <2>1, <3>2 DEF VInv, AnswersMatch, TInv, AcceptedHasOrder
    <3> QED BY <1>1, <1>2, <3>1, <3>2
  <2> QED BY <1>2, <2>1 DEF VInv, AnswersMatch
<1>15. SnapshotsCurrent'
  BY <1>2 DEF VInv, SnapshotsCurrent, Matches
<1>16. Steady
  BY <1>2, KeptSteady
<1> QED BY <1>6, <1>7, <1>8, <1>9, <1>10, <1>11, <1>12, <1>13, <1>14, <1>15, <1>16 DEF VStep, VInv

\* Requests are lost, orders fill or end: nothing new has to be tracked.
LEMMA AmendVenue ==
  ASSUME TInv, TInv', VInv, UNCHANGED <<queue, todo, stage, job, held, answer>>, wire' \subseteq wire,
         \A o \in Oids :
           /\ (orders'[o] = NoOrder) <=> (orders[o] = NoOrder)
           /\ orders[o] # NoOrder =>
                orders'[o].intent = orders[o].intent /\ orders'[o].rev = orders[o].rev
           /\ Open(o)' => Open(o)
  PROVE  VStep
<1>1. \A j, rev : OrdersOf(j, rev)' = OrdersOf(j, rev) /\ (OnWire(j, rev)' => OnWire(j, rev))
  BY DEF OrdersOf, OnWire
<1>2. IdsUsedOnce'
  BY <1>1 DEF VInv, IdsUsedOnce
<1>3. WireTracked' /\ RefusedMeansAbsent' /\ ClaimsUnsent' /\ SnapshotsCurrent' /\ ClaimsHold'
  <2>1. WireTracked' /\ SnapshotsCurrent' /\ ClaimsHold'
    BY DEF VInv, WireTracked, SnapshotsCurrent, ClaimsHold, Matches
  <2>2. RefusedMeansAbsent'
    BY <1>1 DEF VInv, RefusedMeansAbsent, Queued
  <2>3. ClaimsUnsent'
    BY <1>1 DEF VInv, ClaimsUnsent, Untraced, Matches
  <2> QED BY <2>1, <2>2, <2>3
<1>4. LiveOrderTracked'
  BY DEF VInv, LiveOrderTracked, Open
<1>5. OrdersPlaced'
  BY DEF VInv, OrdersPlaced, Unplaced
<1>6. TrackersMatch'
  BY DEF VInv, TrackersMatch, Queued, TInv, AcceptedHasOrder
<1>7. AnswersMatch'
  BY DEF VInv, AnswersMatch, TInv, TypeOK, AcceptedHasOrder
<1>8. Steady
  BY KeptSteady
<1> QED BY <1>2, <1>3, <1>4, <1>5, <1>6, <1>7, <1>8 DEF VStep, VInv

LEMMA VenueVenue ==
  ASSUME TInv, TInv', DInv, VInv, VenueStep
  PROVE  VStep
<1>1. ASSUME NEW m \in wire, Lose(m)
      PROVE  VStep
  BY <1>1, AmendVenue DEF Lose, Open
<1>2. ASSUME NEW o \in Oids, NEW n \in 1..Qty, Fill(o, n)
      PROVE  VStep
  <2>1. /\ orders \in [Oids -> Orders \cup {NoOrder}] /\ orders[o] \in Orders
        /\ orders'[o] = [orders[o] EXCEPT !.filled = @ + n, !.status =
             IF orders[o].filled + n = orders[o].qty THEN "closed" ELSE "open"]
        /\ \A p \in Oids \ {o} : orders'[p] = orders[p]
        /\ orders[o] # NoOrder /\ Open(o) /\ UNCHANGED <<queue, todo, stage, job, held, answer, wire>>
    BY <1>2 DEF Fill, Open, TInv, TypeOK
  <2>2. orders'[o] # NoOrder /\ orders'[o].intent = orders[o].intent
        /\ orders'[o].rev = orders[o].rev
    <3>1. orders'[o] \in Orders
      <4>1. orders[o].filled + n \in Nat
        BY <2>1, QtyAssumption DEF Orders
      <4> QED BY <2>1, <4>1 DEF Orders
    <3>2. orders'[o].intent = orders[o].intent /\ orders'[o].rev = orders[o].rev
      BY <2>1 DEF Orders
    <3> QED BY <3>1, <3>2, NullsAssumption
  <2> QED BY <2>1, <2>2, AmendVenue DEF Open
<1>3. ASSUME NEW o \in Oids, CancelOrder(o) \/ ExpireOrder(o)
      PROVE  VStep
  <2>1. PICK st \in {"canceled", "expired"} : orders' = [orders EXCEPT ![o].status = st]
    BY <1>3 DEF CancelOrder, ExpireOrder
  <2>2. /\ orders \in [Oids -> Orders \cup {NoOrder}] /\ orders[o] \in Orders
        /\ orders'[o] = [orders[o] EXCEPT !.status = st]
        /\ \A p \in Oids \ {o} : orders'[p] = orders[p]
        /\ orders[o] # NoOrder /\ Open(o) /\ UNCHANGED <<queue, todo, stage, job, held, answer, wire>>
    BY <1>3, <2>1 DEF CancelOrder, ExpireOrder, Open, TInv, TypeOK
  <2>3. orders'[o] # NoOrder /\ orders'[o].intent = orders[o].intent
        /\ orders'[o].rev = orders[o].rev
    BY <2>2, NullsAssumption DEF Orders
  <2> QED BY <2>2, <2>3, AmendVenue DEF Open
<1> QED BY <1>1, <1>2, <1>3, AcceptVenue DEF VenueStep

--------------------------------------------------------------------------------
(* The invariant, and the theorems *)

LEMMA VInvInit == Init => VInv
<1> SUFFICES ASSUME Init
             PROVE  VInv
  OBVIOUS
<1>1. /\ \A a \in Actors : stage[a] = "idle" /\ answer[a] = NoOid
      /\ \A a \in Actors, i \in Intents : held[a][i] = NoRec
      /\ \A i \in Intents : queue[i] = NoRec
      /\ \A o \in Oids : orders[o] = NoOrder
      /\ wire = {}
  BY DEF Init, NoneHeld
<1>2. SnapshotsCurrent /\ ClaimsHold /\ ClaimsUnsent
  BY <1>1 DEF SnapshotsCurrent, ClaimsHold, ClaimsUnsent, Matches
<1>3. IdsUsedOnce /\ WireTracked /\ LiveOrderTracked /\ OrdersPlaced
  BY <1>1 DEF IdsUsedOnce, WireTracked, LiveOrderTracked, OrdersPlaced, Open
<1>4. RefusedMeansAbsent /\ TrackersMatch
  BY <1>1 DEF RefusedMeansAbsent, TrackersMatch, Queued
<1>5. AnswersMatch
  BY <1>1 DEF AnswersMatch
<1> QED BY <1>2, <1>3, <1>4, <1>5 DEF VInv

LEMMA VInvNext ==
  ASSUME TInv, TInv', DInv, VInv, [Next]_vars
  PROVE  VStep
<1>1. ASSUME NEW p \in Producers, ProducerStep(p)
      PROVE  VStep
  BY <1>1, PersistVenue, RefuseEarlyVenue, EnqueueRefusedVenue, BeginProducerVenue
     DEF ProducerStep
<1>2. ASSUME NEW w \in Workers, WorkerStep(w)
      PROVE  VStep
  <2>1. ASSUME NEW i \in Intents, RecordStep(w, i)
        PROVE  VStep
    <3>1. CASE ObserveOrder(w, i) \/ Wait(w, i)
      BY <3>1, ReleaseVenue DEF ObserveOrder, Wait
    <3> QED BY <2>1, <3>1, AdoptLiveVenue, QuarantineVenue, SettleOrderVenue, LookupFoundVenue,
               ClearVenue DEF RecordStep
  <2>2. CASE PassStep(w)
    BY <2>1, <2>2, ClaimVenue, BeginWorkerVenue, SyncQtyVenue, LookupAfterVenue, EndPassVenue
       DEF PassStep
  <2> QED BY <1>2, <2>2, ScanVenue, ExpireVenue, ConsolidateVenue DEF WorkerStep
<1>3. ASSUME NEW a \in Actors, DispatchStep(a) \/ Abandon(a) \/ Crash(a)
      PROVE  VStep
  BY <1>3, RefuseLateVenue, SendVenue, ReturnAcceptedVenue, ReturnUnknownVenue,
     AbandonVenue, CrashVenue DEF DispatchStep
<1>4. ASSUME NEW i \in Intents, Lapse(i) \/ ResolveAccepted(i)
      PROVE  VStep
  BY <1>4, LapseVenue, ResolveAcceptedVenue
<1>5. CASE VenueStep
  BY <1>5, VenueVenue
<1>6. CASE UNCHANGED vars
  BY <1>6, AmendVenue DEF vars, Open
<1> QED BY <1>1, <1>2, <1>3, <1>4, <1>5, <1>6 DEF Next

\* What ties the venue to the queue holds for ever.
LEMMA VenueInvariant ==
  ASSUME OneAtATime
  PROVE  Spec => [](TInv /\ DInv /\ VInv) /\ [][Steady]_vars
<1>1. Init => TInv /\ DInv /\ VInv
  BY TInvInit, DInvInit, VInvInit
<1>2. TInv /\ DInv /\ VInv /\ [Next]_vars => TInv' /\ DInv' /\ VInv' /\ Steady
  BY TInvNext, DInvNext, VInvNext DEF SafeStep, VStep
<1> QED BY <1>1, <1>2, PTL DEF Spec

\* Persist before submit and look up before resubmit, with every worker under
\* single_instance: whatever crashes, lapses or is lost, no client order id is
\* ever submitted while a request or an order of the same id exists.
THEOREM ClientIdsUsedOnce ==
  ASSUME OneAtATime
  PROVE  Spec => []OneOrderPerClientId
<1>1. ASSUME NEW S, \A x, y \in S : x = y
      PROVE  Cardinality(S) <= 1
  <2>1. CASE S = {}
    BY <2>1, FS_EmptySet
  <2>2. ASSUME NEW x \in S
        PROVE  Cardinality(S) <= 1
    <3>1. S = {x} /\ Cardinality({x}) = 1
      BY <1>1, FS_Singleton
    <3> QED BY <3>1
  <2> QED BY <2>1, <2>2
<1>2. VInv => OneOrderPerClientId
  <2> SUFFICES ASSUME VInv, NEW i \in Intents, NEW rev \in 0..MaxRev
               PROVE  /\ Cardinality(OrdersOf(i, rev)) <= 1
                      /\ Cardinality({m \in wire : m.intent = i /\ m.rev = rev}) <= 1
                      /\ OnWire(i, rev) => OrdersOf(i, rev) = {}
    BY DEF OneOrderPerClientId
  <2>1. \A x, y \in OrdersOf(i, rev) : x = y
    BY DEF VInv, IdsUsedOnce, OrdersOf
  <2>2. \A x, y \in {m \in wire : m.intent = i /\ m.rev = rev} : x = y
    BY DEF VInv, IdsUsedOnce
  <2>3. OnWire(i, rev) => OrdersOf(i, rev) = {}
    BY DEF VInv, IdsUsedOnce, OnWire
  <2> QED BY <1>1, <2>1, <2>2, <2>3
<1> QED BY <1>2, VenueInvariant, PTL

\* Under the same assumption an order that rests at the venue is never lost sight
\* of: its tracker, or a record that must be looked up before anything else, is in
\* the queue file, through evictions, consolidations, expiries and crashes.
THEOREM LiveOrdersTracked ==
  ASSUME OneAtATime
  PROVE  Spec => []LiveOrderTracked
<1>1. VInv => LiveOrderTracked
  BY DEF VInv
<1> QED BY <1>1, VenueInvariant, PTL

\* "refused", and every other pending state without a lookup, proves that nothing
\* of that revision is at the venue or on its way to it.
THEOREM RefusedIsAbsent ==
  ASSUME OneAtATime
  PROVE  Spec => []RefusedMeansAbsent
<1>1. VInv => RefusedMeansAbsent
  BY DEF VInv
<1> QED BY <1>1, VenueInvariant, PTL

\* "Accepted trackers never expire": no step of any process takes the tracker
\* from an order that is still open.
THEOREM TrackersOutliveOrders ==
  ASSUME OneAtATime
  PROVE  Spec => TrackerOutlivesOrder
<1>1. Steady => [\A i \in Queued :
                   queue[i].life = "accepted" /\ Open(queue[i].oid)
                     => /\ queue'[i] # NoRec
                        /\ queue'[i].life = "accepted"
                        /\ queue'[i].oid = queue[i].oid]_vars
  BY DEF Steady, Outlives
<1> QED BY <1>1, VenueInvariant, PTL DEF TrackerOutlivesOrder

\* A revision is only opened for an order the venue itself expired, and never
\* taken back, so a claim of an earlier one stays fenced for good.
THEOREM RevisionsOnlyGrow ==
  ASSUME OneAtATime
  PROVE  Spec => RevisionsGrow
<1>1. Steady => [\A i \in Queued : queue'[i] # NoRec =>
                   \/ queue'[i].rev = queue[i].rev
                   \/ /\ queue'[i].rev = queue[i].rev + 1
                      /\ queue[i].life = "accepted"
                      /\ orders[queue[i].oid].status = "expired"]_vars
  BY DEF Steady, Advances
<1> QED BY <1>1, VenueInvariant, PTL DEF RevisionsGrow

--------------------------------------------------------------------------------
(***************************************************************************)
(* The ledger: quantities                                                  *)
(***************************************************************************)

(* The sums of the properties are sums over functions of the order ids *)

Fills(ords) == [o \in Oids |-> ords[o].filled]
Exposures(ords) ==
  [o \in Oids |-> IF ords[o].status = "open" THEN ords[o].qty ELSE ords[o].filled]

LEMMA FilledIsSum ==
  \A S \in SUBSET Oids : IsFiniteSet(S) => FilledOf(S) = SumOver(Fills(orders), S)
<1> SUFFICES ASSUME NEW S \in SUBSET Oids, IsFiniteSet(S)
             PROVE  FilledOf(S) = SumOver(Fills(orders), S)
  OBVIOUS
<1> DEFINE fold(g) == [s \in SUBSET S |-> IF s = {} THEN 0
                                          ELSE orders[Pick(s)].filled + g[s \ {Pick(s)}]]
           h == CHOOSE g : g = fold(g)
<1>1. FilledOf(S) = h[S]
  BY DEF FilledOf, MapThenSumSet, MapThenFoldSet, Pick
<1>2. ASSUME NEW g PROVE IsFold(Fills(orders), g, S) <=> g = fold(g)
  <2>1. ASSUME NEW s \in SUBSET S, s # {}
        PROVE  Fills(orders)[Pick(s)] = orders[Pick(s)].filled
    BY <2>1, PickIn DEF Fills
  <2>2. fold(g) = [s \in SUBSET S |-> IF s = {} THEN 0
                                      ELSE Fills(orders)[Pick(s)] + g[s \ {Pick(s)}]]
    BY <2>1
  <2> QED BY <2>2 DEF IsFold
<1>3. \E g : g = fold(g)
  BY <1>2, FoldExists
<1> HIDE DEF fold
<1>4. h = fold(h)
  BY <1>3
<1> HIDE DEF h
<1>5. SumOver(Fills(orders), S) = h[S]
  BY <1>2, <1>4, SumOverIsFold
<1> QED BY <1>1, <1>5

LEMMA ExposureIsSum ==
  \A S \in SUBSET Oids : IsFiniteSet(S) => Exposure(S) = SumOver(Exposures(orders), S)
<1> SUFFICES ASSUME NEW S \in SUBSET Oids, IsFiniteSet(S)
             PROVE  Exposure(S) = SumOver(Exposures(orders), S)
  OBVIOUS
<1> DEFINE at(o) == IF orders[o].status = "open" THEN orders[o].qty ELSE orders[o].filled
           fold(g) == [s \in SUBSET S |-> IF s = {} THEN 0 ELSE at(Pick(s)) + g[s \ {Pick(s)}]]
           h == CHOOSE g : g = fold(g)
<1>1. Exposure(S) = h[S]
  BY DEF Exposure, MapThenSumSet, MapThenFoldSet, Pick
<1>2. ASSUME NEW g PROVE IsFold(Exposures(orders), g, S) <=> g = fold(g)
  <2>1. ASSUME NEW s \in SUBSET S, s # {}
        PROVE  Exposures(orders)[Pick(s)] = at(Pick(s))
    BY <2>1, PickIn DEF Exposures
  <2> HIDE DEF at
  <2>2. fold(g) = [s \in SUBSET S |-> IF s = {} THEN 0
                                      ELSE Exposures(orders)[Pick(s)] + g[s \ {Pick(s)}]]
    BY <2>1
  <2> QED BY <2>2 DEF IsFold
<1>3. \E g : g = fold(g)
  BY <1>2, FoldExists
<1> HIDE DEF fold
<1>4. h = fold(h)
  BY <1>3
<1> HIDE DEF h
<1>5. SumOver(Exposures(orders), S) = h[S]
  BY <1>2, <1>4, SumOverIsFold
<1> QED BY <1>1, <1>5

--------------------------------------------------------------------------------
(* The invariant, record by record *)

OlderOrders(i, rev) == {o \in AllOrdersOf(i) : orders[o].rev < rev}
Delivered(i, rev) == SumOver(Fills(orders), OlderOrders(i, rev))
Exposed(i) == SumOver(Exposures(orders), AllOrdersOf(i))

\* The ledger of record q of intent i, or its absence, fits the venue.
Balanced(i, q) ==
  q # NoRec =>
    /\ q.delivered = Delivered(i, q.rev) /\ q.qty >= 1 /\ q.delivered + q.qty <= Qty
    /\ \A o \in OrdersOf(i, q.rev) : orders[o].qty = q.qty
    /\ \A m \in wire : m.intent = i => m.qty = q.qty

AllBalanced == \A i \in Intents : Balanced(i, queue[i])

Ledger ==
  SnapshotsCount /\ OrdersFinite /\ AllBalanced /\ \A i \in Intents : Exposed(i) <= Qty

LEMMA OrdersOfFinite ==
  OrdersFinite => \A i \in Intents : \A rev :
    IsFiniteSet(AllOrdersOf(i)) /\ IsFiniteSet(OlderOrders(i, rev))
BY FS_Subset DEF OrdersFinite, AllOrdersOf, OlderOrders

LEMMA LedgerReads == Ledger => LInv
<1> SUFFICES ASSUME Ledger PROVE LInv
  OBVIOUS
<1>1. LedgerMatchesVenue
  <2> SUFFICES ASSUME NEW i \in Queued
               PROVE  /\ queue[i].delivered = FilledOf({o \in AllOrdersOf(i) : orders[o].rev < queue[i].rev})
                      /\ queue[i].qty >= 1
                      /\ queue[i].delivered + queue[i].qty <= Qty
    BY DEF LedgerMatchesVenue
  <2>1. i \in Intents /\ queue[i] # NoRec
    BY DEF Queued
  <2>2. /\ queue[i].delivered = Delivered(i, queue[i].rev) /\ queue[i].qty >= 1
        /\ queue[i].delivered + queue[i].qty <= Qty
    BY <2>1 DEF Ledger, AllBalanced, Balanced
  <2> DEFINE S == {o \in AllOrdersOf(i) : orders[o].rev < queue[i].rev}
  <2>3. S = OlderOrders(i, queue[i].rev) /\ S \in SUBSET Oids
    BY DEF OlderOrders, AllOrdersOf
  <2>4. IsFiniteSet(S)
    BY <2>1, <2>3, OrdersOfFinite DEF Ledger
  <2> HIDE DEF S
  <2>5. FilledOf(S) = SumOver(Fills(orders), S)
    BY <2>3, <2>4, FilledIsSum
  <2> QED BY <2>2, <2>3, <2>5 DEF Delivered, S
<1>2. NeverOverfilled
  <2> SUFFICES ASSUME NEW i \in Intents
               PROVE  Exposure(AllOrdersOf(i)) <= Qty
    BY DEF NeverOverfilled
  <2>1. AllOrdersOf(i) \in SUBSET Oids /\ IsFiniteSet(AllOrdersOf(i))
    BY OrdersOfFinite DEF AllOrdersOf, Ledger
  <2> QED BY <2>1, ExposureIsSum DEF Ledger, Exposed
<1>3. QuantitiesAgree
  BY DEF Ledger, AllBalanced, Balanced, QuantitiesAgree, Queued
<1> QED BY <1>1, <1>2, <1>3 DEF Ledger, LInv

\* Numbers of orders that exist
LEMMA OrderNumbers ==
  ASSUME TInv, NEW o \in Oids, orders[o] # NoOrder
  PROVE  /\ orders[o] \in Orders /\ orders[o].rev \in Nat
         /\ orders[o].qty \in Nat /\ orders[o].filled \in Nat /\ orders[o].filled <= orders[o].qty
         /\ Fills(orders)[o] = orders[o].filled
         /\ Exposures(orders)[o] \in Nat /\ Exposures(orders)[o] <= orders[o].qty
         /\ orders[o].status # "open" => Exposures(orders)[o] = orders[o].filled
<1>1. orders[o] \in Orders /\ orders[o].filled <= orders[o].qty
  BY DEF TInv, TypeOK, OrdersSane
<1> QED BY <1>1 DEF Orders, Fills, Exposures

\* As long as it has a record, an intent is exposed to no more than what the record
\* has delivered and still orders: only the order of its own revision can be open.
LEMMA Within ==
  TInv /\ VInv /\ OrdersFinite /\ AllBalanced => \A i \in Queued : Exposed(i) <= Qty
<1> SUFFICES ASSUME TInv, VInv, OrdersFinite, AllBalanced, NEW i \in Queued
             PROVE  Exposed(i) <= Qty
  OBVIOUS
<1> DEFINE q == queue[i]
           old == OlderOrders(i, q.rev)
<1>1. /\ i \in Intents /\ q # NoRec /\ q \in Records
      /\ q.rev \in Nat /\ q.qty \in Nat /\ q.delivered \in Nat
  BY DEF Queued, TInv, TypeOK, Records
<1>2. /\ q.delivered = Delivered(i, q.rev) /\ q.qty >= 1 /\ q.delivered + q.qty <= Qty
      /\ \A o \in OrdersOf(i, q.rev) : orders[o].qty = q.qty
  BY <1>1 DEF AllBalanced, Balanced
<1>3. \A o \in AllOrdersOf(i) :
        /\ o \in Oids /\ orders[o] # NoOrder /\ orders[o].rev <= q.rev
        /\ orders[o].status = "open" => orders[o].rev = q.rev
  BY <1>1 DEF VInv, OrdersPlaced, LiveOrderTracked, TrackersMatch, AllOrdersOf, Open, Queued
<1>4. IsFiniteSet(old) /\ old \subseteq AllOrdersOf(i)
  BY <1>1, OrdersOfFinite DEF OlderOrders
<1>5. \A o \in old : Fills(orders)[o] = Exposures(orders)[o]
  <2> SUFFICES ASSUME NEW o \in old PROVE Fills(orders)[o] = Exposures(orders)[o]
    OBVIOUS
  <2>1. o \in AllOrdersOf(i) /\ orders[o].rev < q.rev
    BY DEF OlderOrders
  <2>2. o \in Oids /\ orders[o] # NoOrder /\ orders[o].rev \in Nat
    BY <1>3, <2>1, OrderNumbers
  <2>3. orders[o].status # "open"
    BY <1>1, <1>3, <2>1, <2>2
  <2> QED BY <2>2, <2>3, OrderNumbers
<1> HIDE DEF old
<1>6. SumOver(Exposures(orders), old) = q.delivered
  <2>1. SumOver(Fills(orders), old) = SumOver(Exposures(orders), old)
    BY <1>4, <1>5, SumOverEqual
  <2> QED BY <1>2, <2>1 DEF Delivered, old
<1>7. CASE OrdersOf(i, q.rev) = {}
  <2>1. AllOrdersOf(i) = old
    <3> SUFFICES ASSUME NEW o \in AllOrdersOf(i) PROVE o \in old
      BY <1>4
    <3>1. orders[o].rev # q.rev
      BY <1>7 DEF OrdersOf, AllOrdersOf
    <3>2. orders[o].rev \in Nat /\ orders[o].rev <= q.rev
      BY <1>3, OrderNumbers
    <3> QED BY <1>1, <3>1, <3>2 DEF old, OlderOrders
  <2> QED BY <1>1, <1>2, <1>6, <2>1, QtyAssumption DEF Exposed
<1>8. ASSUME NEW c \in OrdersOf(i, q.rev) PROVE Exposed(i) <= Qty
  <2>1. c \in AllOrdersOf(i) /\ c \in Oids /\ orders[c] # NoOrder /\ orders[c].rev = q.rev
    BY DEF OrdersOf, AllOrdersOf
  <2>2. \A o \in AllOrdersOf(i) : orders[o].rev = q.rev => o = c
    BY <2>1 DEF VInv, IdsUsedOnce, AllOrdersOf
  <2>3. c \notin old
    BY <1>1, <2>1 DEF old, OlderOrders
  <2>4. AllOrdersOf(i) = old \cup {c}
    <3> SUFFICES ASSUME NEW o \in AllOrdersOf(i), o # c PROVE o \in old
      BY <1>4, <2>1
    <3>1. orders[o].rev # q.rev
      BY <2>2
    <3>2. orders[o].rev \in Nat /\ orders[o].rev <= q.rev
      BY <1>3, OrderNumbers
    <3> QED BY <1>1, <3>1, <3>2 DEF old, OlderOrders
  <2>5. \A o \in old \cup {c} : Exposures(orders)[o] \in Int
    BY <1>3, <2>4, OrderNumbers
  <2>6. Exposed(i) = q.delivered + Exposures(orders)[c]
    BY <1>4, <1>6, <2>3, <2>4, <2>5, SumOverInsert DEF Exposed
  <2>7. Exposures(orders)[c] \in Nat /\ Exposures(orders)[c] <= orders[c].qty /\ orders[c].qty = q.qty
    BY <1>2, <2>1, OrderNumbers
  <2> QED BY <1>1, <1>2, <2>6, <2>7, QtyAssumption
<1> QED BY <1>7, <1>8

\* So a step has to be judged only by the records it leaves, and the intents it
\* leaves without one.
LEMMA LedgerStep ==
  ASSUME TInv', VInv', Ledger, SnapshotsCount', OrdersFinite', AllBalanced',
         \A i \in Intents : queue'[i] = NoRec => Exposed(i)' = Exposed(i)
  PROVE  Ledger'
<1>0. (TInv /\ VInv /\ OrdersFinite /\ AllBalanced)' => (\A i \in Queued : Exposed(i) <= Qty)'
  BY Within, PTL
<1>1. \A i \in Queued' : Exposed(i)' <= Qty
  BY <1>0
<1>2. \A i \in Intents : Exposed(i)' <= Qty
  BY <1>1 DEF Ledger, Queued
<1> QED BY <1>2 DEF Ledger

--------------------------------------------------------------------------------
(* Steps that leave the venue alone *)

\* The record of j keeps its claim and its quantity.
SameCount(j) ==
  /\ queue[j] # NoRec /\ queue'[j] # NoRec
  /\ queue'[j].token = queue[j].token /\ queue'[j].rev = queue[j].rev
  /\ queue'[j].qty = queue[j].qty

\* Process b's snapshot of j is dropped, taken anew, or as good as before.
Counted(b, j) ==
  \/ held'[b][j] = NoRec \/ held'[b][j] = queue'[j]
  \/ /\ held'[b][j] = held[b][j]
     /\ \/ queue'[j] = NoRec \/ queue'[j] = queue[j] \/ SameCount(j)
        \/ queue'[j].token = NoToken \/ queue'[j].token # held[b][j].token

LEMMA CountStep ==
  ASSUME SnapshotsCount, \A b \in Actors, j \in Intents : Counted(b, j)
  PROVE  SnapshotsCount'
<1> SUFFICES ASSUME NEW b \in Actors, NEW j \in Intents, Matches(j, held[b][j])'
             PROVE  queue'[j].qty = held'[b][j].qty
  BY DEF SnapshotsCount
<1>1. Counted(b, j)
  OBVIOUS
<1> QED BY <1>1 DEF Counted, SameCount, Matches, SnapshotsCount

LEMMA QuietLedger ==
  ASSUME TInv', VInv', Ledger, UNCHANGED <<orders, wire>>,
         \A i \in Intents : Balanced(i, queue'[i]),
         \A b \in Actors, j \in Intents : Counted(b, j)
  PROVE  Ledger'
<1>1. SnapshotsCount'
  BY CountStep DEF Ledger
<1>2. OrdersFinite'
  BY DEF Ledger, OrdersFinite
<1>3. \A i, rev : Delivered(i, rev)' = Delivered(i, rev) /\ OrdersOf(i, rev)' = OrdersOf(i, rev)
  BY DEF Delivered, OlderOrders, AllOrdersOf, OrdersOf
<1>4. AllBalanced'
  BY <1>3 DEF AllBalanced, Balanced
<1>5. \A i \in Intents : Exposed(i)' = Exposed(i)
  BY DEF Exposed, AllOrdersOf
<1> QED BY <1>1, <1>2, <1>4, <1>5, LedgerStep

\* A record that only changes hands, or goes.
Alike(i, q) ==
  \/ q = NoRec
  \/ queue[i] # NoRec /\ q.rev = queue[i].rev /\ q.qty = queue[i].qty
     /\ q.delivered = queue[i].delivered

LEMMA AlikeBalanced ==
  ASSUME Ledger, NEW i \in Intents, NEW q, Alike(i, q) \/ q = queue[i]
  PROVE  Balanced(i, q)
BY DEF Ledger, AllBalanced, Balanced, Alike

\* A write fenced by a claim that gives the claim up.
LEMMA FencedLedger ==
  ASSUME TInv, TInv', VInv', Ledger, UNCHANGED <<orders, wire>>,
         NEW i \in Intents, NEW s, NEW new, Write(i, s, new),
         Matches(i, s) => new = NoRec \/ (new.token = NoToken /\ Balanced(i, new)),
         \A b \in Actors, j \in Intents : held'[b][j] = held[b][j] \/ held'[b][j] = NoRec
  PROVE  Ledger'
<1>1. \A j \in Intents :
        \/ queue'[j] = queue[j]
        \/ queue'[j] = NoRec
        \/ j = i /\ queue'[j].token = NoToken /\ Balanced(j, queue'[j])
  BY DEF Write, TInv, TypeOK
<1>2. \A j \in Intents : Balanced(j, queue'[j])
  BY <1>1, AlikeBalanced DEF Alike
<1>3. \A b \in Actors, j \in Intents : Counted(b, j)
  BY <1>1 DEF Counted
<1> QED BY <1>2, <1>3, QuietLedger

--------------------------------------------------------------------------------
(* Completions of a claim *)

LEMMA CompletionsBalance ==
  ASSUME TInv, VInv, Ledger, NEW i \in Intents, NEW s, Matches(i, s)
  PROVE  /\ Balanced(i, Unclaimed(queue[i])) /\ Unclaimed(queue[i]).token = NoToken
         /\ /\ Balanced(i, Unclaimed(Ambiguous(queue[i])))
            /\ Unclaimed(Ambiguous(queue[i])).token = NoToken
         /\ \A reason \in Refusals :
              /\ Balanced(i, Unclaimed(Refused(queue[i], reason)))
              /\ Unclaimed(Refused(queue[i], reason)).token = NoToken
         /\ \A o \in OrdersOf(i, s.rev) :
              /\ Balanced(i, Unclaimed(Accepted(queue[i], o)))
              /\ Unclaimed(Accepted(queue[i], o)).token = NoToken
<1>1. queue[i] \in Records /\ queue[i] # NoRec /\ queue[i].rev = s.rev
  BY MatchedRecord DEF Matches
<1>2. Alike(i, Unclaimed(queue[i])) /\ Unclaimed(queue[i]).token = NoToken
  BY <1>1 DEF Unclaimed, Alike, Records
<1>3. Alike(i, Unclaimed(Ambiguous(queue[i]))) /\ Unclaimed(Ambiguous(queue[i])).token = NoToken
  BY <1>1 DEF Unclaimed, Ambiguous, Alike, Records
<1>4. ASSUME NEW reason \in Refusals
      PROVE  /\ Alike(i, Unclaimed(Refused(queue[i], reason)))
             /\ Unclaimed(Refused(queue[i], reason)).token = NoToken
  <2> DEFINE r == Refused(queue[i], reason)
  <2>1. r \in Records
    BY <1>1, RecordUpdates
  <2>2. r.rev = queue[i].rev /\ r.qty = queue[i].qty /\ r.delivered = queue[i].delivered
    BY <1>1 DEF Refused, Discardable, Records
  <2> HIDE DEF r
  <2>3. /\ Unclaimed(r).rev = r.rev /\ Unclaimed(r).qty = r.qty
        /\ Unclaimed(r).delivered = r.delivered /\ Unclaimed(r).token = NoToken
    BY <2>1 DEF Unclaimed, Records
  <2>4. Alike(i, Unclaimed(r)) /\ Unclaimed(r).token = NoToken
    BY <1>1, <2>2, <2>3 DEF Alike
  <2> QED BY <2>4 DEF r
<1>5. ASSUME NEW o \in OrdersOf(i, s.rev)
      PROVE  /\ Alike(i, Unclaimed(Accepted(queue[i], o)))
             /\ Unclaimed(Accepted(queue[i], o)).token = NoToken
  <2>1. orders[o].qty = queue[i].qty
    BY <1>1 DEF Ledger, AllBalanced, Balanced
  <2> QED BY <1>1, <2>1 DEF Unclaimed, Accepted, Alike, Records
<1> QED BY <1>2, <1>3, <1>4, <1>5, AlikeBalanced

\* The next revision: what the expired order filled is booked, the rest is owed.
LEMMA RevisedBalances ==
  ASSUME TInv, VInv, Ledger, NEW i \in Intents, NEW s, Matches(i, s),
         queue[i].life = "accepted", orders[queue[i].oid].status = "expired",
         orders[queue[i].oid].filled # orders[queue[i].oid].qty
  PROVE  /\ Balanced(i, Unclaimed(Revised(queue[i])))
         /\ Unclaimed(Revised(queue[i])).token = NoToken
<1> DEFINE q == queue[i]
           c == q.oid
           u == Unclaimed(Revised(q))
           old == OlderOrders(i, q.rev)
<1>1. /\ q \in Records /\ q # NoRec /\ c \in Oids /\ orders[c] # NoOrder
      /\ q.rev \in Nat /\ q.qty \in Nat /\ q.delivered \in Nat /\ i \in Queued
  BY MatchedRecord DEF Matches, Records, Queued
<1>2. orders[c].intent = i /\ orders[c].rev = q.rev
  BY <1>1 DEF VInv, TrackersMatch
<1>3. /\ orders[c].qty \in Nat /\ orders[c].filled \in Nat /\ orders[c].filled < orders[c].qty
      /\ Fills(orders)[c] = orders[c].filled
  BY <1>1, OrderNumbers
<1>4. /\ q.delivered = Delivered(i, q.rev) /\ q.delivered + q.qty <= Qty /\ orders[c].qty = q.qty
  BY <1>1, <1>2 DEF Ledger, AllBalanced, Balanced, OrdersOf
<1>5. /\ u.rev = q.rev + 1 /\ u.qty = orders[c].qty - orders[c].filled
      /\ u.delivered = q.delivered + orders[c].filled /\ u.token = NoToken
  BY <1>1 DEF Revised, Unclaimed, Records
<1>6. \A o \in AllOrdersOf(i) :
        /\ o \in Oids /\ orders[o] # NoOrder /\ orders[o].rev \in Nat /\ orders[o].rev <= q.rev
        /\ orders[o].rev = q.rev => o = c
  BY <1>1, <1>2, OrderNumbers DEF VInv, OrdersPlaced, IdsUsedOnce, AllOrdersOf
<1>7. OlderOrders(i, q.rev + 1) = old \cup {c}
  <2>1. c \in AllOrdersOf(i)
    BY <1>1, <1>2 DEF AllOrdersOf
  <2> QED BY <1>1, <1>2, <1>6, <2>1 DEF OlderOrders
<1>8. c \notin old /\ IsFiniteSet(old)
  BY <1>1, <1>2, OrdersOfFinite DEF OlderOrders, Ledger
<1>9. \A o \in old \cup {c} : Fills(orders)[o] \in Int
  BY <1>1, <1>6, OrderNumbers DEF OlderOrders
<1> HIDE DEF u, old
<1>10. Delivered(i, q.rev + 1) = q.delivered + orders[c].filled
  BY <1>3, <1>4, <1>7, <1>8, <1>9, SumOverInsert DEF Delivered, old
<1>11. OrdersOf(i, q.rev + 1) = {} /\ \A m \in wire : m.intent # i
  <2>1. OrdersOf(i, q.rev + 1) = {}
    BY <1>1, <1>6 DEF OrdersOf, AllOrdersOf
  <2>2. \A m \in wire : m.intent # i
    BY <1>1 DEF VInv, WireTracked, PossiblySubmitted
  <2> QED BY <2>1, <2>2
<1>12. Balanced(i, u)
  BY <1>1, <1>3, <1>4, <1>5, <1>10, <1>11, QtyAssumption DEF Balanced
<1> QED BY <1>5, <1>12 DEF u

LEMMA ResumeLedger ==
  ASSUME TInv, TInv', VInv', Ledger, UNCHANGED <<orders, wire>>,
         NEW a \in Actors, stage[a] \in WithSnapshot, Resume(a),
         NEW new, Write(job[a], held[a][job[a]], new),
         Matches(job[a], held[a][job[a]]) =>
           new = NoRec \/ (new.token = NoToken /\ Balanced(job[a], new))
  PROVE  Ledger'
<1>1. job[a] \in Intents /\ held \in [Actors -> [Intents -> Records \cup {NoRec}]]
  BY DEF TInv, TypeOK, JobHeld
<1>2. \A b \in Actors, j \in Intents : held'[b][j] = held[b][j] \/ held'[b][j] = NoRec
  BY <1>1 DEF Resume
<1> QED BY <1>1, <1>2, FencedLedger

LEMMA RefuseLateLedger ==
  ASSUME TInv, TInv', VInv, VInv', Ledger, NEW a \in Actors, RefuseLate(a)
  PROVE  Ledger'
<1> DEFINE i == job[a]
           s == held[a][i]
<1>1. i \in Intents /\ stage[a] \in WithSnapshot /\ UNCHANGED <<orders, wire>> /\ Resume(a)
  BY DEF RefuseLate, TInv, JobHeld, WithSnapshot
<1>2. CASE Write(i, s, NoRec)
  BY <1>1, <1>2, ResumeLedger
<1>3. ASSUME NEW reason \in Refusals, Write(i, s, Unclaimed(Refused(queue[i], reason)))
      PROVE  Ledger'
  BY <1>1, <1>3, CompletionsBalance, ResumeLedger
<1> QED BY <1>2, <1>3 DEF RefuseLate

LEMMA ReturnAcceptedLedger ==
  ASSUME TInv, TInv', VInv, VInv', Ledger, NEW a \in Actors, ReturnAccepted(a)
  PROVE  Ledger'
<1> DEFINE i == job[a]
           s == held[a][i]
<1>1. /\ i \in Intents /\ stage[a] \in WithSnapshot /\ UNCHANGED <<orders, wire>> /\ Resume(a)
      /\ Write(i, s, Unclaimed(Accepted(queue[i], answer[a])))
  BY DEF ReturnAccepted, TInv, JobHeld, WithSnapshot
<1>2. answer[a] \in OrdersOf(i, s.rev)
  BY DEF ReturnAccepted, VInv, AnswersMatch, TInv, TypeOK, AcceptedHasOrder, OrdersOf
<1> QED BY <1>1, <1>2, CompletionsBalance, ResumeLedger

LEMMA ReturnUnknownLedger ==
  ASSUME TInv, TInv', VInv, VInv', Ledger, NEW a \in Actors, ReturnUnknown(a)
  PROVE  Ledger'
<1> DEFINE i == job[a]
           s == held[a][i]
<1>1. i \in Intents /\ stage[a] \in WithSnapshot /\ UNCHANGED <<orders, wire>>
  BY DEF ReturnUnknown, TInv, JobHeld, WithSnapshot
<1>2. CASE a \in Producers
  <2>1. Write(i, s, Unclaimed(Ambiguous(queue[i]))) /\ Resume(a)
    BY <1>2 DEF ReturnUnknown
  <2> QED BY <1>1, <2>1, CompletionsBalance, ResumeLedger
<1>3. CASE a \notin Producers
  <2>1. UNCHANGED <<queue, held>>
    BY <1>3 DEF ReturnUnknown
  <2> QED BY <1>1, <2>1, AlikeBalanced, QuietLedger DEF Counted
<1> QED BY <1>2, <1>3

LEMMA LookupAfterLedger ==
  ASSUME TInv, TInv', VInv, VInv', Ledger, NEW w \in Workers, LookupAfter(w)
  PROVE  Ledger'
<1> DEFINE i == job[w]
           s == held[w][i]
<1>1. i \in Intents /\ stage[w] \in WithSnapshot /\ UNCHANGED <<orders, wire>> /\ Resume(w)
  BY DEF LookupAfter, TInv, JobHeld, WithSnapshot
<1>2. ASSUME NEW o \in OrdersOf(i, s.rev), Write(i, s, Unclaimed(Accepted(queue[i], o)))
      PROVE  Ledger'
  BY <1>1, <1>2, CompletionsBalance, ResumeLedger
<1>3. CASE Write(i, s, Unclaimed(Ambiguous(queue[i])))
  BY <1>1, <1>3, CompletionsBalance, ResumeLedger
<1> QED BY <1>2, <1>3 DEF LookupAfter

\* A worker completes one claim of its pass and drops its snapshot.
LEMMA DropLedger ==
  ASSUME TInv, TInv', VInv', Ledger, UNCHANGED <<orders, wire>>,
         NEW w \in Workers, NEW i \in Intents, Drop(w, i), NEW new, Write(i, held[w][i], new),
         Matches(i, held[w][i]) => new = NoRec \/ (new.token = NoToken /\ Balanced(i, new))
  PROVE  Ledger'
<1>1. \A b \in Actors, j \in Intents : held'[b][j] = held[b][j] \/ held'[b][j] = NoRec
  BY DEF TInv, TypeOK, Drop
<1> QED BY <1>1, FencedLedger

LEMMA ReleaseLedger ==
  ASSUME TInv, TInv', VInv, VInv', Ledger, UNCHANGED <<orders, wire>>,
         NEW w \in Workers, NEW i \in Intents, Release(w, i)
  PROVE  Ledger'
BY CompletionsBalance, DropLedger DEF Release

LEMMA LookupFoundLedger ==
  ASSUME TInv, TInv', VInv, VInv', Ledger, NEW w \in Workers, NEW i \in Intents, LookupFound(w, i)
  PROVE  Ledger'
<1>1. PICK o \in OrdersOf(i, held[w][i].rev) :
        Write(i, held[w][i], Unclaimed(Accepted(queue[i], o)))
  BY DEF LookupFound
<1> QED BY <1>1, CompletionsBalance, DropLedger DEF LookupFound

LEMMA SettleOrderLedger ==
  ASSUME TInv, TInv', VInv, VInv', Ledger, NEW w \in Workers, NEW i \in Intents, SettleOrder(w, i)
  PROVE  Ledger'
<1> DEFINE s == held[w][i]
           o == orders[s.oid]
           rest == IF o.filled = o.qty THEN NoRec ELSE Unclaimed(Revised(queue[i]))
<1>1. UNCHANGED <<orders, wire>> /\ Drop(w, i) /\ s.life = "accepted"
  BY DEF SettleOrder
<1>2. ASSUME Matches(i, s), o.status = "expired"
      PROVE  rest = NoRec \/ (rest.token = NoToken /\ Balanced(i, rest))
  <2>1. queue[i].life = "accepted" /\ queue[i].oid = s.oid
    BY <1>1, <1>2 DEF TInv, SnapshotsAgree
  <2> QED BY <1>2, <2>1, RevisedBalances
<1>3. CASE o.status \in {"closed", "canceled"} /\ Write(i, s, NoRec)
  BY <1>1, <1>3, DropLedger
<1>4. CASE o.status = "expired" /\ Write(i, s, rest)
  BY <1>1, <1>2, <1>4, DropLedger
<1> QED BY <1>3, <1>4 DEF SettleOrder

LEMMA AdoptLiveLedger ==
  ASSUME TInv, TInv', VInv, VInv', Ledger, NEW w \in Workers, NEW i \in Intents, AdoptLive(w, i)
  PROVE  Ledger'
<1>1. PICK o \in OrdersOf(i, seen[w][i].rev) :
        Write(i, seen[w][i], Unclaimed(Accepted(queue[i], o)))
  BY DEF AdoptLive
<1>2. UNCHANGED <<orders, wire, held>>
  BY DEF AdoptLive
<1> QED BY <1>1, <1>2, CompletionsBalance, FencedLedger

--------------------------------------------------------------------------------
(* Steps that write no quantity *)

LEMMA StillLedger ==
  ASSUME TInv', VInv', Ledger, UNCHANGED <<queue, orders, wire>>,
         \A b \in Actors, j \in Intents : held'[b][j] = held[b][j] \/ held'[b][j] = NoRec
  PROVE  Ledger'
<1>1. \A j \in Intents : Balanced(j, queue'[j])
  BY DEF Ledger, AllBalanced
<1>2. \A b \in Actors, j \in Intents : Counted(b, j)
  BY DEF Counted
<1> QED BY <1>1, <1>2, QuietLedger

\* Records change hands or lose their lease, or go.
LEMMA KeptLedger ==
  ASSUME TInv', VInv', Ledger, UNCHANGED <<orders, wire>>,
         \A b \in Actors, j \in Intents : held'[b][j] = held[b][j] \/ held'[b][j] = NoRec,
         \A j \in Intents :
           \/ queue'[j] = queue[j] \/ queue'[j] = NoRec
           \/ SameCount(j) /\ queue'[j].delivered = queue[j].delivered
  PROVE  Ledger'
<1>1. \A j \in Intents : Balanced(j, queue'[j])
  BY AlikeBalanced DEF Alike, SameCount
<1>2. \A b \in Actors, j \in Intents : Counted(b, j)
  BY DEF Counted
<1> QED BY <1>1, <1>2, QuietLedger

LEMMA ForgetLedger ==
  ASSUME TInv', VInv', Ledger, UNCHANGED <<queue, orders, wire>>, TInv, NEW a \in Actors, Forget(a)
  PROVE  Ledger'
<1>1. \A b \in Actors, j \in Intents : held'[b][j] = held[b][j] \/ held'[b][j] = NoRec
  BY DEF Forget, NoneHeld, TInv, TypeOK
<1> QED BY <1>1, StillLedger

LEMMA CrashLedger ==
  ASSUME TInv, TInv', VInv', Ledger, NEW a \in Actors, Crash(a)
  PROVE  Ledger'
<1>1. UNCHANGED <<orders, wire>>
  BY DEF Crash
<1>2. \A b \in Actors, j \in Intents : held'[b][j] = held[b][j] \/ held'[b][j] = NoRec
  BY DEF Crash, Forget, NoneHeld, TInv, TypeOK
<1>3. ASSUME NEW j \in Intents
      PROVE  \/ queue'[j] = queue[j]
             \/ SameCount(j) /\ queue'[j].delivered = queue[j].delivered
  <2>1. CASE j \in Queued /\ queue[j].owner = a
    <3>1. queue'[j] = [queue[j] EXCEPT !.owner = Nobody]
      BY <2>1 DEF Crash
    <3>2. queue[j] \in Records /\ queue[j] # NoRec
      BY <2>1 DEF Queued, TInv, TypeOK
    <3>3. /\ queue'[j].token = queue[j].token /\ queue'[j].rev = queue[j].rev
          /\ queue'[j].qty = queue[j].qty /\ queue'[j].delivered = queue[j].delivered
          /\ queue'[j] \in Records
      BY <3>1, <3>2 DEF Records
    <3> QED BY <3>2, <3>3, NullsAssumption DEF SameCount
  <2>2. CASE ~(j \in Queued /\ queue[j].owner = a)
    BY <2>2 DEF Crash
  <2> QED BY <2>1, <2>2
<1> QED BY <1>1, <1>2, <1>3, KeptLedger

LEMMA LapseLedger ==
  ASSUME TInv, TInv', VInv', Ledger, NEW i \in Intents, Lapse(i)
  PROVE  Ledger'
<1>1. UNCHANGED <<orders, wire, held>> /\ queue[i] # NoRec /\ queue[i] \in Records
      /\ queue' = [queue EXCEPT ![i].live = FALSE] /\ queue \in [Intents -> Records \cup {NoRec}]
  BY DEF Lapse, Queued, TInv, TypeOK
<1>2. /\ queue'[i] = [queue[i] EXCEPT !.live = FALSE]
      /\ \A j \in Intents \ {i} : queue'[j] = queue[j]
  BY <1>1
<1>3. /\ queue'[i].token = queue[i].token /\ queue'[i].rev = queue[i].rev
      /\ queue'[i].qty = queue[i].qty /\ queue'[i].delivered = queue[i].delivered
      /\ queue'[i] \in Records
  BY <1>1, <1>2 DEF Records
<1>4. SameCount(i)
  BY <1>1, <1>3, NullsAssumption DEF SameCount
<1> QED BY <1>1, <1>2, <1>3, <1>4, KeptLedger

LEMMA PurgeLedger ==
  ASSUME TInv, TInv', VInv', Ledger,
         \/ \E w \in Workers, i \in Intents : Expire(w, i)
         \/ \E w \in Workers : Consolidate(w)
         \/ \E i \in Intents : ResolveAccepted(i)
  PROVE  Ledger'
<1>1. UNCHANGED <<orders, wire, held>>
  BY DEF Expire, Consolidate, ResolveAccepted
<1>2. \A j \in Intents : queue'[j] = queue[j] \/ queue'[j] = NoRec
  BY DEF Expire, Consolidate, ResolveAccepted, TInv, TypeOK
<1> QED BY <1>1, <1>2, KeptLedger

--------------------------------------------------------------------------------
(* Leases and quantities taken under a lease *)

LEMMA ClaimLedger ==
  ASSUME TInv, TInv', VInv', Ledger, NEW w \in Workers, Claim(w)
  PROVE  Ledger'
<1> DEFINE got == {i \in plan[w] \cap Queued : ~queue[i].live}
           leased(t, i) == [queue[i] EXCEPT !.token = t, !.live = TRUE]
<1>1. PICK t \in Tokens :
        /\ FreshToken(t)
        /\ queue' = [i \in Intents |-> IF i \in got THEN leased(t, i) ELSE queue[i]]
        /\ held' = [held EXCEPT ![w] = [i \in Intents |-> IF i \in got THEN leased(t, i) ELSE NoRec]]
  BY DEF Claim
<1>2. UNCHANGED <<orders, wire>> /\ held \in [Actors -> [Intents -> Records \cup {NoRec}]]
  BY DEF Claim, TInv, TypeOK
<1>3. \A i \in got : queue[i] # NoRec /\ queue[i] \in Records
  BY DEF Queued, TInv, TypeOK
<1>4. \A i \in got : /\ leased(t, i).token = t /\ leased(t, i).rev = queue[i].rev
                     /\ leased(t, i).qty = queue[i].qty /\ leased(t, i).delivered = queue[i].delivered
  BY <1>3 DEF Records
<1> HIDE DEF got, leased
<1>5. \A i \in Intents :
        /\ i \in got => queue'[i] = leased(t, i) /\ held'[w][i] = queue'[i]
        /\ i \notin got => queue'[i] = queue[i] /\ held'[w][i] = NoRec
        /\ \A b \in Actors \ {w} : held'[b][i] = held[b][i]
  BY <1>1, <1>2
<1>6. \A i \in Intents : Balanced(i, queue'[i])
  BY <1>3, <1>4, <1>5, AlikeBalanced DEF Alike
<1>7. ASSUME NEW b \in Actors, NEW i \in Intents
      PROVE  Counted(b, i)
  <2>1. CASE b = w
    BY <1>5, <2>1 DEF Counted
  <2>2. held[b][i] # NoRec => held[b][i].token # t
    BY <1>1 DEF FreshToken, Unused
  <2>3. CASE b # w
    BY <1>4, <1>5, <2>2, <2>3 DEF Counted
  <2> QED BY <2>1, <2>3
<1> QED BY <1>2, <1>6, <1>7, QuietLedger

\* A fence may scale the quantity down: nothing was submitted under it yet.
LEMMA FenceLedger ==
  ASSUME TInv, TInv', DInv, VInv, VInv', Ledger, UNCHANGED <<orders, wire>>,
         NEW a \in Actors, stage[a] \in {"claimed", "looked", "begun"},
         Matches(job[a], held[a][job[a]]), NEW r \in Records,
         r.token = queue[job[a]].token, r.rev = queue[job[a]].rev,
         r.qty \in 1..queue[job[a]].qty, r.delivered = queue[job[a]].delivered,
         queue' = [queue EXCEPT ![job[a]] = r], held' = [held EXCEPT ![a][job[a]] = r]
  PROVE  Ledger'
<1> DEFINE i == job[a]
<1>1. /\ i \in Intents /\ queue[i] # NoRec /\ queue[i] \in Records /\ held[a][i] # NoRec
      /\ queue[i].rev = held[a][i].rev /\ queue[i].token = held[a][i].token
      /\ queue \in [Intents -> Records \cup {NoRec}]
      /\ held \in [Actors -> [Intents -> Records \cup {NoRec}]]
  BY DEF TInv, TypeOK, JobHeld, WithSnapshot, Matches
<1>2. /\ queue'[i] = r /\ held'[a][i] = r
      /\ \A j \in Intents : j # i => queue'[j] = queue[j] /\ held'[a][j] = held[a][j]
      /\ \A b \in Actors \ {a}, j \in Intents : held'[b][j] = held[b][j]
  BY <1>1
<1>3. Untraced(i, queue[i].rev)
  BY <1>1 DEF VInv, ClaimsUnsent
<1>4. OrdersOf(i, queue[i].rev) = {} /\ \A m \in wire : m.intent # i
  <2>1. \A m \in wire : m.intent = i => m.rev = queue[i].rev
    BY DEF VInv, WireTracked
  <2> QED BY <1>3, <2>1 DEF Untraced, OnWire
<1>5. Balanced(i, r)
  <2>1. /\ queue[i].delivered = Delivered(i, queue[i].rev)
        /\ queue[i].delivered + queue[i].qty <= Qty
    BY <1>1 DEF Ledger, AllBalanced, Balanced
  <2>2. /\ r.qty \in Nat /\ r.qty >= 1 /\ r.qty <= queue[i].qty
        /\ queue[i].qty \in Nat /\ queue[i].delivered \in Nat
    BY <1>1 DEF Records
  <2> QED BY <1>4, <2>1, <2>2, QtyAssumption DEF Balanced
<1>6. \A j \in Intents : Balanced(j, queue'[j])
  BY <1>2, <1>5, AlikeBalanced
<1>7. ASSUME NEW b \in Actors, NEW j \in Intents
      PROVE  Counted(b, j)
  <2>1. CASE b = a \/ j # i
    BY <1>2, <2>1 DEF Counted
  <2>2. CASE b # a /\ j = i
    <3>1. held[b][i] # NoRec => held[b][i].token # queue[i].token
      BY <1>1, <2>2 DEF DInv, TokensDistinct
    <3> QED BY <1>2, <2>2, <3>1 DEF Counted
  <2> QED BY <2>1, <2>2
<1> QED BY <1>6, <1>7, QuietLedger

LEMMA FenceLostLedger ==
  ASSUME TInv, TInv', VInv', Ledger, UNCHANGED <<queue, orders, wire>>, NEW a \in Actors, Resume(a)
  PROVE  Ledger'
<1>1. \A b \in Actors, j \in Intents : held'[b][j] = held[b][j] \/ held'[b][j] = NoRec
  BY DEF Resume, TInv, TypeOK
<1> QED BY <1>1, StillLedger

LEMMA BeginProducerLedger ==
  ASSUME TInv, TInv', DInv, VInv, VInv', Ledger, NEW p \in Producers, BeginProducer(p)
  PROVE  Ledger'
<1> DEFINE i == job[p]
<1>0. i \in Intents /\ stage[p] = "claimed" /\ UNCHANGED <<orders, wire>>
  BY DEF TInv, JobHeld, BeginProducer, WithSnapshot
<1>1. CASE Matches(i, held[p][i])
  <2>1. PICK q \in 1..queue[i].qty :
          LET r == [Begun(queue[i], p, q) EXCEPT !.live = TRUE]
          IN  queue' = [queue EXCEPT ![i] = r] /\ held' = [held EXCEPT ![p][i] = r]
    BY <1>1 DEF BeginProducer
  <2> DEFINE b == Begun(queue[i], p, q)
             r == [b EXCEPT !.live = TRUE]
  <2>2. queue[i] \in Records /\ q \in Nat
    BY <1>0, <1>1, MatchedRecord DEF Records
  <2>3. b \in Records
    BY <2>2, BegunRecord
  <2>4. b.token = queue[i].token /\ b.rev = queue[i].rev /\ b.qty = q
        /\ b.delivered = queue[i].delivered
    BY <2>2 DEF Begun, Records
  <2>5. r \in Records /\ r.token = queue[i].token /\ r.rev = queue[i].rev /\ r.qty = q
        /\ r.delivered = queue[i].delivered
    <3> HIDE DEF b
    <3> QED BY <2>3, <2>4 DEF Records
  <2>6. queue' = [queue EXCEPT ![i] = r] /\ held' = [held EXCEPT ![p][i] = r]
    BY <2>1
  <2> HIDE DEF b, r
  <2> QED BY <1>0, <1>1, <2>5, <2>6, FenceLedger
<1>2. CASE ~Matches(i, held[p][i])
  BY <1>0, <1>2, FenceLostLedger DEF BeginProducer
<1> QED BY <1>1, <1>2

LEMMA BeginWorkerLedger ==
  ASSUME TInv, TInv', DInv, VInv, VInv', Ledger, NEW w \in Workers, BeginWorker(w)
  PROVE  Ledger'
<1> DEFINE i == job[w]
           r == Begun(queue[i], w, queue[i].qty)
<1>0. i \in Intents /\ stage[w] = "looked" /\ UNCHANGED <<orders, wire>>
  BY DEF TInv, JobHeld, BeginWorker, WithSnapshot
<1>1. CASE Matches(i, held[w][i])
  <2>1. queue[i] \in Records /\ queue[i].qty \in Nat /\ queue[i] # NoRec
    BY <1>0, <1>1, MatchedRecord DEF Records, Matches
  <2>2. queue[i].qty \in 1..queue[i].qty
    BY <1>0, <2>1 DEF Ledger, AllBalanced, Balanced
  <2>3. r \in Records
    BY <2>1, BegunRecord
  <2>4. r.token = queue[i].token /\ r.rev = queue[i].rev /\ r.qty = queue[i].qty
        /\ r.delivered = queue[i].delivered
    BY <2>1 DEF Begun, Records
  <2>5. queue' = [queue EXCEPT ![i] = r] /\ held' = [held EXCEPT ![w][i] = r]
    BY <1>1 DEF BeginWorker
  <2> HIDE DEF r
  <2> QED BY <1>0, <1>1, <2>2, <2>3, <2>4, <2>5, FenceLedger
<1>2. CASE ~Matches(i, held[w][i])
  BY <1>0, <1>2, FenceLostLedger DEF BeginWorker
<1> QED BY <1>1, <1>2

LEMMA SyncQtyLedger ==
  ASSUME TInv, TInv', DInv, VInv, VInv', Ledger, NEW w \in Workers, SyncQty(w)
  PROVE  Ledger'
<1> DEFINE i == job[w]
<1>0. i \in Intents /\ stage[w] = "begun" /\ UNCHANGED <<orders, wire>>
  BY DEF TInv, JobHeld, SyncQty, WithSnapshot
<1>1. CASE Matches(i, held[w][i])
  <2>1. PICK q \in 1..queue[i].qty :
          LET r == [queue[i] EXCEPT !.qty = q]
          IN  queue' = [queue EXCEPT ![i] = r] /\ held' = [held EXCEPT ![w][i] = r]
    BY <1>1 DEF SyncQty
  <2> DEFINE r == [queue[i] EXCEPT !.qty = q]
  <2>2. queue[i] \in Records /\ q \in Nat
    BY <1>0, <1>1, MatchedRecord DEF Records
  <2>3. r \in Records /\ r.token = queue[i].token /\ r.rev = queue[i].rev /\ r.qty = q
        /\ r.delivered = queue[i].delivered
    BY <2>2 DEF Records
  <2>4. queue' = [queue EXCEPT ![i] = r] /\ held' = [held EXCEPT ![w][i] = r]
    BY <2>1
  <2> HIDE DEF r
  <2> QED BY <1>0, <1>1, <2>3, <2>4, FenceLedger
<1>2. CASE ~Matches(i, held[w][i])
  BY <1>0, <1>2, FenceLostLedger DEF SyncQty
<1> QED BY <1>1, <1>2

--------------------------------------------------------------------------------
(* New records *)

\* A record enqueued first owes the whole quantity, and nothing has been ordered.
LEMMA NewBalanced ==
  ASSUME TInv, DInv, VInv, NEW i \in Intents, Unplaced(i), NEW r,
         r.rev = 0, r.qty = Qty, r.delivered = 0
  PROVE  Balanced(i, r)
<1>1. queue[i] = NoRec /\ \A rev : Untraced(i, rev)
  BY NewFollows
<1>2. AllOrdersOf(i) = {}
  BY DEF VInv, OrdersPlaced, AllOrdersOf
<1>3. OlderOrders(i, 0) = {} /\ OrdersOf(i, 0) = {}
  BY <1>2 DEF OlderOrders, OrdersOf, AllOrdersOf
<1>4. Delivered(i, 0) = 0
  BY <1>3, SumOverEmpty DEF Delivered
<1>5. \A m \in wire : m.intent # i
  BY <1>1 DEF VInv, WireTracked
<1> QED BY <1>3, <1>4, <1>5, QtyAssumption DEF Balanced

LEMMA EnqueueLedger ==
  ASSUME TInv, TInv', DInv, VInv, VInv', Ledger, UNCHANGED <<orders, wire>>,
         NEW i \in Intents, Unplaced(i), queue'[i] = NoRec \/ Balanced(i, queue'[i]),
         \A j \in Intents \ {i} :
           \/ queue'[j] = queue[j]
           \/ queue'[j] = NoRec /\ queue[j] # NoRec /\ Evictable(queue[j]),
         \A b \in Actors, j \in Intents : held'[b][j] = held[b][j] \/ held'[b][j] = queue'[j]
  PROVE  Ledger'
<1>1. \A b \in Actors : held[b][i] = NoRec
  BY NewFollows
<1>2. Balanced(i, NoRec)
  BY DEF Balanced
<1>3. \A j \in Intents : Balanced(j, queue'[j])
  BY <1>2, AlikeBalanced DEF Alike
<1>4. \A b \in Actors, j \in Intents : Counted(b, j)
  BY <1>1 DEF Counted
<1> QED BY <1>3, <1>4, QuietLedger

LEMMA PersistLedger ==
  ASSUME TInv, TInv', DInv, VInv, VInv', Ledger, NEW p \in Producers, NEW i \in Intents, Persist(p, i)
  PROVE  Ledger'
<1>1. PICK t \in Tokens :
        LET r == NewRecord("producer_claimed", "pending", FALSE, t, p)
        IN  Admit(queue, i, r) /\ held' = [held EXCEPT ![p][i] = r]
  BY DEF Persist
<1> DEFINE r == NewRecord("producer_claimed", "pending", FALSE, t, p)
<1>2. r.rev = 0 /\ r.qty = Qty /\ r.delivered = 0
  BY DEF NewRecord
<1> HIDE DEF r
<1>3. Admit(queue, i, r) /\ held' = [held EXCEPT ![p][i] = r]
  BY <1>1 DEF r
<1>4. /\ queue \in [Intents -> Records \cup {NoRec}]
      /\ held \in [Actors -> [Intents -> Records \cup {NoRec}]]
      /\ i \in todo /\ UNCHANGED <<orders, wire>>
  BY DEF TInv, TypeOK, Persist
<1>5. /\ queue'[i] = r
      /\ \A j \in Intents \ {i} :
           \/ queue'[j] = queue[j]
           \/ queue'[j] = NoRec /\ queue[j] # NoRec /\ Evictable(queue[j])
  BY <1>3, <1>4, AdmitSpares
<1>6. Unplaced(i)
  BY <1>4 DEF Unplaced
<1>7. Balanced(i, r)
  BY <1>2, <1>6, NewBalanced
<1>8. \A b \in Actors, j \in Intents : held'[b][j] = held[b][j] \/ held'[b][j] = queue'[j]
  BY <1>3, <1>4, <1>5
<1> QED BY <1>4, <1>5, <1>6, <1>7, <1>8, EnqueueLedger

LEMMA EnqueueRefusedLedger ==
  ASSUME TInv, TInv', DInv, VInv, VInv', Ledger, NEW p \in Producers, EnqueueRefused(p)
  PROVE  Ledger'
<1> DEFINE i == job[p]
           gone == IF why[p] \in Consolidated THEN Superseded(i) ELSE {}
           q == [j \in Intents |-> IF j \in gone THEN NoRec ELSE queue[j]]
           r == NewRecord("none", why[p], why[p] \in Deferrals \cup Consolidated, NoToken, Nobody)
<1>1. /\ i \in Intents /\ queue \in [Intents -> Records \cup {NoRec}]
      /\ stage[p] = "refused" /\ UNCHANGED <<orders, wire, held>>
  BY DEF TInv, TypeOK, JobHeld, EnqueueRefused
<1>2. /\ q \in [Intents -> Records \cup {NoRec}]
      /\ \A j \in Intents :
           \/ q[j] = queue[j]
           \/ q[j] = NoRec /\ queue[j] # NoRec /\ Evictable(queue[j])
  BY <1>1 DEF Superseded, Queued
<1>3. r.rev = 0 /\ r.qty = Qty /\ r.delivered = 0
  BY DEF NewRecord
<1>4. Unplaced(i)
  BY <1>1 DEF Unplaced
<1> HIDE DEF q, r
<1>5. /\ queue'[i] = NoRec \/ queue'[i] = r
      /\ \A j \in Intents \ {i} :
           \/ queue'[j] = queue[j]
           \/ queue'[j] = NoRec /\ queue[j] # NoRec /\ Evictable(queue[j])
  <2>1. CASE Admit(q, i, r)
    BY <1>1, <1>2, <2>1, AdmitSpares
  <2>2. CASE queue' = queue
    BY <1>1, <1>4, <2>2, NewFollows
  <2> QED BY <2>1, <2>2 DEF EnqueueRefused, q, r
<1>6. Balanced(i, r)
  BY <1>1, <1>3, <1>4, NewBalanced
<1> QED BY <1>1, <1>4, <1>5, <1>6, EnqueueLedger

--------------------------------------------------------------------------------
(* The submit, and the venue's own steps *)

LEMMA SendLedger ==
  ASSUME TInv, TInv', VInv, VInv', Ledger, NEW a \in Actors, Send(a)
  PROVE  Ledger'
<1> DEFINE i == job[a]
           s == held[a][i]
           m == [by |-> a, intent |-> i, rev |-> s.rev, qty |-> s.qty]
<1>1. /\ wire' = wire \cup {m} /\ stage[a] = "cleared"
      /\ UNCHANGED <<queue, held, orders>>
  BY DEF Send
<1>2. i \in Intents /\ Matches(i, s)
  BY <1>1 DEF TInv, JobHeld, WithSnapshot, VInv, ClaimsHold
<1>3. s.qty = queue[i].qty
  BY <1>2 DEF Ledger, SnapshotsCount
<1>4. m.intent = i /\ m.qty = queue[i].qty
  BY <1>3
<1> HIDE DEF m
<1>5. SnapshotsCount' /\ OrdersFinite'
  BY <1>1 DEF Ledger, SnapshotsCount, Matches, OrdersFinite
<1>6. \A j, rev : Delivered(j, rev)' = Delivered(j, rev) /\ OrdersOf(j, rev)' = OrdersOf(j, rev)
  BY <1>1 DEF Delivered, OlderOrders, AllOrdersOf, OrdersOf
<1>7. AllBalanced'
  BY <1>1, <1>4, <1>6 DEF Ledger, AllBalanced, Balanced
<1>8. \A j \in Intents : Exposed(j)' = Exposed(j)
  BY <1>1 DEF Exposed, AllOrdersOf
<1> QED BY <1>5, <1>7, <1>8, LedgerStep

\* Requests are lost.
LEMMA LoseLedger ==
  ASSUME TInv, TInv', VInv, VInv', Ledger, UNCHANGED <<queue, held, orders>>, wire' \subseteq wire
  PROVE  Ledger'
<1>1. SnapshotsCount' /\ OrdersFinite'
  BY DEF Ledger, SnapshotsCount, Matches, OrdersFinite
<1>2. \A j, rev : Delivered(j, rev)' = Delivered(j, rev) /\ OrdersOf(j, rev)' = OrdersOf(j, rev)
  BY DEF Delivered, OlderOrders, AllOrdersOf, OrdersOf
<1>3. AllBalanced'
  BY <1>2 DEF Ledger, AllBalanced, Balanced
<1>4. \A j \in Intents : Exposed(j)' = Exposed(j)
  BY DEF Exposed, AllOrdersOf
<1> QED BY <1>1, <1>3, <1>4, LedgerStep

\* The order of a record's own revision appears, fills or ends: nothing that is
\* booked changes.
LEMMA OrderLedger ==
  ASSUME TInv, TInv', VInv, VInv', Ledger, UNCHANGED <<queue, held>>, wire' \subseteq wire,
         NEW o \in Oids, \A p \in Oids \ {o} : orders'[p] = orders[p],
         NEW i \in Intents, queue[i] # NoRec,
         orders'[o] # NoOrder, orders'[o].intent = i, orders'[o].rev = queue[i].rev,
         orders'[o].qty = queue[i].qty,
         orders[o] = NoOrder \/ (orders[o].intent = i /\ orders[o].rev = queue[i].rev)
  PROVE  Ledger'
<1>0. queue[i].rev \in Nat
  BY DEF TInv, TypeOK, Records
<1>1. SnapshotsCount'
  BY DEF Ledger, SnapshotsCount, Matches
<1>2. OrdersFinite'
  <2> DEFINE S == {p \in Oids : orders[p] # NoOrder}
  <2>1. IsFiniteSet(S \cup {o})
    BY FS_AddElement DEF Ledger, OrdersFinite
  <2>2. {p \in Oids : orders'[p] # NoOrder} \subseteq S \cup {o}
    OBVIOUS
  <2> QED BY <2>1, <2>2, FS_Subset DEF OrdersFinite
<1>3. ASSUME NEW j \in Intents, queue[j] # NoRec
      PROVE  Delivered(j, queue[j].rev)' = Delivered(j, queue[j].rev)
  <2> DEFINE S == OlderOrders(j, queue[j].rev)
  <2>1. o \notin S /\ o \notin OlderOrders(j, queue[j].rev)'
    BY <1>0 DEF OlderOrders, AllOrdersOf
  <2>2. OlderOrders(j, queue[j].rev)' = S
    BY <2>1 DEF OlderOrders, AllOrdersOf
  <2>3. \A p \in S : Fills(orders)[p] = Fills(orders')[p]
    BY <2>1 DEF Fills, OlderOrders, AllOrdersOf
  <2>4. IsFiniteSet(S)
    BY OrdersOfFinite DEF Ledger
  <2> HIDE DEF S
  <2>5. SumOver(Fills(orders), S) = SumOver(Fills(orders'), S)
    BY <2>3, <2>4, SumOverEqual
  <2> QED BY <2>2, <2>5 DEF Delivered, S
<1>4. AllBalanced'
  <2> SUFFICES ASSUME NEW j \in Intents, queue[j] # NoRec
               PROVE  Balanced(j, queue[j])'
    BY DEF AllBalanced, Balanced
  <2>1. Balanced(j, queue[j])
    BY DEF Ledger, AllBalanced
  <2>2. \A p \in OrdersOf(j, queue[j].rev)' : orders'[p].qty = queue[j].qty
    BY <2>1 DEF OrdersOf, Balanced
  <2>3. \A m \in wire' : m.intent = j => m.qty = queue[j].qty
    BY <2>1 DEF Balanced
  <2> QED BY <1>3, <2>1, <2>2, <2>3 DEF Balanced
<1>5. ASSUME NEW j \in Intents, queue'[j] = NoRec
      PROVE  Exposed(j)' = Exposed(j)
  <2> DEFINE S == AllOrdersOf(j)
  <2>1. o \notin S /\ o \notin AllOrdersOf(j)'
    BY <1>5 DEF AllOrdersOf
  <2>2. AllOrdersOf(j)' = S
    BY <2>1 DEF AllOrdersOf
  <2>3. \A p \in S : Exposures(orders)[p] = Exposures(orders')[p]
    BY <2>1 DEF Exposures, AllOrdersOf
  <2>4. IsFiniteSet(S)
    BY OrdersOfFinite DEF Ledger
  <2> HIDE DEF S
  <2>5. SumOver(Exposures(orders), S) = SumOver(Exposures(orders'), S)
    BY <2>3, <2>4, SumOverEqual
  <2> QED BY <2>2, <2>5 DEF Exposed, S
<1> QED BY <1>1, <1>2, <1>4, <1>5, LedgerStep

LEMMA AcceptLedger ==
  ASSUME TInv, TInv', VInv, VInv', Ledger, NEW m \in wire, Accept(m)
  PROVE  Ledger'
<1>1. PICK o \in Oids :
        /\ orders[o] = NoOrder
        /\ orders' = [orders EXCEPT ![o] = [intent |-> m.intent, rev |-> m.rev, qty |-> m.qty,
                                            filled |-> 0, status |-> "open"]]
  BY DEF Accept
<1>2. /\ wire' \subseteq wire /\ UNCHANGED <<queue, held>> /\ m.intent \in Intents
      /\ orders \in [Oids -> Orders \cup {NoOrder}]
  BY DEF Accept, TInv, TypeOK, Requests
<1>3. /\ \A p \in Oids \ {o} : orders'[p] = orders[p]
      /\ orders'[o] # NoOrder /\ orders'[o].intent = m.intent /\ orders'[o].rev = m.rev
      /\ orders'[o].qty = m.qty
  BY <1>1, <1>2, NullsAssumption DEF TInv, TypeOK, Requests, Orders
<1>4. queue[m.intent] # NoRec /\ queue[m.intent].rev = m.rev /\ queue[m.intent].qty = m.qty
  BY <1>2 DEF VInv, WireTracked, Ledger, AllBalanced, Balanced
<1> QED BY <1>1, <1>2, <1>3, <1>4, OrderLedger

\* Only the order of its record's revision is still open.
LEMMA AmendLedger ==
  ASSUME TInv, TInv', VInv, VInv', Ledger, UNCHANGED <<queue, held, wire>>,
         NEW o \in Oids, Open(o), NEW r \in Orders, orders' = [orders EXCEPT ![o] = r],
         r.intent = orders[o].intent, r.rev = orders[o].rev, r.qty = orders[o].qty
  PROVE  Ledger'
<1> DEFINE i == orders[o].intent
<1>1. /\ \A p \in Oids \ {o} : orders'[p] = orders[p]
      /\ orders'[o] = r /\ orders'[o] # NoOrder
      /\ orders[o] # NoOrder /\ i \in Intents
  BY NullsAssumption DEF Open, TInv, TypeOK, Orders
<1>2. queue[i] # NoRec /\ orders[o].rev = queue[i].rev
  BY <1>1 DEF VInv, LiveOrderTracked, TrackersMatch, Queued
<1>3. orders[o].qty = queue[i].qty
  BY <1>1, <1>2 DEF Ledger, AllBalanced, Balanced, OrdersOf
<1> QED BY <1>1, <1>2, <1>3, OrderLedger

LEMMA VenueLedger ==
  ASSUME TInv, TInv', VInv, VInv', Ledger, VenueStep
  PROVE  Ledger'
<1>1. ASSUME NEW m \in wire, Lose(m)
      PROVE  Ledger'
  BY <1>1, LoseLedger DEF Lose
<1>2. ASSUME NEW o \in Oids, NEW n \in 1..Qty, Fill(o, n)
      PROVE  Ledger'
  <2> DEFINE r == [orders[o] EXCEPT !.filled = @ + n, !.status =
                     IF orders[o].filled + n = orders[o].qty THEN "closed" ELSE "open"]
  <2>1. /\ orders \in [Oids -> Orders \cup {NoOrder}] /\ orders[o] \in Orders /\ Open(o)
        /\ orders' = [orders EXCEPT ![o] = r] /\ UNCHANGED <<queue, held, wire>>
    BY <1>2 DEF Fill, Open, TInv, TypeOK
  <2>2. orders[o].filled + n \in Nat
    BY <2>1, QtyAssumption DEF Orders
  <2>3. r \in Orders
    BY <2>1, <2>2 DEF Orders
  <2>4. r.intent = orders[o].intent /\ r.rev = orders[o].rev /\ r.qty = orders[o].qty
    BY <2>1 DEF Orders
  <2> HIDE DEF r
  <2> QED BY <2>1, <2>3, <2>4, AmendLedger
<1>3. ASSUME NEW o \in Oids, CancelOrder(o) \/ ExpireOrder(o)
      PROVE  Ledger'
  <2>1. PICK st \in {"canceled", "expired"} : orders' = [orders EXCEPT ![o].status = st]
    BY <1>3 DEF CancelOrder, ExpireOrder
  <2> DEFINE r == [orders[o] EXCEPT !.status = st]
  <2>2. /\ orders[o] \in Orders /\ Open(o)
        /\ orders' = [orders EXCEPT ![o] = r] /\ UNCHANGED <<queue, held, wire>>
    BY <1>3, <2>1 DEF CancelOrder, ExpireOrder, Open, TInv, TypeOK
  <2>3. r \in Orders /\ r.intent = orders[o].intent /\ r.rev = orders[o].rev
        /\ r.qty = orders[o].qty
    BY <2>2 DEF Orders
  <2> HIDE DEF r
  <2> QED BY <2>2, <2>3, AmendLedger
<1> QED BY <1>1, <1>2, <1>3, AcceptLedger DEF VenueStep

--------------------------------------------------------------------------------
(* The invariant, and the theorems *)

LEMMA LedgerInit == Init => Ledger
<1> SUFFICES ASSUME Init
             PROVE  Ledger
  OBVIOUS
<1>1. /\ \A i \in Intents : queue[i] = NoRec
      /\ \A o \in Oids : orders[o] = NoOrder
  BY DEF Init, NoneHeld
<1>2. SnapshotsCount /\ AllBalanced
  BY <1>1 DEF SnapshotsCount, Matches, AllBalanced, Balanced
<1>3. OrdersFinite
  <2>1. {o \in Oids : orders[o] # NoOrder} = {}
    BY <1>1
  <2> QED BY <2>1, FS_EmptySet DEF OrdersFinite
<1>4. \A i \in Intents : Exposed(i) <= Qty
  <2> SUFFICES ASSUME NEW i \in Intents PROVE Exposed(i) <= Qty
    OBVIOUS
  <2>1. AllOrdersOf(i) = {}
    BY <1>1 DEF AllOrdersOf
  <2> QED BY <2>1, SumOverEmpty, QtyAssumption DEF Exposed
<1> QED BY <1>2, <1>3, <1>4 DEF Ledger

LEMMA LedgerNext ==
  ASSUME TInv, TInv', DInv, VInv, VInv', Ledger, [Next]_vars
  PROVE  Ledger'
<1>1. ASSUME NEW p \in Producers, ProducerStep(p)
      PROVE  Ledger'
  <2>1. ASSUME NEW i \in Intents, RefuseEarly(p, i)
        PROVE  Ledger'
    BY <2>1, StillLedger DEF RefuseEarly
  <2> QED BY <1>1, <2>1, PersistLedger, EnqueueRefusedLedger, BeginProducerLedger DEF ProducerStep
<1>2. ASSUME NEW w \in Workers, WorkerStep(w)
      PROVE  Ledger'
  <2>1. ASSUME NEW i \in Intents, RecordStep(w, i)
        PROVE  Ledger'
    <3>1. CASE ObserveOrder(w, i) \/ Wait(w, i)
      BY <3>1, ReleaseLedger DEF ObserveOrder, Wait
    <3>2. CASE Quarantine(w, i) \/ Clear(w, i)
      BY <3>2, StillLedger DEF Quarantine, Clear
    <3> QED BY <2>1, <3>1, <3>2, AdoptLiveLedger, SettleOrderLedger, LookupFoundLedger
            DEF RecordStep
  <2>2. CASE PassStep(w)
    <3>1. CASE EndPass(w)
      BY <3>1, StillLedger DEF EndPass
    <3> QED BY <2>1, <2>2, <3>1, ClaimLedger, BeginWorkerLedger, SyncQtyLedger, LookupAfterLedger
            DEF PassStep
  <2>3. ASSUME NEW due \in SUBSET Intents, Scan(w, due)
        PROVE  Ledger'
    BY <2>3, StillLedger DEF Scan
  <2> QED BY <1>2, <2>2, <2>3, PurgeLedger DEF WorkerStep
<1>3. ASSUME NEW a \in Actors, DispatchStep(a) \/ Abandon(a) \/ Crash(a)
      PROVE  Ledger'
  <2>1. CASE Abandon(a)
    BY <2>1, ForgetLedger DEF Abandon
  <2> QED BY <1>3, <2>1, RefuseLateLedger, SendLedger, ReturnAcceptedLedger, ReturnUnknownLedger,
             CrashLedger DEF DispatchStep
<1>4. ASSUME NEW i \in Intents, Lapse(i) \/ ResolveAccepted(i)
      PROVE  Ledger'
  BY <1>4, LapseLedger, PurgeLedger
<1>5. CASE VenueStep
  BY <1>5, VenueLedger
<1>6. CASE UNCHANGED vars
  BY <1>6, StillLedger DEF vars
<1> QED BY <1>1, <1>2, <1>3, <1>4, <1>5, <1>6 DEF Next

LEMMA LedgerInvariant ==
  ASSUME OneAtATime
  PROVE  Spec => []Ledger
<1>1. Init => TInv /\ DInv /\ VInv /\ Ledger
  BY TInvInit, DInvInit, VInvInit, LedgerInit
<1>2. TInv /\ DInv /\ VInv /\ Ledger /\ [Next]_vars => TInv' /\ DInv' /\ VInv' /\ Ledger'
  <2> SUFFICES ASSUME TInv, DInv, VInv, Ledger, [Next]_vars
               PROVE  TInv' /\ DInv' /\ VInv' /\ Ledger'
    OBVIOUS
  <2>1. TInv'
    BY TInvNext
  <2>2. DInv' /\ VInv'
    BY <2>1, DInvNext, VInvNext DEF SafeStep, VStep
  <2> QED BY <2>1, <2>2, LedgerNext
<1> QED BY <1>1, <1>2, PTL DEF Spec

\* The ledger of an intent never drifts from the venue: what its record books as
\* delivered is, to the last unit, what the orders of its earlier revisions filled,
\* and what it orders next is positive and still owed; through partial fills, fences
\* that scale a quantity down, crashes, and answers that never come.
THEOREM LedgersMatch ==
  ASSUME OneAtATime
  PROVE  Spec => []LedgerMatchesVenue
<1>1. Ledger => LedgerMatchesVenue
  BY LedgerReads DEF LInv
<1> QED BY <1>1, LedgerInvariant, PTL

\* However often an intent is looked up, refused, revised and submitted again, all
\* its orders together never buy or sell more than it asked for.
THEOREM IntentsNeverOverfilled ==
  ASSUME OneAtATime
  PROVE  Spec => []NeverOverfilled
<1>1. Ledger => NeverOverfilled
  BY LedgerReads DEF LInv
<1> QED BY <1>1, LedgerInvariant, PTL


================================================================================
