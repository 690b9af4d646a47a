--------------------------- MODULE OrderOutboxProofs ---------------------------
(***************************************************************************)
(* Theorems about OrderOutbox, for any intents, processes, tokens, venue   *)
(* and bounds that satisfy the named assumptions.                          *)
(***************************************************************************)
EXTENDS OrderOutboxInv, TLAPS

USE DEF Actors

--------------------------------------------------------------------------------
(* Operations on one record *)

\* The refusals and the loss of a claim (complete_claim) keep the record's type,
\* lifecycle and order.
LEMMA RecordUpdates ==
  ASSUME NEW r \in Records, NEW reason \in Refusals
  PROVE  /\ Unclaimed(r) \in Records /\ Unclaimed(r).token = NoToken
         /\ Unclaimed(r).life = r.life /\ Unclaimed(r).oid = r.oid
         /\ Refused(r, reason) \in Records
         /\ Refused(r, reason).life = r.life /\ Refused(r, reason).oid = r.oid
         /\ Ambiguous(r) \in Records
         /\ Ambiguous(r).life = r.life /\ Ambiguous(r).oid = r.oid
<1>1. Unclaimed(r) \in Records /\ Unclaimed(r).token = NoToken
      /\ Unclaimed(r).life = r.life /\ Unclaimed(r).oid = r.oid
  BY DEF Unclaimed, Records
<1>2. Refused(r, reason) \in Records
      /\ Refused(r, reason).life = r.life /\ Refused(r, reason).oid = r.oid
  BY ZenonT(40) DEF Refused, Discardable, VenueEvidence, Records, SubmissionStates, Reasons, Refusals
<1>3. Ambiguous(r) \in Records
      /\ Ambiguous(r).life = r.life /\ Ambiguous(r).oid = r.oid
  BY DEF Ambiguous, Records, SubmissionStates, Reasons
<1> QED BY <1>1, <1>2, <1>3

\* begin_claimed_submit keeps everything but the submission state, its owner and
\* the quantity.
LEMMA BegunRecord ==
  ASSUME NEW r \in Records, NEW a \in Actors, NEW q \in Nat
  PROVE  /\ Begun(r, a, q) \in Records
         /\ Begun(r, a, q).life = r.life /\ Begun(r, a, q).oid = r.oid
         /\ Begun(r, a, q).token = r.token /\ Begun(r, a, q).rev = r.rev
BY DEF Begun, Records, SubmissionStates

\* _apply_accepted, for an order that exists.
LEMMA AcceptedRecord ==
  ASSUME NEW r \in Records, NEW o \in Oids, orders[o] \in Orders
  PROVE  /\ Accepted(r, o) \in Records
         /\ Accepted(r, o).life = "accepted" /\ Accepted(r, o).oid = o
BY DEF Accepted, Records, SubmissionStates, Reasons, Lifecycles, Orders

\* retry_terminal: what is left of an order is never negative.
LEMMA RevisedRecord ==
  ASSUME NEW r \in Records, r.oid \in Oids, orders[r.oid] \in Orders,
         orders[r.oid].filled <= orders[r.oid].qty
  PROVE  /\ Revised(r) \in Records
         /\ Revised(r).life = "submit_pending" /\ Revised(r).rev = r.rev + 1
<1> DEFINE o == orders[r.oid]
<1>1. o.qty \in Nat /\ o.filled \in Nat /\ o.filled <= o.qty
  BY DEF Orders
<1>2. r.rev + 1 \in Nat /\ o.qty - o.filled \in Nat /\ r.delivered + o.filled \in Nat
  BY <1>1 DEF Records
<1> HIDE DEF o
<1>3. Revised(r) = [r EXCEPT !.life = "submit_pending", !.sub = "refused",
                              !.why = "terminal", !.discardable = FALSE, !.oid = NoOid,
                              !.rev = r.rev + 1, !.qty = o.qty - o.filled,
                              !.delivered = r.delivered + o.filled]
  BY DEF Revised, o
<1> QED BY <1>2, <1>3, ZenonT(40) DEF Records, SubmissionStates, Reasons, Lifecycles

--------------------------------------------------------------------------------
(* Two facts that most steps share *)

\* The record of j keeps its claim, revision, lifecycle and order.
SameClaim(j) ==
  \/ queue'[j] = queue[j]
  \/ /\ queue[j] # NoRec /\ queue'[j] # NoRec
     /\ queue'[j].token = queue[j].token /\ queue'[j].rev = queue[j].rev
     /\ queue'[j].life = queue[j].life /\ queue'[j].oid = queue[j].oid

\* No snapshot carries the token the record of j now has.
NewClaim(j) ==
  \/ queue'[j].token = NoToken
  \/ \A a \in Actors : held[a][j] = NoRec \/ held[a][j].token # queue'[j].token

\* Snapshots keep agreeing when records keep their claim, lose it, or take a new
\* one, and snapshots are kept, dropped, or taken from the new queue.
LEMMA AgreementStep ==
  ASSUME SnapshotsAgree,
         \A j \in Intents : queue'[j] = NoRec \/ SameClaim(j) \/ NewClaim(j),
         \A a \in Actors, j \in Intents :
           held'[a][j] = held[a][j] \/ held'[a][j] = NoRec \/ held'[a][j] = queue'[j]
  PROVE  SnapshotsAgree'
<1> SUFFICES ASSUME NEW a \in Actors, NEW i \in Intents, Matches(i, held[a][i])'
             PROVE  (queue[i].life = held[a][i].life /\ queue[i].oid = held[a][i].oid)'
  BY DEF SnapshotsAgree
<1>1. CASE held'[a][i] = queue'[i]
  BY <1>1
<1>2. CASE held'[a][i] = held[a][i]
  <2>1. SameClaim(i)
    BY <1>2 DEF Matches, NewClaim
  <2> QED BY <1>2, <2>1 DEF SnapshotsAgree, Matches, SameClaim
<1>3. CASE held'[a][i] = NoRec
  BY <1>3 DEF Matches
<1> QED BY <1>1, <1>2, <1>3

\* What every step does to the queue, to the snapshots, to the venue's orders and
\* to the rest of the state, as far as TInv is concerned.
QueueStep ==
  /\ queue' \in [Intents -> Records \cup {NoRec}]
  /\ \A j \in Intents : queue'[j] # NoRec /\ queue'[j].life = "accepted" =>
       queue'[j].oid \in Oids /\ orders'[queue'[j].oid] # NoOrder
  /\ \A j \in Intents : queue'[j] = NoRec \/ SameClaim(j) \/ NewClaim(j)

HeldStep ==
  /\ held' \in [Actors -> [Intents -> Records \cup {NoRec}]]
  /\ \A a \in Actors, j \in Intents :
       held'[a][j] = held[a][j] \/ held'[a][j] = NoRec \/ held'[a][j] = queue'[j]

OrdersStep ==
  /\ orders' \in [Oids -> Orders \cup {NoOrder}]
  /\ \A o \in Oids : orders'[o] # NoOrder => orders'[o].filled <= orders'[o].qty
  /\ \A o \in Oids : orders[o] # NoOrder => orders'[o] # NoOrder

OtherTypes ==
  /\ todo \subseteq Intents
  /\ stage \in [Actors -> Stages]
  /\ job \in [Actors -> Intents \cup {NoIntent}]
  /\ why \in [Producers -> Refusals \cup {"abort"}]
  /\ plan \in [Workers -> SUBSET Intents]
  /\ seen \in [Workers -> [Intents -> Records \cup {NoRec}]]
  /\ wire \subseteq Requests
  /\ answer \in [Actors -> Oids \cup {NoOid}]
  /\ crashes \in 0..MaxCrashes
  /\ \A a \in Actors : answer[a] # NoOid => orders[answer[a]] # NoOrder

LEMMA TInvStep ==
  ASSUME TInv, QueueStep, HeldStep, OrdersStep, OtherTypes', JobHeld'
  PROVE  TInv'
<1>1. TypeOK'
  BY DEF QueueStep, HeldStep, OrdersStep, OtherTypes, TypeOK
<1>2. OrdersSane'
  BY DEF OrdersStep, OrdersSane
<1>3. AcceptedHasOrder'
  BY DEF QueueStep, OtherTypes, AcceptedHasOrder, Queued
<1>4. SnapshotsAgree'
  BY AgreementStep DEF TInv, QueueStep, HeldStep
<1> QED BY <1>1, <1>2, <1>3, <1>4 DEF TInv

LEMMA TInvTypes ==
  ASSUME TInv
  PROVE  /\ OtherTypes
         /\ UNCHANGED orders => OrdersStep
         /\ UNCHANGED <<queue, orders>> => QueueStep
         /\ UNCHANGED held => HeldStep
         /\ UNCHANGED <<stage, job, held>> => JobHeld'
<1>1. OtherTypes
  BY DEF TInv, TypeOK, OtherTypes, AcceptedHasOrder
<1>2. UNCHANGED orders => OrdersStep
  BY DEF TInv, TypeOK, OrdersSane, OrdersStep
<1>3. UNCHANGED <<queue, orders>> => QueueStep
  BY DEF TInv, TypeOK, AcceptedHasOrder, Queued, QueueStep, SameClaim
<1>4. UNCHANGED held => HeldStep
  BY DEF TInv, TypeOK, HeldStep
<1>5. UNCHANGED <<stage, job, held>> => JobHeld'
  BY DEF TInv, JobHeld
<1> QED BY <1>1, <1>2, <1>3, <1>4, <1>5

\* A fenced write that gives the lease up.
LEMMA FencedWrite ==
  ASSUME TInv, NEW i \in Intents, NEW s, NEW new,
         Write(i, s, new), UNCHANGED orders,
         Matches(i, s) => \/ new = NoRec
                          \/ /\ new \in Records /\ new.token = NoToken
                             /\ new.life = "accepted" =>
                                  new.oid \in Oids /\ orders[new.oid] # NoOrder
  PROVE  QueueStep
<1>0. queue \in [Intents -> Records \cup {NoRec}]
      /\ \A j \in Intents : queue[j] # NoRec /\ queue[j].life = "accepted" =>
           queue[j].oid \in Oids /\ orders[queue[j].oid] # NoOrder
  BY DEF TInv, TypeOK, AcceptedHasOrder, Queued
<1>1. CASE Matches(i, s)
  <2>1. queue' = [queue EXCEPT ![i] = new]
    BY <1>1 DEF Write
  <2> QED BY <1>0, <1>1, <2>1 DEF QueueStep, SameClaim, NewClaim
<1>2. CASE ~Matches(i, s)
  <2>1. queue' = queue
    BY <1>2 DEF Write
  <2> QED BY <1>0, <2>1 DEF QueueStep, SameClaim
<1> QED BY <1>1, <1>2

\* A matching record exists; a refusal or a lost claim of it is such a write.
LEMMA MatchedRecord ==
  ASSUME TInv, NEW i \in Intents, NEW s, Matches(i, s)
  PROVE  /\ queue[i] \in Records
         /\ queue[i].life = "accepted" =>
              queue[i].oid \in Oids /\ orders[queue[i].oid] # NoOrder
BY DEF TInv, TypeOK, AcceptedHasOrder, Queued, Matches

LEMMA ResumeStep ==
  ASSUME TInv, NEW a \in Actors, job[a] \in Intents, Resume(a)
  PROVE  /\ stage' \in [Actors -> Stages] /\ job' \in [Actors -> Intents \cup {NoIntent}]
         /\ HeldStep /\ JobHeld'
<1>1. stage' \in [Actors -> Stages] /\ job' \in [Actors -> Intents \cup {NoIntent}]
  BY DEF TInv, TypeOK, Resume, Stages
<1>2. HeldStep
  BY DEF TInv, TypeOK, Resume, HeldStep
<1>3. JobHeld'
  BY DEF TInv, TypeOK, JobHeld, Resume, WithSnapshot, Stages
<1> QED BY <1>1, <1>2, <1>3

LEMMA RefuseLateTyped ==
  ASSUME TInv, NEW a \in Actors, RefuseLate(a)
  PROVE  TInv'
<1> DEFINE i == job[a]
           s == held[a][i]
<1>0. i \in Intents
  BY DEF TInv, JobHeld, RefuseLate, WithSnapshot
<1>1. QueueStep
  <2>1. CASE Write(i, s, NoRec)
    BY <1>0, <2>1, FencedWrite DEF RefuseLate
  <2>2. ASSUME NEW reason \in Refusals, Write(i, s, Unclaimed(Refused(queue[i], reason)))
        PROVE  QueueStep
    <3>1. ASSUME Matches(i, s)
          PROVE  LET new == Unclaimed(Refused(queue[i], reason))
                 IN  /\ new \in Records /\ new.token = NoToken
                     /\ new.life = "accepted" =>
                          new.oid \in Oids /\ orders[new.oid] # NoOrder
      BY <1>0, <3>1, MatchedRecord, RecordUpdates
    <3> QED BY <1>0, <2>2, <3>1, FencedWrite DEF RefuseLate
  <2> QED BY <2>1, <2>2 DEF RefuseLate
<1>2. OtherTypes' /\ HeldStep /\ OrdersStep /\ JobHeld'
  BY <1>0, ResumeStep, TInvTypes DEF RefuseLate, OtherTypes
<1> QED BY <1>1, <1>2, TInvStep

\* A new record enters the queue, perhaps in place of others.
LEMMA AdmitStep ==
  ASSUME TInv, NEW i \in Intents, NEW r \in Records, r.life = "submit_pending",
         r.token = NoToken \/ Unused(r.token),
         NEW q \in [Intents -> Records \cup {NoRec}],
         \A j \in Intents : q[j] = queue[j] \/ q[j] = NoRec,
         Admit(q, i, r), UNCHANGED orders
  PROVE  QueueStep /\ queue'[i] = r
<1>0. \A j \in Intents : queue[j] # NoRec /\ queue[j].life = "accepted" =>
        queue[j].oid \in Oids /\ orders[queue[j].oid] # NoOrder
  BY DEF TInv, AcceptedHasOrder, Queued
<1>1. r.token = NoToken \/ \A a \in Actors : held[a][i] = NoRec \/ held[a][i].token # r.token
  BY DEF Unused
<1>2. CASE queue' = [q EXCEPT ![i] = r]
  BY <1>0, <1>1, <1>2, NullsAssumption DEF QueueStep, SameClaim, NewClaim
<1>3. ASSUME NEW v \in Intents, queue' = [q EXCEPT ![v] = NoRec, ![i] = r]
      PROVE  QueueStep /\ queue'[i] = r
  BY <1>0, <1>1, <1>3, NullsAssumption DEF QueueStep, SameClaim, NewClaim
<1> QED BY <1>2, <1>3 DEF Admit, Victims

LEMMA PersistTyped ==
  ASSUME TInv, NEW p \in Producers, NEW i \in Intents, Persist(p, i)
  PROVE  TInv'
<1>1. PICK t \in Tokens :
        LET r == NewRecord("producer_claimed", "pending", FALSE, t, p)
        IN  /\ FreshToken(t)
            /\ Admit(queue, i, r)
            /\ held' = [held EXCEPT ![p][i] = r]
  BY DEF Persist
<1> DEFINE r == NewRecord("producer_claimed", "pending", FALSE, t, p)
<1>2. r \in Records /\ r.life = "submit_pending" /\ r.token = t
  BY QtyAssumption DEF NewRecord, Records, Lifecycles, SubmissionStates, Reasons
<1> HIDE DEF r
<1>3. FreshToken(t) /\ Admit(queue, i, r) /\ held' = [held EXCEPT ![p][i] = r]
  BY <1>1 DEF r
<1>4. queue \in [Intents -> Records \cup {NoRec}]
  BY DEF TInv, TypeOK
<1>5. QueueStep /\ queue'[i] = r
  BY <1>2, <1>3, <1>4, AdmitStep DEF Persist, FreshToken
<1>6. HeldStep
  BY <1>2, <1>3, <1>5 DEF TInv, TypeOK, HeldStep
<1>7. OtherTypes' /\ OrdersStep
  BY TInvTypes DEF Persist, OtherTypes, Stages
<1>8. JobHeld'
  BY <1>2, <1>3, NullsAssumption DEF TInv, TypeOK, JobHeld, Persist, WithSnapshot
<1> QED BY <1>5, <1>6, <1>7, <1>8, TInvStep

LEMMA RefuseEarlyTyped ==
  ASSUME TInv, NEW p \in Producers, NEW i \in Intents, RefuseEarly(p, i)
  PROVE  TInv'
<1>1. OtherTypes' /\ OrdersStep /\ QueueStep /\ HeldStep
  BY TInvTypes DEF RefuseEarly, OtherTypes, Stages
<1>2. JobHeld'
  BY DEF TInv, TypeOK, JobHeld, RefuseEarly, WithSnapshot
<1> QED BY <1>1, <1>2, TInvStep

LEMMA EnqueueRefusedTyped ==
  ASSUME TInv, NEW p \in Producers, EnqueueRefused(p)
  PROVE  TInv'
<1> DEFINE i == job[p]
           gone == IF why[p] \in Consolidated THEN Superseded(i) ELSE {}
           q == [j \in Intents |-> IF j \in gone THEN NoRec ELSE queue[j]]
           r == NewRecord("none", why[p], why[p] \in Deferrals \cup Consolidated, NoToken, Nobody)
<1>1. i \in Intents /\ why[p] \in Refusals \cup {"abort"}
  BY DEF TInv, TypeOK, JobHeld, EnqueueRefused
<1>2. QueueStep
  <2>1. q \in [Intents -> Records \cup {NoRec}]
        /\ \A j \in Intents : q[j] = queue[j] \/ q[j] = NoRec
    BY DEF TInv, TypeOK
  <2>2. why[p] # "abort" => r \in Records /\ r.life = "submit_pending" /\ r.token = NoToken
    BY <1>1, QtyAssumption DEF NewRecord, Records, Lifecycles, SubmissionStates, Reasons, Refusals
  <2> HIDE DEF q, r
  <2>3. CASE why[p] # "abort" /\ Admit(q, i, r)
    BY <1>1, <2>1, <2>2, <2>3, AdmitStep DEF EnqueueRefused
  <2>4. CASE queue' = queue
    BY <2>4, TInvTypes DEF EnqueueRefused
  <2> QED BY <2>3, <2>4 DEF EnqueueRefused, q, r
<1>3. OtherTypes' /\ OrdersStep /\ HeldStep
  BY TInvTypes DEF EnqueueRefused, OtherTypes, Stages
<1>4. JobHeld'
  BY DEF TInv, TypeOK, JobHeld, EnqueueRefused, WithSnapshot
<1> QED BY <1>2, <1>3, <1>4, TInvStep

\* A fence that still matches is passed: queue and snapshot take the new record.
LEMMA FencePassed ==
  ASSUME TInv, NEW a \in Actors, NEW i \in Intents, Matches(i, held[a][i]),
         NEW r \in Records,
         r.life = queue[i].life, r.oid = queue[i].oid,
         r.token = queue[i].token, r.rev = queue[i].rev,
         queue' = [queue EXCEPT ![i] = r], held' = [held EXCEPT ![a][i] = r],
         UNCHANGED orders
  PROVE  QueueStep /\ HeldStep
<1>1. queue \in [Intents -> Records \cup {NoRec}] /\ held \in [Actors -> [Intents -> Records \cup {NoRec}]]
      /\ \A j \in Intents : queue[j] # NoRec /\ queue[j].life = "accepted" =>
           queue[j].oid \in Oids /\ orders[queue[j].oid] # NoOrder
  BY DEF TInv, TypeOK, AcceptedHasOrder, Queued
<1>2. QueueStep
  BY <1>1, NullsAssumption DEF QueueStep, SameClaim, Matches
<1>3. HeldStep
  BY <1>1 DEF HeldStep
<1> QED BY <1>2, <1>3

LEMMA BeginProducerTyped ==
  ASSUME TInv, NEW p \in Producers, BeginProducer(p)
  PROVE  TInv'
<1> DEFINE i == job[p]
           s == held[p][i]
<1>0. i \in Intents /\ s # NoRec /\ s.life = "submit_pending"
  BY DEF TInv, JobHeld, BeginProducer, WithSnapshot
<1>1. CASE Matches(i, s)
  <2>1. PICK q \in 1..queue[i].qty :
          LET r == [Begun(queue[i], p, q) EXCEPT !.live = TRUE]
          IN  /\ queue' = [queue EXCEPT ![i] = r]
              /\ held' = [held EXCEPT ![p][i] = r]
              /\ stage' = [stage EXCEPT ![p] = "cleared"]
              /\ job' = job
    BY <1>1 DEF BeginProducer
  <2> DEFINE b == Begun(queue[i], p, q)
             r == [b EXCEPT !.live = TRUE]
  <2>2. queue[i] \in Records /\ q \in Nat
    BY <1>0, <1>1, MatchedRecord DEF Records
  <2>3. b \in Records /\ b.life = queue[i].life /\ b.oid = queue[i].oid
        /\ b.token = queue[i].token /\ b.rev = queue[i].rev
    BY <2>2, BegunRecord
  <2>4. r \in Records /\ r.life = queue[i].life /\ r.oid = queue[i].oid
        /\ r.token = queue[i].token /\ r.rev = queue[i].rev
    <3> HIDE DEF b
    <3> QED BY <2>3 DEF Records
  <2>5. /\ queue' = [queue EXCEPT ![i] = r] /\ held' = [held EXCEPT ![p][i] = r]
        /\ stage' = [stage EXCEPT ![p] = "cleared"] /\ job' = job
    BY <2>1
  <2> HIDE DEF b, r
  <2>6. QueueStep /\ HeldStep
    BY <1>0, <1>1, <2>4, <2>5, FencePassed DEF BeginProducer
  <2>7. JobHeld'
    <3>1. r.life = "submit_pending" /\ r # NoRec
      BY <1>0, <1>1, <2>4, NullsAssumption DEF TInv, SnapshotsAgree
    <3> QED BY <1>0, <2>5, <3>1 DEF TInv, TypeOK, JobHeld, WithSnapshot
  <2>8. OtherTypes' /\ OrdersStep
    BY <2>1, TInvTypes DEF BeginProducer, OtherTypes, Stages
  <2> QED BY <2>6, <2>7, <2>8, TInvStep
<1>2. CASE ~Matches(i, s)
  <2>1. queue' = queue /\ Resume(p)
    BY <1>2 DEF BeginProducer
  <2>2. OtherTypes' /\ QueueStep /\ HeldStep /\ OrdersStep /\ JobHeld'
    BY <1>0, <2>1, ResumeStep, TInvTypes DEF BeginProducer, OtherTypes
  <2> QED BY <2>2, TInvStep
<1> QED BY <1>1, <1>2

LEMMA SendTyped ==
  ASSUME TInv, NEW a \in Actors, Send(a)
  PROVE  TInv'
<1> DEFINE m == [by |-> a, intent |-> job[a], rev |-> held[a][job[a]].rev,
                 qty |-> held[a][job[a]].qty]
<1>1. job[a] \in Intents /\ held[a][job[a]] \in Records
  BY DEF TInv, TypeOK, JobHeld, Send, WithSnapshot
<1>2. m \in Requests
  BY <1>1 DEF Requests, Records
<1>3. OtherTypes' /\ QueueStep /\ HeldStep /\ OrdersStep
  BY <1>2, TInvTypes DEF Send, OtherTypes, Stages
<1>4. JobHeld'
  BY DEF TInv, TypeOK, JobHeld, Send, WithSnapshot
<1> QED BY <1>3, <1>4, TInvStep

LEMMA ReturnAcceptedTyped ==
  ASSUME TInv, NEW a \in Actors, ReturnAccepted(a)
  PROVE  TInv'
<1> DEFINE i == job[a]
           new == Unclaimed(Accepted(queue[i], answer[a]))
<1>0. i \in Intents /\ answer[a] \in Oids /\ orders[answer[a]] \in Orders
      /\ orders[answer[a]] # NoOrder
  BY DEF TInv, TypeOK, JobHeld, AcceptedHasOrder, ReturnAccepted, WithSnapshot
<1>1. ASSUME Matches(i, held[a][i])
      PROVE  new \in Records /\ new.token = NoToken /\ new.oid = answer[a]
  <2>1. queue[i] \in Records
    BY <1>0, <1>1, MatchedRecord
  <2>2. Accepted(queue[i], answer[a]) \in Records /\ Accepted(queue[i], answer[a]).oid = answer[a]
    BY <1>0, <2>1, AcceptedRecord
  <2> QED BY <2>2, RecordUpdates DEF Refusals
<1>2. QueueStep
  <2> HIDE DEF new
  <2>1. Write(i, held[a][i], new)
    BY DEF ReturnAccepted, new
  <2> QED BY <1>0, <1>1, <2>1, FencedWrite DEF ReturnAccepted
<1>3. OtherTypes' /\ HeldStep /\ OrdersStep /\ JobHeld'
  BY <1>0, ResumeStep, TInvTypes DEF ReturnAccepted, OtherTypes
<1> QED BY <1>2, <1>3, TInvStep

\* A claim that ends as "submission_state unknown"
LEMMA AmbiguousWrite ==
  ASSUME TInv, NEW i \in Intents, NEW s, Write(i, s, Unclaimed(Ambiguous(queue[i]))),
         UNCHANGED orders
  PROVE  QueueStep
<1>1. ASSUME Matches(i, s)
      PROVE  LET new == Unclaimed(Ambiguous(queue[i]))
             IN  /\ new \in Records /\ new.token = NoToken
                 /\ new.life = "accepted" => new.oid \in Oids /\ orders[new.oid] # NoOrder
  BY <1>1, MatchedRecord, RecordUpdates DEF Refusals
<1> QED BY <1>1, FencedWrite

LEMMA ReturnUnknownTyped ==
  ASSUME TInv, NEW a \in Actors, ReturnUnknown(a)
  PROVE  TInv'
<1>0. job[a] \in Intents
  BY DEF TInv, JobHeld, ReturnUnknown, WithSnapshot
<1>1. CASE a \in Producers
  <2>1. QueueStep
    BY <1>0, <1>1, AmbiguousWrite DEF ReturnUnknown
  <2>2. OtherTypes' /\ HeldStep /\ OrdersStep /\ JobHeld'
    BY <1>0, <1>1, ResumeStep, TInvTypes DEF ReturnUnknown, OtherTypes
  <2> QED BY <2>1, <2>2, TInvStep
<1>2. CASE a \notin Producers
  <2>1. OtherTypes' /\ QueueStep /\ HeldStep /\ OrdersStep
    BY <1>2, TInvTypes DEF ReturnUnknown, OtherTypes, Stages
  <2>2. JobHeld'
    BY <1>2 DEF TInv, TypeOK, JobHeld, ReturnUnknown, WithSnapshot
  <2> QED BY <2>1, <2>2, TInvStep
<1> QED BY <1>1, <1>2

LEMMA ScanTyped ==
  ASSUME TInv, NEW w \in Workers, NEW due \in SUBSET Intents, Scan(w, due)
  PROVE  TInv'
<1>1. seen' \in [Workers -> [Intents -> Records \cup {NoRec}]]
  BY DEF TInv, TypeOK, Scan
<1>2. plan' \in [Workers -> SUBSET Intents]
  BY DEF TInv, TypeOK, Scan
<1>3. OtherTypes' /\ QueueStep /\ HeldStep /\ OrdersStep
  BY <1>1, <1>2, TInvTypes DEF Scan, OtherTypes, Stages
<1>4. JobHeld'
  BY DEF TInv, TypeOK, JobHeld, Scan, WithSnapshot
<1> QED BY <1>3, <1>4, TInvStep

\* Steps that only take records out of the queue, or end a lease.
LEMMA ExpireTyped ==
  ASSUME TInv, NEW w \in Workers, NEW i \in Intents, Expire(w, i)
  PROVE  TInv'
<1>1. QueueStep
  BY DEF TInv, TypeOK, AcceptedHasOrder, Queued, Expire, QueueStep, SameClaim
<1>2. OtherTypes' /\ HeldStep /\ OrdersStep /\ JobHeld'
  BY TInvTypes DEF Expire, OtherTypes
<1> QED BY <1>1, <1>2, TInvStep

LEMMA ConsolidateTyped ==
  ASSUME TInv, NEW w \in Workers, Consolidate(w)
  PROVE  TInv'
<1>1. PICK gone \in SUBSET Intents :
        queue' = [i \in Intents |-> IF i \in gone THEN NoRec ELSE queue[i]]
  BY DEF Consolidate, Queued
<1>2. QueueStep
  BY <1>1 DEF TInv, TypeOK, AcceptedHasOrder, Queued, Consolidate, QueueStep, SameClaim
<1>3. OtherTypes' /\ HeldStep /\ OrdersStep /\ JobHeld'
  BY TInvTypes DEF Consolidate, OtherTypes
<1> QED BY <1>2, <1>3, TInvStep

LEMMA ResolveAcceptedTyped ==
  ASSUME TInv, NEW i \in Intents, ResolveAccepted(i)
  PROVE  TInv'
<1>1. QueueStep
  BY DEF TInv, TypeOK, AcceptedHasOrder, Queued, ResolveAccepted, QueueStep, SameClaim
<1>2. OtherTypes' /\ HeldStep /\ OrdersStep /\ JobHeld'
  BY TInvTypes DEF ResolveAccepted, OtherTypes
<1> QED BY <1>1, <1>2, TInvStep

LEMMA LapseTyped ==
  ASSUME TInv, NEW i \in Intents, Lapse(i)
  PROVE  TInv'
<1> DEFINE r == [queue[i] EXCEPT !.live = FALSE]
<1>1. /\ queue[i] \in Records /\ queue \in [Intents -> Records \cup {NoRec}]
      /\ orders' = orders
      /\ \A j \in Intents : queue[j] # NoRec /\ queue[j].life = "accepted" =>
           queue[j].oid \in Oids /\ orders[queue[j].oid] # NoOrder
  BY DEF TInv, TypeOK, AcceptedHasOrder, Lapse, Queued
<1>2. r \in Records /\ r.token = queue[i].token /\ r.rev = queue[i].rev
      /\ r.life = queue[i].life /\ r.oid = queue[i].oid
  BY <1>1 DEF Records
<1>3. queue' = [queue EXCEPT ![i] = r]
  BY <1>1 DEF Lapse
<1> HIDE DEF r
<1>4. QueueStep
  BY <1>1, <1>2, <1>3, NullsAssumption DEF QueueStep, SameClaim
<1>5. OtherTypes' /\ HeldStep /\ OrdersStep /\ JobHeld'
  BY TInvTypes DEF Lapse, OtherTypes
<1> QED BY <1>4, <1>5, TInvStep

LEMMA ClaimTyped ==
  ASSUME TInv, NEW w \in Workers, Claim(w)
  PROVE  TInv'
<1> DEFINE got == {i \in plan[w] \cap Queued : ~queue[i].live}
           leased(t, i) == [queue[i] EXCEPT !.token = t, !.live = TRUE]
<1>1. PICK t \in Tokens :
        /\ FreshToken(t)
        /\ queue' = [i \in Intents |-> IF i \in got THEN leased(t, i) ELSE queue[i]]
        /\ held' = [held EXCEPT ![w] = [i \in Intents |-> IF i \in got THEN leased(t, i) ELSE NoRec]]
        /\ plan' = [v \in Workers |-> IF v = w THEN {} ELSE plan[v] \ got]
  BY DEF Claim
<1>2. queue \in [Intents -> Records \cup {NoRec}] /\ held \in [Actors -> [Intents -> Records \cup {NoRec}]]
      /\ plan \in [Workers -> SUBSET Intents] /\ orders' = orders
      /\ \A j \in Intents : queue[j] # NoRec /\ queue[j].life = "accepted" =>
           queue[j].oid \in Oids /\ orders[queue[j].oid] # NoOrder
  BY DEF TInv, TypeOK, AcceptedHasOrder, Queued, Claim
<1>3. ASSUME NEW i \in Intents, i \in got
      PROVE  LET r == leased(t, i)
             IN  /\ r \in Records /\ r.token = t /\ r.rev = queue[i].rev
                 /\ r.life = queue[i].life /\ r.oid = queue[i].oid
  <2>1. queue[i] \in Records
    BY <1>2, <1>3 DEF Queued
  <2> QED BY <2>1 DEF Records
<1>4. \A i \in got : i \in Intents /\ queue[i] # NoRec
  BY DEF Queued
<1>5. \A a \in Actors, i \in Intents : held[a][i] = NoRec \/ held[a][i].token # t
  BY <1>1 DEF FreshToken, Unused
<1> HIDE DEF got, leased
<1>6. QueueStep
  <2> SUFFICES ASSUME NEW j \in Intents
               PROVE  /\ queue'[j] \in Records \cup {NoRec}
                      /\ queue'[j] # NoRec /\ queue'[j].life = "accepted" =>
                           queue'[j].oid \in Oids /\ orders'[queue'[j].oid] # NoOrder
                      /\ queue'[j] = NoRec \/ SameClaim(j) \/ NewClaim(j)
    BY <1>1 DEF QueueStep
  <2>1. CASE j \in got
    <3>1. queue'[j] = leased(t, j)
      BY <1>1, <2>1
    <3>2. queue'[j] \in Records /\ queue'[j].token = t
          /\ queue'[j].life = queue[j].life /\ queue'[j].oid = queue[j].oid
      BY <1>3, <2>1, <3>1
    <3> QED BY <1>2, <1>4, <1>5, <2>1, <3>2 DEF NewClaim
  <2>2. CASE j \notin got
    BY <1>1, <1>2, <2>2 DEF SameClaim
  <2> QED BY <2>1, <2>2
<1>7. HeldStep
  BY <1>1, <1>2, <1>3 DEF HeldStep
<1>8. OtherTypes' /\ OrdersStep
  BY <1>1, <1>2, TInvTypes DEF Claim, OtherTypes, Stages
<1>9. JobHeld'
  BY <1>1, <1>2 DEF TInv, TypeOK, JobHeld, Claim, WithSnapshot
<1> QED BY <1>6, <1>7, <1>8, <1>9, TInvStep

\* An order found by its client order id is adopted.
LEMMA AdoptWrite ==
  ASSUME TInv, NEW i \in Intents, NEW rev, NEW o \in OrdersOf(i, rev), NEW s,
         Write(i, s, Unclaimed(Accepted(queue[i], o))), UNCHANGED orders
  PROVE  QueueStep
<1> DEFINE new == Unclaimed(Accepted(queue[i], o))
<1>1. o \in Oids /\ orders[o] # NoOrder /\ orders[o] \in Orders
  BY DEF OrdersOf, TInv, TypeOK
<1>2. ASSUME Matches(i, s)
      PROVE  new \in Records /\ new.token = NoToken /\ new.oid = o
  <2>1. Accepted(queue[i], o) \in Records /\ Accepted(queue[i], o).oid = o
    BY <1>1, <1>2, MatchedRecord, AcceptedRecord
  <2> QED BY <2>1, RecordUpdates DEF Refusals
<1>3. Write(i, s, new)
  OBVIOUS
<1> HIDE DEF new
<1> QED BY <1>1, <1>2, <1>3, FencedWrite

LEMMA AdoptLiveTyped ==
  ASSUME TInv, NEW w \in Workers, NEW i \in Intents, AdoptLive(w, i)
  PROVE  TInv'
<1>1. QueueStep
  BY AdoptWrite DEF AdoptLive
<1>2. seen' \in [Workers -> [Intents -> Records \cup {NoRec}]]
  BY DEF TInv, TypeOK, AdoptLive
<1>3. OtherTypes' /\ HeldStep /\ OrdersStep /\ JobHeld'
  BY <1>2, TInvTypes DEF AdoptLive, OtherTypes
<1> QED BY <1>1, <1>3, TInvStep

LEMMA QuarantineTyped ==
  ASSUME TInv, NEW w \in Workers, NEW i \in Intents, Quarantine(w, i)
  PROVE  TInv'
<1>1. seen' \in [Workers -> [Intents -> Records \cup {NoRec}]]
  BY DEF TInv, TypeOK, Quarantine
<1>2. OtherTypes' /\ QueueStep /\ HeldStep /\ OrdersStep /\ JobHeld'
  BY <1>1, TInvTypes DEF Quarantine, OtherTypes
<1> QED BY <1>2, TInvStep

\* The snapshot of a record the pass is done with is dropped.
LEMMA DropStep ==
  ASSUME TInv, NEW w \in Workers, NEW i \in Intents, Turn(w, i), Drop(w, i),
         UNCHANGED <<stage, job>>
  PROVE  HeldStep /\ JobHeld'
<1>1. HeldStep
  BY DEF TInv, TypeOK, HeldStep, Drop
<1>2. JobHeld'
  BY DEF TInv, TypeOK, JobHeld, Drop, Turn, WithSnapshot
<1> QED BY <1>1, <1>2

LEMMA ReleaseTyped ==
  ASSUME TInv, NEW w \in Workers, NEW i \in Intents, Turn(w, i), Release(w, i),
         UNCHANGED <<todo, stage, job, why, plan, seen, wire, answer, orders, crashes>>
  PROVE  TInv'
<1>1. ASSUME Matches(i, held[w][i])
      PROVE  LET new == Unclaimed(queue[i])
             IN  /\ new \in Records /\ new.token = NoToken
                 /\ new.life = "accepted" => new.oid \in Oids /\ orders[new.oid] # NoOrder
  BY <1>1, MatchedRecord, RecordUpdates DEF Refusals
<1>2. QueueStep
  BY <1>1, FencedWrite DEF Release
<1>3. OtherTypes' /\ HeldStep /\ OrdersStep /\ JobHeld'
  BY DropStep, TInvTypes DEF Release, OtherTypes
<1> QED BY <1>2, <1>3, TInvStep

LEMMA LookupFoundTyped ==
  ASSUME TInv, NEW w \in Workers, NEW i \in Intents, LookupFound(w, i)
  PROVE  TInv'
<1>1. QueueStep
  BY AdoptWrite DEF LookupFound
<1>2. OtherTypes' /\ HeldStep /\ OrdersStep /\ JobHeld'
  BY DropStep, TInvTypes DEF LookupFound, OtherTypes
<1> QED BY <1>1, <1>2, TInvStep

LEMMA SettleOrderTyped ==
  ASSUME TInv, NEW w \in Workers, NEW i \in Intents, SettleOrder(w, i)
  PROVE  TInv'
<1> DEFINE s == held[w][i]
<1>1. QueueStep
  <2>1. CASE Write(i, s, NoRec)
    BY <2>1, FencedWrite DEF SettleOrder
  <2>2. CASE Write(i, s, Unclaimed(Revised(queue[i])))
    <3>1. ASSUME Matches(i, s)
          PROVE  LET new == Unclaimed(Revised(queue[i]))
                 IN  /\ new \in Records /\ new.token = NoToken
                     /\ new.life = "submit_pending"
      <4>1. queue[i] \in Records /\ queue[i].life = "accepted"
        BY <3>1, MatchedRecord DEF SettleOrder, TInv, SnapshotsAgree
      <4>2. queue[i].oid \in Oids /\ orders[queue[i].oid] \in Orders
            /\ orders[queue[i].oid].filled <= orders[queue[i].oid].qty
        BY <3>1, <4>1, MatchedRecord DEF TInv, TypeOK, OrdersSane
      <4>3. Revised(queue[i]) \in Records /\ Revised(queue[i]).life = "submit_pending"
        BY <4>1, <4>2, RevisedRecord
      <4> QED BY <4>3, RecordUpdates DEF Refusals
    <3> QED BY <2>2, <3>1, FencedWrite DEF SettleOrder
  <2> QED BY <2>1, <2>2 DEF SettleOrder
<1>2. OtherTypes' /\ HeldStep /\ OrdersStep /\ JobHeld'
  BY DropStep, TInvTypes DEF SettleOrder, OtherTypes
<1> QED BY <1>1, <1>2, TInvStep

LEMMA ClearTyped ==
  ASSUME TInv, NEW w \in Workers, NEW i \in Intents, Clear(w, i)
  PROVE  TInv'
<1>1. OtherTypes' /\ QueueStep /\ HeldStep /\ OrdersStep
  BY TInvTypes DEF Clear, OtherTypes, Stages
<1>2. JobHeld'
  BY DEF TInv, TypeOK, JobHeld, Clear, Turn, WithSnapshot
<1> QED BY <1>1, <1>2, TInvStep

LEMMA BeginWorkerTyped ==
  ASSUME TInv, NEW w \in Workers, BeginWorker(w)
  PROVE  TInv'
<1> DEFINE i == job[w]
           s == held[w][i]
           r == Begun(queue[i], w, queue[i].qty)
<1>0. i \in Intents /\ s # NoRec /\ s.life = "submit_pending"
  BY DEF TInv, JobHeld, BeginWorker, WithSnapshot
<1>1. CASE Matches(i, s)
  <2>1. /\ queue' = [queue EXCEPT ![i] = r] /\ held' = [held EXCEPT ![w][i] = r]
        /\ stage' = [stage EXCEPT ![w] = "begun"] /\ job' = job
    BY <1>1 DEF BeginWorker
  <2>2. queue[i] \in Records /\ queue[i].qty \in Nat
    BY <1>0, <1>1, MatchedRecord DEF Records
  <2>3. r \in Records /\ r.life = queue[i].life /\ r.oid = queue[i].oid
        /\ r.token = queue[i].token /\ r.rev = queue[i].rev
    BY <2>2, BegunRecord
  <2> HIDE DEF r
  <2>4. QueueStep /\ HeldStep
    BY <1>0, <1>1, <2>1, <2>3, FencePassed DEF BeginWorker
  <2>5. r.life = "submit_pending" /\ r # NoRec
    BY <1>0, <1>1, <2>3, NullsAssumption DEF TInv, SnapshotsAgree
  <2>6. JobHeld'
    BY <1>0, <2>1, <2>5 DEF TInv, TypeOK, JobHeld, WithSnapshot
  <2>7. OtherTypes' /\ OrdersStep
    BY <2>1, TInvTypes DEF BeginWorker, OtherTypes, Stages
  <2> QED BY <2>4, <2>6, <2>7, TInvStep
<1>2. CASE ~Matches(i, s)
  <2>1. queue' = queue /\ Resume(w)
    BY <1>2 DEF BeginWorker
  <2>2. OtherTypes' /\ QueueStep /\ HeldStep /\ OrdersStep /\ JobHeld'
    BY <1>0, <2>1, ResumeStep, TInvTypes DEF BeginWorker, OtherTypes
  <2> QED BY <2>2, TInvStep
<1> QED BY <1>1, <1>2

LEMMA SyncQtyTyped ==
  ASSUME TInv, NEW w \in Workers, SyncQty(w)
  PROVE  TInv'
<1> DEFINE i == job[w]
           s == held[w][i]
           r(q) == [queue[i] EXCEPT !.qty = q]
<1>0. i \in Intents /\ s # NoRec /\ s.life = "submit_pending"
  BY DEF TInv, JobHeld, SyncQty, WithSnapshot
<1>1. CASE Matches(i, s)
  <2>1. PICK q \in 1..queue[i].qty :
          /\ queue' = [queue EXCEPT ![i] = r(q)] /\ held' = [held EXCEPT ![w][i] = r(q)]
          /\ stage' = [stage EXCEPT ![w] = "cleared"] /\ job' = job
    BY <1>1 DEF SyncQty
  <2>2. queue[i] \in Records /\ q \in Nat
    BY <1>0, <1>1, MatchedRecord DEF Records
  <2>3. r(q) \in Records /\ r(q).life = queue[i].life /\ r(q).oid = queue[i].oid
        /\ r(q).token = queue[i].token /\ r(q).rev = queue[i].rev
    BY <2>2 DEF Records
  <2> HIDE DEF r
  <2>4. QueueStep /\ HeldStep
    BY <1>0, <1>1, <2>1, <2>3, FencePassed DEF SyncQty
  <2>5. r(q).life = "submit_pending" /\ r(q) # NoRec
    BY <1>0, <1>1, <2>3, NullsAssumption DEF TInv, SnapshotsAgree
  <2>6. JobHeld'
    BY <1>0, <2>1, <2>5 DEF TInv, TypeOK, JobHeld, WithSnapshot
  <2>7. OtherTypes' /\ OrdersStep
    BY <2>1, TInvTypes DEF SyncQty, OtherTypes, Stages
  <2> QED BY <2>4, <2>6, <2>7, TInvStep
<1>2. CASE ~Matches(i, s)
  <2>1. queue' = queue /\ Resume(w)
    BY <1>2 DEF SyncQty
  <2>2. OtherTypes' /\ QueueStep /\ HeldStep /\ OrdersStep /\ JobHeld'
    BY <1>0, <2>1, ResumeStep, TInvTypes DEF SyncQty, OtherTypes
  <2> QED BY <2>2, TInvStep
<1> QED BY <1>1, <1>2

LEMMA LookupAfterTyped ==
  ASSUME TInv, NEW w \in Workers, LookupAfter(w)
  PROVE  TInv'
<1>0. job[w] \in Intents
  BY DEF TInv, JobHeld, LookupAfter, WithSnapshot
<1>1. QueueStep
  BY <1>0, AdoptWrite, AmbiguousWrite DEF LookupAfter
<1>2. OtherTypes' /\ HeldStep /\ OrdersStep /\ JobHeld'
  BY <1>0, ResumeStep, TInvTypes DEF LookupAfter, OtherTypes
<1> QED BY <1>1, <1>2, TInvStep

LEMMA EndPassTyped ==
  ASSUME TInv, NEW w \in Workers, EndPass(w)
  PROVE  TInv'
<1>1. OtherTypes' /\ QueueStep /\ HeldStep /\ OrdersStep
  BY TInvTypes DEF EndPass, OtherTypes, Stages
<1>2. JobHeld'
  BY DEF TInv, TypeOK, JobHeld, EndPass, WithSnapshot
<1> QED BY <1>1, <1>2, TInvStep

\* A process that loses its memory
LEMMA ForgetStep ==
  ASSUME TInv, NEW a \in Actors, Forget(a), UNCHANGED <<todo, why, wire, orders>>,
         crashes' \in 0..MaxCrashes
  PROVE  OtherTypes' /\ HeldStep /\ JobHeld'
<1>1. OtherTypes'
  BY TInvTypes DEF Forget, OtherTypes, Stages, NoneHeld
<1>2. HeldStep
  BY DEF TInv, TypeOK, Forget, HeldStep, NoneHeld
<1>3. JobHeld'
  BY DEF TInv, TypeOK, JobHeld, Forget, WithSnapshot
<1> QED BY <1>1, <1>2, <1>3

LEMMA AbandonTyped ==
  ASSUME TInv, NEW a \in Actors, Abandon(a)
  PROVE  TInv'
<1>1. crashes' \in 0..MaxCrashes
  BY DEF TInv, TypeOK, Abandon
<1> QED BY <1>1, ForgetStep, TInvTypes, TInvStep DEF Abandon

LEMMA CrashTyped ==
  ASSUME TInv, NEW a \in Actors, Crash(a)
  PROVE  TInv'
<1> DEFINE r(i) == [queue[i] EXCEPT !.owner = Nobody]
<1>1. crashes' \in 0..MaxCrashes
  BY LimitsAssumption DEF TInv, TypeOK, Crash
<1>2. /\ queue \in [Intents -> Records \cup {NoRec}] /\ orders' = orders
      /\ \A j \in Intents : queue[j] # NoRec /\ queue[j].life = "accepted" =>
           queue[j].oid \in Oids /\ orders[queue[j].oid] # NoOrder
  BY DEF TInv, TypeOK, AcceptedHasOrder, Crash, Queued
<1>3. \A j \in Intents : queue[j] # NoRec =>
        /\ r(j) \in Records /\ r(j).token = queue[j].token /\ r(j).rev = queue[j].rev
        /\ r(j).life = queue[j].life /\ r(j).oid = queue[j].oid
  BY <1>2 DEF Records
<1>4. queue' = [i \in Intents |-> IF queue[i] # NoRec /\ queue[i].owner = a THEN r(i) ELSE queue[i]]
  BY DEF Crash, Queued
<1> HIDE DEF r
<1>5. QueueStep
  BY <1>2, <1>3, <1>4, NullsAssumption DEF QueueStep, SameClaim
<1> QED BY <1>1, <1>5, ForgetStep, TInvTypes, TInvStep DEF Crash

--------------------------------------------------------------------------------
(* The venue *)

LEMMA OrderKept ==
  ASSUME TInv, NEW o \in Oids, NEW r \in Orders, r.filled <= r.qty,
         orders' = [orders EXCEPT ![o] = r],
         UNCHANGED <<queue, todo, stage, job, why, held, plan, seen, crashes>>,
         wire' \subseteq Requests,
         answer' \in [Actors -> Oids \cup {NoOid}],
         \A a \in Actors : answer'[a] = answer[a] \/ answer'[a] = o
  PROVE  TInv'
<1>1. OrdersStep
  BY NullsAssumption DEF TInv, TypeOK, OrdersSane, OrdersStep
<1>2. QueueStep
  BY <1>1 DEF TInv, TypeOK, AcceptedHasOrder, Queued, OrdersStep, QueueStep, SameClaim
<1>3. OtherTypes'
  BY <1>1, NullsAssumption DEF TInv, TypeOK, AcceptedHasOrder, OrdersStep, OtherTypes
<1> QED BY <1>1, <1>2, <1>3, TInvTypes, TInvStep

LEMMA VenueTyped ==
  ASSUME TInv, VenueStep
  PROVE  TInv'
<1>0. /\ wire \subseteq Requests /\ orders \in [Oids -> Orders \cup {NoOrder}]
      /\ answer \in [Actors -> Oids \cup {NoOid}]
      /\ \A o \in Oids : orders[o] # NoOrder => orders[o].filled <= orders[o].qty
  BY DEF TInv, TypeOK, OrdersSane
<1>1. ASSUME NEW m \in wire, Accept(m)
      PROVE  TInv'
  <2> DEFINE r == [intent |-> m.intent, rev |-> m.rev, qty |-> m.qty,
                   filled |-> 0, status |-> "open"]
  <2>1. PICK o \in Oids :
          /\ orders' = [orders EXCEPT ![o] = r]
          /\ answer' = IF stage[m.by] = "sent" /\ job[m.by] = m.intent
                       THEN [answer EXCEPT ![m.by] = o] ELSE answer
    BY <1>1 DEF Accept
  <2>2. r \in Orders /\ r.filled <= r.qty /\ m.by \in Actors
    BY <1>0 DEF Orders, Requests
  <2>3. answer' \in [Actors -> Oids \cup {NoOid}]
        /\ \A a \in Actors : answer'[a] = answer[a] \/ answer'[a] = o
    BY <1>0, <2>1, <2>2
  <2>4. wire' \subseteq Requests /\ UNCHANGED <<queue, todo, stage, job, why, held, plan, seen, crashes>>
    BY <1>0, <1>1 DEF Accept
  <2> HIDE DEF r
  <2> QED BY <2>1, <2>2, <2>3, <2>4, OrderKept
<1>2. ASSUME NEW m \in wire, Lose(m)
      PROVE  TInv'
  <2>1. OtherTypes' /\ QueueStep /\ HeldStep /\ OrdersStep /\ JobHeld'
    BY <1>0, <1>2, TInvTypes DEF Lose, OtherTypes
  <2> QED BY <2>1, TInvStep
<1>3. ASSUME NEW o \in Oids, Open(o), NEW r \in Orders, r.filled <= r.qty,
             orders' = [orders EXCEPT ![o] = r],
             UNCHANGED <<queue, todo, stage, job, why, held, plan, seen, wire, answer, crashes>>
      PROVE  TInv'
  BY <1>0, <1>3, OrderKept
<1>4. ASSUME NEW o \in Oids, NEW n \in 1..Qty, Fill(o, n)
      PROVE  TInv'
  <2> DEFINE filled == orders[o].filled + n
             status == IF filled = orders[o].qty THEN "closed" ELSE "open"
             r == [orders[o] EXCEPT !.filled = filled, !.status = status]
  <2>1. orders[o] \in Orders /\ orders[o].filled + n <= orders[o].qty /\ n \in Nat
    BY <1>0, <1>4, QtyAssumption DEF Fill, Open
  <2>2. filled \in Nat /\ filled <= orders[o].qty /\ status \in {"closed", "open"}
    BY <2>1 DEF Orders
  <2>3. orders' = [orders EXCEPT ![o] = r]
    BY <1>0, <1>4 DEF Fill
  <2> HIDE DEF filled, status
  <2>4. r \in Orders /\ r.filled <= r.qty
    BY <2>1, <2>2 DEF Orders
  <2> HIDE DEF r
  <2> QED BY <1>3, <1>4, <2>3, <2>4 DEF Fill
<1>5. ASSUME NEW o \in Oids, CancelOrder(o) \/ ExpireOrder(o)
      PROVE  TInv'
  <2>1. PICK status \in {"canceled", "expired"} :
          orders' = [orders EXCEPT ![o] = [orders[o] EXCEPT !.status = status]]
    BY <1>0, <1>5 DEF CancelOrder, ExpireOrder
  <2> DEFINE r == [orders[o] EXCEPT !.status = status]
  <2>2. orders[o] \in Orders /\ orders[o].filled <= orders[o].qty
    BY <1>0, <1>5 DEF CancelOrder, ExpireOrder, Open
  <2>3. r \in Orders /\ r.filled <= r.qty
    BY <2>2 DEF Orders
  <2> HIDE DEF r
  <2>4. orders' = [orders EXCEPT ![o] = r]
    BY <2>1 DEF r
  <2> QED BY <1>3, <1>5, <2>3, <2>4 DEF CancelOrder, ExpireOrder
<1> QED BY <1>1, <1>2, <1>4, <1>5 DEF VenueStep

--------------------------------------------------------------------------------
(* Typing *)

LEMMA TInvInit == Init => TInv
<1> SUFFICES ASSUME Init
             PROVE  TInv
  OBVIOUS
<1>1. TypeOK
  BY LimitsAssumption DEF Init, TypeOK, NoneHeld, Stages, Refusals
<1>2. OrdersSane /\ AcceptedHasOrder
  BY DEF Init, OrdersSane, AcceptedHasOrder, Queued, NoneHeld
<1>3. JobHeld /\ SnapshotsAgree
  BY DEF Init, JobHeld, WithSnapshot, SnapshotsAgree, Matches, NoneHeld
<1> QED BY <1>1, <1>2, <1>3 DEF TInv

LEMMA TInvNext == TInv /\ [Next]_vars => TInv'
<1> SUFFICES ASSUME TInv, [Next]_vars
             PROVE  TInv'
  OBVIOUS
<1>1. ASSUME NEW p \in Producers, ProducerStep(p)
      PROVE  TInv'
  BY <1>1, PersistTyped, RefuseEarlyTyped, EnqueueRefusedTyped, BeginProducerTyped
     DEF ProducerStep
<1>2. ASSUME NEW w \in Workers, WorkerStep(w)
      PROVE  TInv'
  <2>1. ASSUME NEW i \in Intents, RecordStep(w, i)
        PROVE  TInv'
    <3>1. CASE ObserveOrder(w, i) \/ Wait(w, i)
      BY <3>1, ReleaseTyped DEF ObserveOrder, Wait
    <3> QED BY <2>1, <3>1, AdoptLiveTyped, QuarantineTyped, SettleOrderTyped,
               LookupFoundTyped, ClearTyped DEF RecordStep
  <2>2. CASE PassStep(w)
    BY <2>1, <2>2, ClaimTyped, BeginWorkerTyped, SyncQtyTyped, LookupAfterTyped, EndPassTyped
       DEF PassStep
  <2> QED BY <1>2, <2>2, ScanTyped, ExpireTyped, ConsolidateTyped DEF WorkerStep
<1>3. ASSUME NEW a \in Actors, DispatchStep(a) \/ Abandon(a) \/ Crash(a)
      PROVE  TInv'
  BY <1>3, RefuseLateTyped, SendTyped, ReturnAcceptedTyped, ReturnUnknownTyped,
     AbandonTyped, CrashTyped DEF DispatchStep
<1>4. ASSUME NEW i \in Intents, Lapse(i) \/ ResolveAccepted(i)
      PROVE  TInv'
  BY <1>4, LapseTyped, ResolveAcceptedTyped
<1>5. CASE UNCHANGED vars
  <2>1. OtherTypes' /\ QueueStep /\ HeldStep /\ OrdersStep /\ JobHeld'
    BY <1>5, TInvTypes DEF vars, OtherTypes
  <2> QED BY <2>1, TInvStep
<1> QED BY <1>1, <1>2, <1>3, <1>4, <1>5, VenueTyped DEF Next

\* Every variable stays well typed, whatever the number of processes, crashes and
\* workers.  Beyond the shapes this says that a retry never asks for a negative
\* remainder and that an accepted tracker always names an existing order.
THEOREM Typing == Spec => []TypeOK
<1>1. TInv => TypeOK
  BY DEF TInv
<1> QED BY TInvInit, TInvNext, <1>1, PTL DEF Spec

--------------------------------------------------------------------------------
(***************************************************************************)
(* Claims.  With one worker at a time (single_instance), no two processes  *)
(* dispatch the same client order id and no claim moves between living     *)
(* processes: for any number of producers, intents, crashes and leases.    *)
(***************************************************************************)

AtWork == {"claimed", "begun", "cleared", "sent"}

--------------------------------------------------------------------------------
(* What a step does to the claims *)

\* Records go, keep their claim, or lose it; no claim of a living process appears.
ClaimsEvolve ==
  \A j \in Intents :
    \/ queue'[j] = NoRec
    \/ /\ queue[j] # NoRec
       /\ queue[j].rev <= queue'[j].rev
       /\ \/ queue'[j].token = NoToken
          \/ queue'[j].token = queue[j].token /\ queue'[j].rev = queue[j].rev
       /\ LiveClaim(queue'[j]) => LiveClaim(queue[j]) /\ queue'[j].owner = queue[j].owner

\* Snapshots are kept, dropped, or follow their claim.
SnapshotsKept ==
  \A a \in Actors, j \in Intents :
    \/ held'[a][j] = held[a][j]
    \/ held'[a][j] = NoRec
    \/ /\ held[a][j] # NoRec
       /\ held'[a][j].token = held[a][j].token /\ held'[a][j].rev = held[a][j].rev

\* Only process a moves, and it does not take up new work.
OnlyMoves(a) ==
  /\ \A b \in Actors \ {a} : stage'[b] = stage[b] /\ job'[b] = job[b] /\ held'[b] = held[b]
  /\ stage'[a] \in AtWork =>
       stage[a] \in AtWork /\ job'[a] = job[a] /\ held'[a] = held[a]
  /\ stage'[a] \in {"cleared", "sent"} => stage[a] \in {"cleared", "sent"}
  /\ stage'[a] # "idle" => stage[a] # "idle"
  /\ stage'[a] = "refused" => stage[a] = "refused" /\ job'[a] = job[a]
  /\ a \in Producers => stage'[a] \in {"idle", "refused", "claimed", "cleared", "sent"}
  /\ a \in Workers => stage'[a] \notin {"refused", "claimed"}
  /\ todo' = todo
  /\ \A w \in Workers : \/ plan'[w] = {}
                        \/ plan'[w] = plan[w] /\ stage'[w] = stage[w]

\* What every step is shown to do: keep the invariant, and keep a live claim with
\* its owner.
OwnersKept ==
  \A i \in Queued :
    /\ LiveClaim(queue[i])
    /\ queue'[i] # NoRec /\ queue'[i].sub = "producer_claimed"
    => queue'[i].owner \in {queue[i].owner, Nobody}

SafeStep == DInv' /\ OwnersKept

LEMMA SnapshotsStep ==
  ASSUME TInv, TInv', DInv, ClaimsEvolve, SnapshotsKept
  PROVE  TokensDistinct' /\ SnapshotsLeased'
<1>1. TokensDistinct'
  BY DEF DInv, TokensDistinct, SnapshotsKept
<1>2. SnapshotsLeased'
  <2> SUFFICES ASSUME NEW a \in Actors, NEW i \in Intents, held'[a][i] # NoRec
               PROVE  /\ held'[a][i].token \in Tokens
                      /\ queue'[i] # NoRec => held'[a][i].rev <= queue'[i].rev
    BY DEF SnapshotsLeased
  <2>1. held[a][i] # NoRec /\ held'[a][i].token = held[a][i].token
        /\ held'[a][i].rev = held[a][i].rev
    BY DEF SnapshotsKept
  <2>2. ASSUME queue'[i] # NoRec
        PROVE  held'[a][i].rev <= queue'[i].rev
    <3>1. queue[i] # NoRec /\ queue[i].rev <= queue'[i].rev /\ held[a][i].rev <= queue[i].rev
      BY <2>1, <2>2 DEF DInv, SnapshotsLeased, ClaimsEvolve
    <3>2. held[a][i].rev \in Nat /\ queue[i].rev \in Nat /\ queue'[i].rev \in Nat
      BY <2>1, <2>2, <3>1 DEF TInv, TypeOK, Records
    <3> QED BY <2>1, <3>1, <3>2
  <2> QED BY <2>1, <2>2 DEF DInv, SnapshotsLeased
<1> QED BY <1>1, <1>2

LEMMA SparingStep ==
  ASSUME TInv, DInv, ClaimsEvolve, SnapshotsKept,
         \A w \in Workers : plan'[w] \subseteq plan[w]
  PROVE  PlansSpareLiveClaims' /\ BatchesSpareLiveClaims'
<1>1. PlansSpareLiveClaims'
  BY DEF DInv, PlansSpareLiveClaims, ClaimsEvolve, Queued
<1>2. BatchesSpareLiveClaims'
  <2> SUFFICES ASSUME NEW w \in Workers, NEW i \in Intents,
                      Matches(i, held[w][i])', LiveClaim(queue[i])'
               PROVE  queue'[i].owner = w
    BY DEF BatchesSpareLiveClaims
  <2>1. /\ held'[w][i] # NoRec /\ queue'[i] # NoRec /\ held'[w][i].token # NoToken
        /\ queue'[i].token = held'[w][i].token /\ queue'[i].rev = held'[w][i].rev
    BY DEF Matches
  <2>2. held[w][i] # NoRec /\ held'[w][i].token = held[w][i].token
        /\ held'[w][i].rev = held[w][i].rev
    BY <2>1 DEF SnapshotsKept
  <2>3. queue[i] # NoRec /\ queue'[i].token = queue[i].token /\ queue'[i].rev = queue[i].rev
        /\ LiveClaim(queue[i]) /\ queue'[i].owner = queue[i].owner
    BY <2>1 DEF ClaimsEvolve
  <2>4. Matches(i, held[w][i])
    BY <2>1, <2>2, <2>3 DEF Matches
  <2> QED BY <2>3, <2>4 DEF DInv, BatchesSpareLiveClaims
<1> QED BY <1>1, <1>2

LEMMA QuietStep ==
  ASSUME TInv, TInv', DInv, NEW a \in Actors, ClaimsEvolve, SnapshotsKept, OnlyMoves(a),
         \A b \in Actors : stage[b] \in AtWork /\ stage'[b] \in AtWork => Owns(b)'
  PROVE  SafeStep
<1>1. TokensDistinct' /\ SnapshotsLeased'
  BY SnapshotsStep
<1>2. PlansSpareLiveClaims' /\ BatchesSpareLiveClaims'
  BY SparingStep DEF OnlyMoves
<1>3. SoloWorker' /\ StagesFit'
  BY DEF DInv, SoloWorker, StagesFit, OnlyMoves
<1>4. UnplacedUntouched'
  <2>1. \A i \in Intents : Unplaced(i)' => Unplaced(i)
    BY DEF OnlyMoves, Unplaced
  <2>2. \A p \in Producers : stage'[p] = "refused" => stage[p] = "refused" /\ job'[p] = job[p]
    BY DEF OnlyMoves
  <2>3. \A i \in Intents : queue[i] = NoRec => queue'[i] = NoRec
    BY DEF ClaimsEvolve
  <2>4. \A b \in Actors, i \in Intents : held[b][i] = NoRec => held'[b][i] = NoRec
    BY DEF SnapshotsKept
  <2>5. todo' = todo /\ \A w \in Workers : plan'[w] \subseteq plan[w]
    BY DEF OnlyMoves
  <2> QED BY <2>1, <2>2, <2>3, <2>4, <2>5 DEF DInv, UnplacedUntouched
<1>5. DispatchersOwn'
  BY DEF DispatchersOwn, OnlyMoves, AtWork
<1>6. SingleDispatcher'
  BY DEF DInv, SingleDispatcher, InDispatch, OnlyMoves, AtWork
<1>7. OwnersKept
  BY DEF OwnersKept, ClaimsEvolve, Queued, LiveClaim, OwnerAlive
<1> QED BY <1>1, <1>2, <1>3, <1>4, <1>5, <1>6, <1>7 DEF SafeStep, DInv

--------------------------------------------------------------------------------
(* Fenced writes that give the lease up *)

\* The records such a write can leave in place of r: r at the same revision and
\* lifecycle, adopted, or revised, and never a live claim that r was not.
Successor(r, new) ==
  \/ new = NoRec
  \/ /\ new \in Records
     /\ new.token = NoToken
     /\ LiveClaim(new) => LiveClaim(r) /\ new.owner = r.owner
     /\ \/ new.rev = r.rev /\ new.life \in {r.life, "accepted"}
        \/ new.rev = r.rev + 1

LEMMA UnclaimedFields ==
  ASSUME NEW u \in Records
  PROVE  /\ Unclaimed(u) \in Records /\ Unclaimed(u).token = NoToken
         /\ Unclaimed(u).sub = u.sub /\ Unclaimed(u).owner = u.owner
         /\ Unclaimed(u).rev = u.rev /\ Unclaimed(u).life = u.life
BY DEF Unclaimed, Records

LEMMA Successors ==
  ASSUME NEW r \in Records, NEW reason \in Refusals
  PROVE  /\ Successor(r, NoRec)
         /\ Successor(r, Unclaimed(r))
         /\ Successor(r, Unclaimed(Refused(r, reason)))
         /\ Successor(r, Unclaimed(Ambiguous(r)))
<1>1. Successor(r, NoRec)
  BY DEF Successor
<1>2. Successor(r, Unclaimed(r))
  BY UnclaimedFields DEF Successor, LiveClaim, OwnerAlive
<1>3. Successor(r, Unclaimed(Refused(r, reason)))
  <2> DEFINE u == Refused(r, reason)
  <2>1. u \in Records /\ u.sub = "refused" /\ u.rev = r.rev /\ u.life = r.life
    BY ZenonT(40) DEF Refused, Discardable, VenueEvidence, Records, SubmissionStates, Reasons, Refusals
  <2> HIDE DEF u
  <2>2. Successor(r, Unclaimed(u))
    BY <2>1, UnclaimedFields DEF Successor, LiveClaim
  <2> QED BY <2>2 DEF u
<1>4. Successor(r, Unclaimed(Ambiguous(r)))
  <2> DEFINE u == Ambiguous(r)
  <2>1. u \in Records /\ u.sub = "unknown" /\ u.rev = r.rev /\ u.life = r.life
    BY DEF Ambiguous, Records, SubmissionStates, Reasons
  <2> HIDE DEF u
  <2>2. Successor(r, Unclaimed(u))
    BY <2>1, UnclaimedFields DEF Successor, LiveClaim
  <2> QED BY <2>2 DEF u
<1> QED BY <1>1, <1>2, <1>3, <1>4

LEMMA AcceptedSuccessor ==
  ASSUME NEW r \in Records, NEW o \in Oids, orders[o] \in Orders
  PROVE  Successor(r, Unclaimed(Accepted(r, o))) /\ Unclaimed(Accepted(r, o)).life = "accepted"
<1> DEFINE u == Accepted(r, o)
<1>1. u \in Records /\ u.sub = "accepted" /\ u.rev = r.rev /\ u.life = "accepted"
  BY DEF Accepted, Records, SubmissionStates, Reasons, Lifecycles, Orders
<1> HIDE DEF u
<1>2. Successor(r, Unclaimed(u)) /\ Unclaimed(u).life = "accepted"
  BY <1>1, UnclaimedFields DEF Successor, LiveClaim
<1> QED BY <1>2 DEF u

LEMMA RevisedSuccessor ==
  ASSUME NEW r \in Records, r.oid \in Oids, orders[r.oid] \in Orders,
         orders[r.oid].filled <= orders[r.oid].qty
  PROVE  Successor(r, Unclaimed(Revised(r)))
<1> DEFINE u == Revised(r)
<1>1. u \in Records /\ u.rev = r.rev + 1
  BY RevisedRecord
<1>2. u.sub = "refused"
  BY DEF Revised, Records
<1> HIDE DEF u
<1>3. Successor(r, Unclaimed(u))
  BY <1>1, <1>2, UnclaimedFields DEF Successor, LiveClaim
<1> QED BY <1>3 DEF u

LEMMA FencedClaims ==
  ASSUME TInv, NEW i \in Intents, NEW s, NEW new, Write(i, s, new),
         Matches(i, s) => Successor(queue[i], new)
  PROVE  ClaimsEvolve
<1>1. queue \in [Intents -> Records \cup {NoRec}]
  BY DEF TInv, TypeOK
<1>2. CASE Matches(i, s)
  <2>1. queue' = [queue EXCEPT ![i] = new] /\ queue[i] \in Records /\ queue[i] # NoRec
    BY <1>1, <1>2 DEF Write, Matches
  <2>2. new = NoRec \/ queue[i].rev <= new.rev
    BY <1>2, <2>1 DEF Successor, Records
  <2>3. \A j \in Intents : queue[j] # NoRec => queue[j].rev <= queue[j].rev
    BY <1>1 DEF Records
  <2> QED BY <1>1, <1>2, <2>1, <2>2, <2>3 DEF Successor, ClaimsEvolve
<1>3. CASE ~Matches(i, s)
  <2>1. \A j \in Intents : queue[j] # NoRec => queue[j].rev <= queue[j].rev
    BY <1>1 DEF Records
  <2> QED BY <1>3, <2>1 DEF Write, ClaimsEvolve
<1> QED BY <1>2, <1>3

\* Another process's write cannot take a record from its owner.
LEMMA OwnsThroughWrite ==
  ASSUME TInv, DInv, NEW b \in Actors, stage[b] \in AtWork,
         job'[b] = job[b], held'[b] = held[b],
         NEW i \in Intents, NEW s, NEW new, Write(i, s, new),
         Matches(i, s) => Successor(queue[i], new),
         \/ new = NoRec \/ new.life = "accepted"
         \/ s # NoRec /\ s.token # held[b][job[b]].token
         \/ ~Matches(i, s)
  PROVE  Owns(b)'
<1> DEFINE j == job[b]
           h == held[b][j]
<1>1. j \in Intents /\ h \in Records /\ h # NoRec /\ Owns(b)
      /\ queue \in [Intents -> Records \cup {NoRec}]
  BY DEF TInv, TypeOK, JobHeld, AtWork, WithSnapshot, DInv, DispatchersOwn
<1>2. CASE queue'[j] = queue[j]
  BY <1>1, <1>2 DEF Owns, Matches
<1>3. CASE queue'[j] # queue[j]
  <2>1. i = j /\ Matches(i, s) /\ queue'[j] = new
    BY <1>1, <1>3 DEF Write
  <2>2. queue[j] \in Records /\ Successor(queue[j], new)
    BY <1>1, <2>1 DEF Matches
  <2>3. CASE new = NoRec \/ new.life = "accepted"
    BY <2>1, <2>3 DEF Owns
  <2>4. CASE s # NoRec /\ s.token # h.token /\ new # NoRec /\ new.life # "accepted"
    <3>1. queue[j].life = "accepted" \/ queue[j].rev > h.rev
      BY <1>1, <2>1, <2>4 DEF Owns, Matches
    <3>2. h.rev <= queue[j].rev /\ h.rev \in Nat /\ queue[j].rev \in Nat
      BY <1>1, <2>1, <2>2 DEF DInv, SnapshotsLeased, Matches, Records
    <3>3. new.rev > h.rev
      BY <2>2, <2>4, <3>1, <3>2 DEF Successor
    <3> QED BY <2>1, <3>3 DEF Owns
  <2> QED BY <2>1, <2>3, <2>4
<1> QED BY <1>2, <1>3

LEMMA FencedQuiet ==
  ASSUME TInv, TInv', DInv, NEW a \in Actors, NEW i \in Intents, NEW new,
         Write(i, held[a][i], new), Matches(i, held[a][i]) => Successor(queue[i], new),
         SnapshotsKept, OnlyMoves(a), stage'[a] \notin AtWork
  PROVE  SafeStep
<1>1. ClaimsEvolve
  BY FencedClaims
<1>2. ASSUME NEW b \in Actors, stage[b] \in AtWork, stage'[b] \in AtWork
      PROVE  Owns(b)'
  <2>1. b # a /\ job'[b] = job[b] /\ held'[b] = held[b]
    BY <1>2 DEF OnlyMoves
  <2>2. job[b] \in Intents /\ held[b][job[b]] # NoRec
    BY <1>2 DEF TInv, JobHeld, AtWork, WithSnapshot
  <2>3. Matches(i, held[a][i]) =>
          held[a][i] # NoRec /\ held[a][i].token # held[b][job[b]].token
    BY <2>1, <2>2 DEF Matches, DInv, TokensDistinct
  <2> QED BY <1>2, <2>1, <2>3, OwnsThroughWrite
<1> QED BY <1>1, <1>2, QuietStep

LEMMA ResumeMoves ==
  ASSUME TInv, DInv, NEW a \in Actors, Resume(a), UNCHANGED <<todo, plan>>,
         stage[a] \in WithSnapshot
  PROVE  SnapshotsKept /\ OnlyMoves(a) /\ stage'[a] \notin AtWork
<1>1. /\ stage \in [Actors -> Stages] /\ job \in [Actors -> Intents \cup {NoIntent}]
      /\ held \in [Actors -> [Intents -> Records \cup {NoRec}]] /\ job[a] \in Intents
  BY DEF TInv, TypeOK, JobHeld
<1>2. SnapshotsKept
  BY <1>1 DEF Resume, SnapshotsKept
<1>3. stage' = [stage EXCEPT ![a] = IF a \in Producers THEN "idle" ELSE "working"]
      /\ stage'[a] \notin AtWork
  BY <1>1 DEF Resume, AtWork
<1>4. \A w \in Workers : plan'[w] = {} \/ (plan'[w] = plan[w] /\ stage'[w] = stage[w])
  BY <1>1, <1>3 DEF DInv, SoloWorker, WithSnapshot
<1>5. \A b \in Actors \ {a} : stage'[b] = stage[b] /\ job'[b] = job[b] /\ held'[b] = held[b]
  BY <1>1 DEF Resume
<1> QED BY <1>1, <1>2, <1>3, <1>4, <1>5, ActorsAssumption DEF OnlyMoves, AtWork, WithSnapshot

LEMMA DropMoves ==
  ASSUME TInv, DInv, NEW w \in Workers, NEW i \in Intents, Turn(w, i), Drop(w, i),
         UNCHANGED <<todo, stage, job, plan>>
  PROVE  SnapshotsKept /\ OnlyMoves(w) /\ stage'[w] \notin AtWork
<1>1. held \in [Actors -> [Intents -> Records \cup {NoRec}]] /\ stage[w] = "working"
      /\ stage' = stage
  BY DEF TInv, TypeOK, Turn
<1>2. SnapshotsKept
  BY <1>1 DEF Drop, SnapshotsKept
<1>3. OnlyMoves(w)
  BY <1>1, ActorsAssumption DEF DInv, StagesFit, Drop, OnlyMoves, AtWork
<1> QED BY <1>1, <1>2, <1>3 DEF AtWork

LEMMA RefuseLateFences ==
  ASSUME TInv, TInv', DInv, NEW a \in Actors, RefuseLate(a)
  PROVE  SafeStep
<1> DEFINE i == job[a]
<1>1. i \in Intents /\ SnapshotsKept /\ OnlyMoves(a) /\ stage'[a] \notin AtWork
  BY ResumeMoves DEF RefuseLate, TInv, JobHeld, WithSnapshot
<1>2. Matches(i, held[a][i]) => queue[i] \in Records
  BY <1>1, MatchedRecord
<1>3. CASE Write(i, held[a][i], NoRec)
  BY <1>1, <1>3, FencedQuiet DEF Successor
<1>4. ASSUME NEW reason \in Refusals,
             Write(i, held[a][i], Unclaimed(Refused(queue[i], reason)))
      PROVE  SafeStep
  BY <1>1, <1>2, <1>4, Successors, FencedQuiet
<1> QED BY <1>3, <1>4 DEF RefuseLate

LEMMA ReturnAcceptedFences ==
  ASSUME TInv, TInv', DInv, NEW a \in Actors, ReturnAccepted(a)
  PROVE  SafeStep
<1> DEFINE i == job[a]
<1>1. i \in Intents /\ SnapshotsKept /\ OnlyMoves(a) /\ stage'[a] \notin AtWork
  BY ResumeMoves DEF ReturnAccepted, TInv, JobHeld, WithSnapshot
<1>2. Matches(i, held[a][i]) => queue[i] \in Records
  BY <1>1, MatchedRecord
<1>3. answer[a] \in Oids /\ orders[answer[a]] \in Orders
  BY DEF TInv, TypeOK, AcceptedHasOrder, ReturnAccepted
<1>4. Write(i, held[a][i], Unclaimed(Accepted(queue[i], answer[a])))
  BY DEF ReturnAccepted
<1> QED BY <1>1, <1>2, <1>3, <1>4, AcceptedSuccessor, FencedQuiet

LEMMA ReturnUnknownFences ==
  ASSUME TInv, TInv', DInv, NEW a \in Actors, ReturnUnknown(a)
  PROVE  SafeStep
<1> DEFINE i == job[a]
<1>1. CASE a \in Producers
  <2>1. i \in Intents /\ SnapshotsKept /\ OnlyMoves(a) /\ stage'[a] \notin AtWork
    BY <1>1, ResumeMoves DEF ReturnUnknown, TInv, JobHeld, WithSnapshot
  <2>2. Matches(i, held[a][i]) => queue[i] \in Records
    BY <2>1, MatchedRecord
  <2>3. Write(i, held[a][i], Unclaimed(Ambiguous(queue[i])))
    BY <1>1 DEF ReturnUnknown
  <2> QED BY <2>1, <2>2, <2>3, Successors, FencedQuiet DEF Refusals
<1>2. CASE a \notin Producers
  <2>1. /\ stage \in [Actors -> Stages] /\ stage' = [stage EXCEPT ![a] = "unsure"]
        /\ stage[a] = "sent" /\ UNCHANGED <<queue, held, job, todo, plan>>
        /\ queue \in [Intents -> Records \cup {NoRec}]
    BY <1>2 DEF ReturnUnknown, TInv, TypeOK
  <2>2. ClaimsEvolve
    BY <2>1 DEF ClaimsEvolve, Records
  <2>3. SnapshotsKept
    BY <2>1 DEF SnapshotsKept
  <2>4. OnlyMoves(a) /\ stage'[a] \notin AtWork
    BY <1>2, <2>1 DEF DInv, SoloWorker, OnlyMoves, AtWork
  <2>5. ASSUME NEW b \in Actors, stage[b] \in AtWork
        PROVE  Owns(b)'
    BY <2>1, <2>5 DEF DInv, DispatchersOwn, AtWork, Owns, Matches
  <2> QED BY <2>2, <2>3, <2>4, <2>5, QuietStep
<1> QED BY <1>1, <1>2

LEMMA LookupAfterFences ==
  ASSUME TInv, TInv', DInv, NEW w \in Workers, LookupAfter(w)
  PROVE  SafeStep
<1> DEFINE i == job[w]
<1>1. i \in Intents /\ SnapshotsKept /\ OnlyMoves(w) /\ stage'[w] \notin AtWork
  BY ResumeMoves DEF LookupAfter, TInv, JobHeld, WithSnapshot
<1>2. Matches(i, held[w][i]) => queue[i] \in Records
  BY <1>1, MatchedRecord
<1>3. ASSUME NEW o \in OrdersOf(i, held[w][i].rev),
             Write(i, held[w][i], Unclaimed(Accepted(queue[i], o)))
      PROVE  SafeStep
  <2>1. o \in Oids /\ orders[o] \in Orders
    BY DEF OrdersOf, TInv, TypeOK
  <2> QED BY <1>1, <1>2, <1>3, <2>1, AcceptedSuccessor, FencedQuiet
<1>4. CASE Write(i, held[w][i], Unclaimed(Ambiguous(queue[i])))
  BY <1>1, <1>2, <1>4, Successors, FencedQuiet DEF Refusals
<1> QED BY <1>3, <1>4 DEF LookupAfter

LEMMA ReleaseFences ==
  ASSUME TInv, TInv', DInv, NEW w \in Workers, NEW i \in Intents, Turn(w, i),
         Release(w, i), UNCHANGED <<todo, stage, job, plan>>
  PROVE  SafeStep
<1>1. SnapshotsKept /\ OnlyMoves(w) /\ stage'[w] \notin AtWork
  BY DropMoves DEF Release
<1>2. Matches(i, held[w][i]) => queue[i] \in Records
  BY MatchedRecord
<1>3. Write(i, held[w][i], Unclaimed(queue[i]))
  BY DEF Release
<1> QED BY <1>1, <1>2, <1>3, Successors, FencedQuiet DEF Refusals

LEMMA LookupFoundFences ==
  ASSUME TInv, TInv', DInv, NEW w \in Workers, NEW i \in Intents, LookupFound(w, i)
  PROVE  SafeStep
<1>1. SnapshotsKept /\ OnlyMoves(w) /\ stage'[w] \notin AtWork
  BY DropMoves DEF LookupFound
<1>2. Matches(i, held[w][i]) => queue[i] \in Records
  BY MatchedRecord
<1>3. PICK o \in OrdersOf(i, held[w][i].rev) :
        Write(i, held[w][i], Unclaimed(Accepted(queue[i], o)))
  BY DEF LookupFound
<1>4. o \in Oids /\ orders[o] \in Orders
  BY DEF OrdersOf, TInv, TypeOK
<1> QED BY <1>1, <1>2, <1>3, <1>4, AcceptedSuccessor, FencedQuiet

LEMMA SettleOrderFences ==
  ASSUME TInv, TInv', DInv, NEW w \in Workers, NEW i \in Intents, SettleOrder(w, i)
  PROVE  SafeStep
<1> DEFINE s == held[w][i]
<1>1. SnapshotsKept /\ OnlyMoves(w) /\ stage'[w] \notin AtWork
  BY DropMoves DEF SettleOrder
<1>2. ASSUME Matches(i, s)
      PROVE  Successor(queue[i], Unclaimed(Revised(queue[i])))
  <2>1. queue[i] \in Records /\ queue[i].life = "accepted"
    BY <1>2, MatchedRecord DEF SettleOrder, TInv, SnapshotsAgree
  <2>2. queue[i].oid \in Oids /\ orders[queue[i].oid] \in Orders
        /\ orders[queue[i].oid].filled <= orders[queue[i].oid].qty
    BY <1>2, <2>1, MatchedRecord DEF TInv, TypeOK, OrdersSane
  <2> QED BY <2>1, <2>2, RevisedSuccessor
<1>3. CASE Write(i, s, NoRec)
  BY <1>1, <1>3, FencedQuiet DEF Successor
<1>4. CASE Write(i, s, Unclaimed(Revised(queue[i])))
  BY <1>1, <1>2, <1>4, FencedQuiet
<1> QED BY <1>3, <1>4 DEF SettleOrder

--------------------------------------------------------------------------------
(* Steps that write no claim *)

LEMMA StillStep ==
  ASSUME TInv, TInv', DInv, UNCHANGED <<queue, todo, stage, job, held, plan>>
  PROVE  SafeStep
<1>1. TokensDistinct' /\ SnapshotsLeased'
  BY DEF DInv, TokensDistinct, SnapshotsLeased
<1>2. SoloWorker' /\ StagesFit' /\ UnplacedUntouched'
  BY DEF DInv, SoloWorker, StagesFit, UnplacedUntouched, Unplaced
<1>3. PlansSpareLiveClaims' /\ BatchesSpareLiveClaims'
  BY DEF DInv, PlansSpareLiveClaims, BatchesSpareLiveClaims, Queued, Matches
<1>4. DispatchersOwn'
  BY DEF DInv, DispatchersOwn, Owns, Matches
<1>5. SingleDispatcher'
  BY DEF DInv, SingleDispatcher, InDispatch
<1>6. OwnersKept
  BY DEF OwnersKept
<1> QED BY <1>1, <1>2, <1>3, <1>4, <1>5, <1>6 DEF SafeStep, DInv

\* Process a moves, between stages that hold no claim or from cleared to sent.
LEMMA MoveStep ==
  ASSUME TInv, TInv', DInv, NEW a \in Actors, OnlyMoves(a), held' = held, queue' = queue
  PROVE  SafeStep
<1>1. ClaimsEvolve
  BY DEF TInv, TypeOK, ClaimsEvolve, Records
<1>2. SnapshotsKept
  BY DEF SnapshotsKept
<1>3. ASSUME NEW b \in Actors, stage[b] \in AtWork, stage'[b] \in AtWork
      PROVE  Owns(b)'
  <2>1. job'[b] = job[b]
    BY <1>3 DEF OnlyMoves
  <2> QED BY <1>3, <2>1 DEF DInv, DispatchersOwn, AtWork, Owns, Matches
<1> QED BY <1>1, <1>2, <1>3, QuietStep

LEMMA ClearFences ==
  ASSUME TInv, TInv', DInv, NEW w \in Workers, NEW i \in Intents, Clear(w, i)
  PROVE  SafeStep
<1>1. /\ stage' = [stage EXCEPT ![w] = "looked"] /\ job' = [job EXCEPT ![w] = i]
      /\ stage[w] = "working" /\ UNCHANGED <<queue, todo, held, plan>>
      /\ stage \in [Actors -> Stages] /\ job \in [Actors -> Intents \cup {NoIntent}]
  BY DEF Clear, Turn, TInv, TypeOK
<1>2. OnlyMoves(w)
  BY <1>1, ActorsAssumption DEF DInv, SoloWorker, OnlyMoves, AtWork
<1> QED BY <1>1, <1>2, MoveStep

LEMMA EndPassFences ==
  ASSUME TInv, TInv', DInv, NEW w \in Workers, EndPass(w)
  PROVE  SafeStep
<1>1. /\ stage' = [stage EXCEPT ![w] = "idle"] /\ stage[w] = "working"
      /\ UNCHANGED <<queue, todo, job, held, plan>> /\ stage \in [Actors -> Stages]
  BY DEF EndPass, TInv, TypeOK
<1>2. OnlyMoves(w)
  BY <1>1, ActorsAssumption DEF DInv, SoloWorker, OnlyMoves, AtWork
<1> QED BY <1>1, <1>2, MoveStep

LEMMA SendFences ==
  ASSUME TInv, TInv', DInv, NEW a \in Actors, Send(a)
  PROVE  SafeStep
<1>1. /\ stage' = [stage EXCEPT ![a] = "sent"] /\ stage[a] = "cleared"
      /\ UNCHANGED <<queue, todo, job, held, plan>> /\ stage \in [Actors -> Stages]
  BY DEF Send, TInv, TypeOK
<1>2. OnlyMoves(a)
  BY <1>1, ActorsAssumption DEF DInv, SoloWorker, OnlyMoves, AtWork
<1> QED BY <1>1, <1>2, MoveStep

LEMMA AdoptLiveFences ==
  ASSUME TInv, TInv', DInv, NEW w \in Workers, NEW i \in Intents, AdoptLive(w, i)
  PROVE  SafeStep
<1> DEFINE s == seen[w][i]
<1>1. PICK o \in OrdersOf(i, s.rev) : Write(i, s, Unclaimed(Accepted(queue[i], o)))
  BY DEF AdoptLive
<1> DEFINE new == Unclaimed(Accepted(queue[i], o))
<1>2. Matches(i, s) => Successor(queue[i], new) /\ new.life = "accepted"
  BY MatchedRecord, AcceptedSuccessor DEF OrdersOf, TInv, TypeOK
<1>3. ClaimsEvolve
  BY <1>1, <1>2, FencedClaims
<1>4. SnapshotsKept /\ OnlyMoves(w)
  BY ActorsAssumption DEF AdoptLive, SnapshotsKept, OnlyMoves, DInv, StagesFit
<1>5. ASSUME NEW b \in Actors, stage[b] \in AtWork
      PROVE  Owns(b)'
  <2>1. job'[b] = job[b] /\ held'[b] = held[b]
    BY DEF AdoptLive
  <2> HIDE DEF new
  <2>2. Write(i, s, new)
    BY <1>1 DEF new
  <2> QED BY <1>2, <1>5, <2>1, <2>2, OwnsThroughWrite
<1> QED BY <1>3, <1>4, <1>5, QuietStep

--------------------------------------------------------------------------------
(* Steps without a fence: expiry, consolidation, the clock, crashes *)

\* A step that keeps, drops, or disowns records without touching their claims.
LEMMA OwnsKept ==
  ASSUME TInv, DInv, NEW b \in Actors, stage[b] \in AtWork,
         job'[b] = job[b], held'[b] = held[b],
         \/ queue'[job[b]] = NoRec
         \/ LET r == queue[job[b]]
                new == queue'[job[b]]
            IN  /\ r # NoRec /\ new.token = r.token /\ new.rev = r.rev
                /\ new.life = r.life /\ new.sub = r.sub
                /\ r.owner = b => new.owner = b
  PROVE  Owns(b)'
<1>1. Owns(b)
  BY DEF DInv, DispatchersOwn, AtWork
<1> QED BY <1>1 DEF Owns, Matches

LEMMA DropRecordsStep ==
  ASSUME TInv, TInv', DInv, NEW gone \in SUBSET Intents,
         queue' = [j \in Intents |-> IF j \in gone THEN NoRec ELSE queue[j]],
         NEW a \in Actors, UNCHANGED <<todo, stage, job, held, plan>>
  PROVE  SafeStep
<1>1. \A j \in Intents : queue'[j] = NoRec \/ queue'[j] = queue[j]
  OBVIOUS
<1>2. ClaimsEvolve
  BY <1>1 DEF TInv, TypeOK, ClaimsEvolve, Records
<1>3. SnapshotsKept /\ OnlyMoves(a)
  BY ActorsAssumption DEF SnapshotsKept, OnlyMoves, DInv, StagesFit
<1>4. ASSUME NEW b \in Actors, stage[b] \in AtWork
      PROVE  Owns(b)'
  <2>1. job[b] \in Intents
    BY <1>4 DEF TInv, JobHeld, AtWork, WithSnapshot
  <2> QED BY <1>1, <1>4, <2>1 DEF DInv, DispatchersOwn, AtWork, Owns, Matches
<1> QED BY <1>2, <1>3, <1>4, QuietStep

LEMMA ExpireFences ==
  ASSUME TInv, TInv', DInv, NEW w \in Workers, NEW i \in Intents, Expire(w, i)
  PROVE  SafeStep
<1>1. queue' = [j \in Intents |-> IF j \in {i} THEN NoRec ELSE queue[j]]
  BY DEF TInv, TypeOK, Expire
<1> QED BY <1>1, DropRecordsStep DEF Expire

LEMMA ConsolidateFences ==
  ASSUME TInv, TInv', DInv, NEW w \in Workers, Consolidate(w)
  PROVE  SafeStep
<1>1. PICK gone \in SUBSET Intents :
        queue' = [i \in Intents |-> IF i \in gone THEN NoRec ELSE queue[i]]
  BY DEF Consolidate, Queued
<1> QED BY <1>1, DropRecordsStep DEF Consolidate

LEMMA ResolveAcceptedFences ==
  ASSUME TInv, TInv', DInv, NEW i \in Intents, ResolveAccepted(i), NEW a \in Actors
  PROVE  SafeStep
<1>1. queue' = [j \in Intents |-> IF j \in {i} THEN NoRec ELSE queue[j]]
  BY DEF TInv, TypeOK, ResolveAccepted
<1> QED BY <1>1, DropRecordsStep DEF ResolveAccepted

LEMMA LapseFences ==
  ASSUME TInv, TInv', DInv, NEW i \in Intents, Lapse(i), NEW a \in Actors
  PROVE  SafeStep
<1> DEFINE r == [queue[i] EXCEPT !.live = FALSE]
<1>1. /\ queue \in [Intents -> Records \cup {NoRec}] /\ queue[i] \in Records
      /\ queue[i] # NoRec /\ UNCHANGED <<todo, stage, job, held, plan>>
      /\ queue' = [queue EXCEPT ![i] = r]
  BY DEF TInv, TypeOK, Lapse, Queued
<1>2. /\ r.token = queue[i].token /\ r.rev = queue[i].rev /\ r.life = queue[i].life
      /\ r.sub = queue[i].sub /\ r.owner = queue[i].owner
  BY <1>1 DEF Records
<1> HIDE DEF r
<1>3. \A j \in Intents : queue[j] # NoRec =>
        /\ queue'[j].token = queue[j].token /\ queue'[j].rev = queue[j].rev
        /\ queue'[j].life = queue[j].life /\ queue'[j].sub = queue[j].sub
        /\ queue'[j].owner = queue[j].owner
  BY <1>1, <1>2
<1>4. \A j \in Intents : queue[j] = NoRec => queue'[j] = NoRec
  BY <1>1
<1>5. ClaimsEvolve
  BY <1>1, <1>3, <1>4 DEF ClaimsEvolve, LiveClaim, OwnerAlive, Records
<1>6. SnapshotsKept /\ OnlyMoves(a)
  BY <1>1, ActorsAssumption DEF SnapshotsKept, OnlyMoves, DInv, StagesFit
<1>7. ASSUME NEW b \in Actors, stage[b] \in AtWork
      PROVE  Owns(b)'
  <2>1. job[b] \in Intents
    BY <1>7 DEF TInv, JobHeld, AtWork, WithSnapshot
  <2>2. job'[b] = job[b] /\ held'[b] = held[b]
    BY <1>1
  <2> QED BY <1>3, <1>4, <1>7, <2>1, <2>2, OwnsKept
<1> QED BY <1>5, <1>6, <1>7, QuietStep

\* A process forgets its work and drops its snapshots.
LEMMA ForgetMoves ==
  ASSUME TInv, DInv, NEW a \in Actors, Forget(a), UNCHANGED todo
  PROVE  SnapshotsKept /\ OnlyMoves(a) /\ stage'[a] = "idle"
<1>1. /\ stage \in [Actors -> Stages] /\ job \in [Actors -> Intents \cup {NoIntent}]
      /\ held \in [Actors -> [Intents -> Records \cup {NoRec}]]
  BY DEF TInv, TypeOK
<1>2. SnapshotsKept
  BY <1>1 DEF Forget, SnapshotsKept, NoneHeld
<1>3. stage' = [stage EXCEPT ![a] = "idle"] /\ stage'[a] = "idle"
  BY <1>1 DEF Forget
<1>4. \A w \in Workers : plan'[w] = {} \/ (plan'[w] = plan[w] /\ stage'[w] = stage[w])
  BY <1>1, <1>3 DEF Forget
<1>5. \A b \in Actors \ {a} : stage'[b] = stage[b] /\ job'[b] = job[b] /\ held'[b] = held[b]
  BY <1>1 DEF Forget
<1> QED BY <1>1, <1>2, <1>3, <1>4, <1>5 DEF OnlyMoves, AtWork

LEMMA AbandonFences ==
  ASSUME TInv, TInv', DInv, NEW a \in Actors, Abandon(a)
  PROVE  SafeStep
<1>1. SnapshotsKept /\ OnlyMoves(a) /\ stage'[a] = "idle" /\ queue' = queue
  BY ForgetMoves DEF Abandon
<1>2. ClaimsEvolve
  BY <1>1 DEF TInv, TypeOK, ClaimsEvolve, Records
<1>3. ASSUME NEW b \in Actors, stage[b] \in AtWork, stage'[b] \in AtWork
      PROVE  Owns(b)'
  <2>1. job'[b] = job[b] /\ held'[b] = held[b]
    BY <1>1, <1>3 DEF OnlyMoves, AtWork
  <2> QED BY <1>1, <1>3, <2>1 DEF DInv, DispatchersOwn, AtWork, Owns, Matches
<1> QED BY <1>1, <1>2, <1>3, QuietStep

LEMMA CrashFences ==
  ASSUME TInv, TInv', DInv, NEW a \in Actors, Crash(a)
  PROVE  SafeStep
<1> DEFINE r(i) == [queue[i] EXCEPT !.owner = Nobody]
<1>1. SnapshotsKept /\ OnlyMoves(a) /\ stage'[a] = "idle"
  BY ForgetMoves DEF Crash
<1>2. /\ queue \in [Intents -> Records \cup {NoRec}]
      /\ queue' = [i \in Intents |-> IF i \in Queued /\ queue[i].owner = a
                                     THEN r(i) ELSE queue[i]]
  BY DEF TInv, TypeOK, Crash
<1>3. \A j \in Intents : queue[j] # NoRec =>
        /\ r(j).token = queue[j].token /\ r(j).rev = queue[j].rev
        /\ r(j).life = queue[j].life /\ r(j).sub = queue[j].sub /\ r(j).owner = Nobody
  BY <1>2 DEF Records
<1> HIDE DEF r
<1>4. \A j \in Intents : queue[j] # NoRec =>
        /\ queue'[j].token = queue[j].token /\ queue'[j].rev = queue[j].rev
        /\ queue'[j].life = queue[j].life /\ queue'[j].sub = queue[j].sub
        /\ queue'[j].owner = (IF queue[j].owner = a THEN Nobody ELSE queue[j].owner)
  BY <1>2, <1>3 DEF Queued
<1>5. \A j \in Intents : queue[j] = NoRec => queue'[j] = NoRec
  BY <1>2 DEF Queued
<1>6. ClaimsEvolve
  BY <1>2, <1>4, <1>5 DEF ClaimsEvolve, LiveClaim, OwnerAlive, Records
<1>7. ASSUME NEW b \in Actors, stage[b] \in AtWork, stage'[b] \in AtWork
      PROVE  Owns(b)'
  <2>1. b # a /\ job'[b] = job[b] /\ held'[b] = held[b]
    BY <1>1, <1>7 DEF OnlyMoves, AtWork
  <2>2. job[b] \in Intents
    BY <1>7 DEF TInv, JobHeld, AtWork, WithSnapshot
  <2> QED BY <1>4, <1>5, <1>7, <2>1, <2>2, OwnsKept
<1> QED BY <1>1, <1>6, <1>7, QuietStep

\* Without processes there is nothing to show.
LEMMA NoActorsStep ==
  ASSUME TInv, DInv, Actors = {}, UNCHANGED todo,
         \A j \in Intents : queue[j] = NoRec => queue'[j] = NoRec
  PROVE  SafeStep
<1>1. OwnersKept
  BY DEF TInv, TypeOK, Records, OwnersKept, Queued, LiveClaim, OwnerAlive
<1>2. UnplacedUntouched'
  BY DEF DInv, UnplacedUntouched, Unplaced
<1>3. Producers = {} /\ Workers = {}
  OBVIOUS
<1>4. /\ TokensDistinct' /\ SnapshotsLeased' /\ SoloWorker' /\ StagesFit'
      /\ PlansSpareLiveClaims' /\ DispatchersOwn' /\ BatchesSpareLiveClaims'
      /\ SingleDispatcher'
  BY <1>3 DEF TokensDistinct, SnapshotsLeased, SoloWorker, StagesFit, PlansSpareLiveClaims,
              DispatchersOwn, BatchesSpareLiveClaims, SingleDispatcher
<1> QED BY <1>1, <1>2, <1>4 DEF SafeStep, DInv

--------------------------------------------------------------------------------
(* Taking up work: a process puts its claim on a record, fresh or fenced *)

\* Two processes past their fence, one of which still matches its record.
LEMMA FenceExcludes ==
  ASSUME TInv, TInv', DInv, TokensDistinct', DispatchersOwn', NEW a \in Actors,
         \A b \in Actors \ {a} : stage'[b] = stage[b] /\ job'[b] = job[b] /\ held'[b] = held[b],
         Matches(job[a], held[a][job[a]])',
         queue'[job'[a]].life = "submit_pending"
  PROVE  SingleDispatcher'
<1> SUFFICES ASSUME NEW b \in Actors, NEW c \in Actors, b # c,
                    InDispatch(b)', InDispatch(c)', job'[b] = job'[c]
             PROVE  held'[b][job'[b]].rev # held'[c][job'[c]].rev
  BY DEF SingleDispatcher
<1>1. ASSUME NEW d \in Actors \ {a}, InDispatch(d)', job'[d] = job'[a]
      PROVE  held'[d][job'[d]].rev # held'[a][job'[a]].rev
  <2> DEFINE j == job'[a]
  <2>1. j \in Intents /\ held'[d][j] # NoRec
    BY <1>1 DEF TInv, JobHeld, InDispatch, WithSnapshot
  <2>2. held'[d][j].token # held'[a][j].token /\ Owns(d)'
    BY <1>1, <2>1 DEF TokensDistinct, Matches, DispatchersOwn, InDispatch
  <2>3. queue'[j].rev > held'[d][j].rev /\ queue'[j].rev = held'[a][j].rev
    BY <1>1, <2>2 DEF Owns, Matches
  <2>4. held'[d][j].rev \in Nat /\ queue'[j].rev \in Nat
    BY <1>1, <2>1 DEF TInv, TypeOK, Records, Matches
  <2> QED BY <1>1, <2>3, <2>4
<1>2. CASE b # a /\ c # a
  BY <1>2 DEF DInv, SingleDispatcher, InDispatch
<1> QED BY <1>1, <1>2

\* Process a leaves with claim r on record i, in the queue and in its memory; r
\* carries a token nobody has, or the one a was fenced with.
TakesUp(a, i, r) ==
  /\ r.life = "submit_pending" /\ r.sub = "producer_claimed" /\ r.owner = a
  /\ queue'[i] = r /\ held' = [held EXCEPT ![a][i] = r]
  /\ \A j \in Intents \ {i} : queue'[j] = queue[j] \/ queue'[j] = NoRec
  /\ job'[a] = i
  /\ \A b \in Actors \ {a} : stage'[b] = stage[b] /\ job'[b] = job[b]
  /\ \A w \in Workers : plan'[w] = plan[w] /\ i \notin plan[w]
  /\ \/ /\ Matches(i, held[a][i]) /\ queue[i].life = "submit_pending"
        /\ r.token = queue[i].token /\ r.rev = queue[i].rev
        /\ LiveClaim(queue[i]) => queue[i].owner = a
     \/ /\ queue[i] = NoRec /\ r.token \in Tokens /\ Unused(r.token)
        /\ \A b \in Actors : held[b][i] = NoRec

LEMMA TakesUpStep ==
  ASSUME TInv, TInv', DInv, NEW a \in Actors, NEW i \in Intents, NEW r \in Records,
         r # NoRec, r.token # NoToken, TakesUp(a, i, r),
         SoloWorker', StagesFit', UnplacedUntouched'
  PROVE  SafeStep
<1>0. /\ held \in [Actors -> [Intents -> Records \cup {NoRec}]]
      /\ queue \in [Intents -> Records \cup {NoRec}]
      /\ \A b \in Actors, j \in Intents : b # a \/ j # i => held'[b][j] = held[b][j]
      /\ held'[a][i] = r
      /\ \A b \in Actors \ {a} : held'[b] = held[b]
  BY DEF TInv, TypeOK, TakesUp
<1>1. Matches(i, held[a][i]) =>
        held[a][i] # NoRec /\ held[a][i].token = r.token /\ held[a][i].rev = r.rev
  BY DEF TakesUp, Matches, DInv, TokensDistinct, SnapshotsLeased, TInv, Unused, TypeOK
<1>2. \A b \in Actors \ {a}, j \in Intents : held[b][j] # NoRec => held[b][j].token # r.token
  <2>1. CASE Unused(r.token)
    BY <2>1 DEF Unused
  <2>2. CASE ~Unused(r.token)
    <3>1. Matches(i, held[a][i])
      BY <2>2 DEF TakesUp
    <3> QED BY <1>1, <3>1 DEF DInv, TokensDistinct
  <2> QED BY <2>1, <2>2
<1>3. TokensDistinct'
  <2> SUFFICES ASSUME NEW b \in Actors, NEW c \in Actors, NEW j \in Intents, NEW k \in Intents,
                      b # c, held'[b][j] # NoRec, held'[c][k] # NoRec
               PROVE  held'[b][j].token # held'[c][k].token
    BY DEF TokensDistinct
  <2>1. CASE b = a /\ j = i
    BY <1>0, <1>2, <2>1
  <2>2. CASE c = a /\ k = i
    BY <1>0, <1>2, <2>2
  <2>3. CASE ~(b = a /\ j = i) /\ ~(c = a /\ k = i)
    BY <1>0, <2>3 DEF DInv, TokensDistinct
  <2> QED BY <2>1, <2>2, <2>3
<1>4. SnapshotsLeased'
  <2> SUFFICES ASSUME NEW b \in Actors, NEW j \in Intents, held'[b][j] # NoRec
               PROVE  /\ held'[b][j].token \in Tokens
                      /\ queue'[j] # NoRec => held'[b][j].rev <= queue'[j].rev
    BY DEF SnapshotsLeased
  <2>1. CASE b = a /\ j = i
    BY <1>0, <2>1 DEF TakesUp, Records
  <2>2. CASE ~(b = a /\ j = i) /\ j # i
    BY <1>0, <2>2 DEF TakesUp, DInv, SnapshotsLeased
  <2>3. CASE b # a /\ j = i
    <3>1. held[b][i] # NoRec /\ held'[b][i] = held[b][i]
      BY <1>0, <2>3
    <3>2. Matches(i, held[a][i]) /\ r.rev = queue[i].rev /\ queue[i] # NoRec
      BY <3>1 DEF TakesUp, Matches
    <3> QED BY <2>3, <3>1, <3>2 DEF TakesUp, DInv, SnapshotsLeased
  <2> QED BY <2>1, <2>2, <2>3
<1>5. PlansSpareLiveClaims'
  BY DEF TakesUp, DInv, PlansSpareLiveClaims, Queued
<1>6. BatchesSpareLiveClaims'
  <2> SUFFICES ASSUME NEW w \in Workers, NEW j \in Intents,
                      Matches(j, held[w][j])', LiveClaim(queue[j])'
               PROVE  queue'[j].owner = w
    BY DEF BatchesSpareLiveClaims
  <2>1. CASE j = i
    BY <1>0, <1>2, <2>1 DEF TakesUp, Matches
  <2>2. CASE j # i
    BY <1>0, <2>2 DEF TakesUp, Matches, DInv, BatchesSpareLiveClaims
  <2> QED BY <2>1, <2>2
<1>7. Matches(job[a], held[a][job[a]])' /\ queue'[job'[a]].life = "submit_pending"
  BY <1>0 DEF TakesUp, Matches
<1>8. DispatchersOwn'
  <2> SUFFICES ASSUME NEW b \in Actors, stage'[b] \in AtWork
               PROVE  Owns(b)'
    BY DEF DispatchersOwn, AtWork
  <2>1. CASE b = a
    BY <1>7, <2>1 DEF TakesUp, Owns
  <2>2. CASE b # a
    <3>1. stage[b] \in AtWork /\ job'[b] = job[b] /\ held'[b] = held[b]
      BY <1>0, <2>2 DEF TakesUp
    <3>2. job[b] \in Intents /\ held[b][job[b]] # NoRec /\ Owns(b)
      BY <3>1 DEF TInv, JobHeld, AtWork, WithSnapshot, DInv, DispatchersOwn
    <3>3. CASE job[b] # i
      BY <3>1, <3>2, <3>3 DEF TakesUp, Owns, Matches
    <3>4. CASE job[b] = i
      <4>1. Matches(i, held[a][i]) /\ r.token = queue[i].token /\ r.rev = queue[i].rev
            /\ queue[i].life = "submit_pending"
        BY <3>2, <3>4 DEF TakesUp
      <4>2. ~Matches(i, held[b][i]) /\ queue[i] # NoRec
        BY <1>2, <2>2, <3>2, <3>4, <4>1 DEF Matches
      <4>3. queue[i].life = "accepted" \/ queue[i].rev > held[b][i].rev
        BY <3>2, <3>4, <4>2 DEF Owns
      <4> QED BY <3>1, <3>4, <4>1, <4>3 DEF TakesUp, Owns
    <3> QED BY <3>3, <3>4
  <2> QED BY <2>1, <2>2
<1>9. SingleDispatcher'
  BY <1>0, <1>3, <1>7, <1>8, FenceExcludes DEF TakesUp
<1>10. OwnersKept
  BY DEF TakesUp, OwnersKept, Queued
<1> QED BY <1>3, <1>4, <1>5, <1>6, <1>8, <1>9, <1>10 DEF SafeStep, DInv

\* begin_claimed_submit and update_claimed_qty with the claim still in place.
LEMMA FenceHolds ==
  ASSUME TInv, TInv', DInv, NEW a \in Actors, NEW i \in Intents, i = job[a],
         stage[a] \in {"claimed", "looked", "begun"}, Matches(i, held[a][i]),
         NEW r \in Records, r.life = queue[i].life, r.sub = "producer_claimed", r.owner = a,
         r.token = queue[i].token, r.rev = queue[i].rev,
         NEW next \in {"begun", "cleared"}, next = "begun" => a \in Workers,
         queue' = [queue EXCEPT ![i] = r], held' = [held EXCEPT ![a][i] = r],
         stage' = [stage EXCEPT ![a] = next], UNCHANGED <<todo, job, plan>>
  PROVE  SafeStep
<1>1. /\ queue \in [Intents -> Records \cup {NoRec}] /\ stage \in [Actors -> Stages]
      /\ held \in [Actors -> [Intents -> Records \cup {NoRec}]]
      /\ held[a][i].life = "submit_pending" /\ queue[i] # NoRec /\ r.token # NoToken
  BY DEF TInv, TypeOK, JobHeld, WithSnapshot, Matches
<1>2. queue[i].life = "submit_pending"
  BY <1>1 DEF TInv, SnapshotsAgree
<1>3. \A w \in Workers : i \notin plan[w]
  <2>1. CASE a \in Workers
    BY <2>1 DEF DInv, SoloWorker
  <2>2. CASE a \in Producers
    <3>1. stage[a] = "claimed" /\ Owns(a)
      BY <2>2 DEF DInv, StagesFit, DispatchersOwn
    <3>2. queue[i].rev \in Nat /\ queue[i].rev = held[a][i].rev
      BY <1>1 DEF Matches, Records
    <3>3. LiveClaim(queue[i])
      BY <1>1, <1>2, <3>1, <3>2, NobodyAssumption DEF Owns, LiveClaim, OwnerAlive
    <3> QED BY <1>1, <3>3 DEF DInv, PlansSpareLiveClaims, Queued
  <2> QED BY <2>1, <2>2
<1>4. SoloWorker' /\ StagesFit'
  BY <1>1, ActorsAssumption DEF DInv, SoloWorker, StagesFit
<1>5. UnplacedUntouched'
  <2>1. \A j \in Intents : Unplaced(j)' => Unplaced(j)
    BY <1>1 DEF Unplaced
  <2>2. held[a][i] # NoRec
    BY DEF Matches
  <2>3. \A j \in Intents : Unplaced(j) => j # i
    BY <2>2 DEF DInv, UnplacedUntouched
  <2>4. \A p \in Producers : stage'[p] = "refused" => stage[p] = "refused"
    BY <1>1
  <2>5. \A j \in Intents \ {i} : queue'[j] = queue[j] /\ \A b \in Actors : held'[b][j] = held[b][j]
    BY <1>1
  <2> QED BY <2>1, <2>3, <2>4, <2>5 DEF DInv, UnplacedUntouched
<1>6. r # NoRec
  BY NullsAssumption
<1>7. LiveClaim(queue[i]) => queue[i].owner = a
  <2>1. CASE a \in Workers
    BY <2>1 DEF DInv, BatchesSpareLiveClaims
  <2>2. CASE a \in Producers
    <3>1. Owns(a) /\ queue[i].rev \in Nat /\ queue[i].rev = held[a][i].rev
      BY <1>1, <2>2 DEF DInv, StagesFit, DispatchersOwn, Matches, Records
    <3> QED BY <1>1, <1>2, <3>1 DEF Owns
  <2> QED BY <2>1, <2>2
<1>8. TakesUp(a, i, r)
  BY <1>1, <1>2, <1>3, <1>7 DEF TakesUp
<1> QED BY <1>1, <1>4, <1>5, <1>6, <1>8, TakesUpStep

\* The same two calls when the claim is gone.
LEMMA FenceLost ==
  ASSUME TInv, TInv', DInv, NEW a \in Actors, stage[a] \in WithSnapshot,
         ~Matches(job[a], held[a][job[a]]), queue' = queue, Resume(a), UNCHANGED <<todo, plan>>
  PROVE  SafeStep
<1>1. SnapshotsKept /\ OnlyMoves(a) /\ stage'[a] \notin AtWork /\ job[a] \in Intents
  BY ResumeMoves DEF TInv, JobHeld
<1>2. Write(job[a], held[a][job[a]], NoRec)
  BY DEF Write
<1> QED BY <1>1, <1>2, FencedQuiet

LEMMA BeginProducerFences ==
  ASSUME TInv, TInv', DInv, NEW p \in Producers, BeginProducer(p)
  PROVE  SafeStep
<1> DEFINE i == job[p]
<1>0. i \in Intents
  BY DEF TInv, JobHeld, BeginProducer, WithSnapshot
<1>1. CASE Matches(i, held[p][i])
  <2>1. PICK q \in 1..queue[i].qty :
          LET r == [Begun(queue[i], p, q) EXCEPT !.live = TRUE]
          IN  /\ queue' = [queue EXCEPT ![i] = r]
              /\ held' = [held EXCEPT ![p][i] = r]
              /\ stage' = [stage EXCEPT ![p] = "cleared"]
              /\ job' = job
    BY <1>1 DEF BeginProducer
  <2> DEFINE b == Begun(queue[i], p, q)
             r == [b EXCEPT !.live = TRUE]
  <2>2. queue[i] \in Records /\ q \in Nat
    BY <1>0, <1>1, MatchedRecord DEF Records
  <2>3. b \in Records /\ b.life = queue[i].life /\ b.token = queue[i].token
        /\ b.rev = queue[i].rev
    BY <2>2, BegunRecord
  <2>4. b.sub = "producer_claimed" /\ b.owner = p
    BY <2>2 DEF Begun, Records
  <2>5. r \in Records /\ r.life = queue[i].life /\ r.token = queue[i].token
        /\ r.rev = queue[i].rev /\ r.sub = "producer_claimed" /\ r.owner = p
    <3> HIDE DEF b
    <3> QED BY <2>3, <2>4 DEF Records
  <2>6. /\ queue' = [queue EXCEPT ![i] = r] /\ held' = [held EXCEPT ![p][i] = r]
        /\ stage' = [stage EXCEPT ![p] = "cleared"] /\ UNCHANGED <<todo, job, plan>>
        /\ stage[p] = "claimed"
    BY <2>1 DEF BeginProducer
  <2> HIDE DEF b, r
  <2> QED BY <1>0, <1>1, <2>5, <2>6, FenceHolds
<1>2. CASE ~Matches(i, held[p][i])
  BY <1>2, FenceLost DEF BeginProducer, WithSnapshot
<1> QED BY <1>1, <1>2

LEMMA BeginWorkerFences ==
  ASSUME TInv, TInv', DInv, NEW w \in Workers, BeginWorker(w)
  PROVE  SafeStep
<1> DEFINE i == job[w]
           r == Begun(queue[i], w, queue[i].qty)
<1>0. i \in Intents
  BY DEF TInv, JobHeld, BeginWorker, WithSnapshot
<1>1. CASE Matches(i, held[w][i])
  <2>1. queue[i] \in Records /\ queue[i].qty \in Nat
    BY <1>0, <1>1, MatchedRecord DEF Records
  <2>2. r \in Records /\ r.life = queue[i].life /\ r.token = queue[i].token
        /\ r.rev = queue[i].rev
    BY <2>1, BegunRecord
  <2>3. r.sub = "producer_claimed" /\ r.owner = w
    BY <2>1 DEF Begun, Records
  <2>4. /\ queue' = [queue EXCEPT ![i] = r] /\ held' = [held EXCEPT ![w][i] = r]
        /\ stage' = [stage EXCEPT ![w] = "begun"] /\ UNCHANGED <<todo, job, plan>>
        /\ stage[w] = "looked"
    BY <1>1 DEF BeginWorker
  <2> HIDE DEF r
  <2> QED BY <1>0, <1>1, <2>2, <2>3, <2>4, FenceHolds
<1>2. CASE ~Matches(i, held[w][i])
  BY <1>2, FenceLost DEF BeginWorker, WithSnapshot
<1> QED BY <1>1, <1>2

LEMMA SyncQtyFences ==
  ASSUME TInv, TInv', DInv, NEW w \in Workers, SyncQty(w)
  PROVE  SafeStep
<1> DEFINE i == job[w]
           r(q) == [queue[i] EXCEPT !.qty = q]
<1>0. i \in Intents /\ Owns(w)
  BY DEF TInv, JobHeld, SyncQty, WithSnapshot, DInv, DispatchersOwn
<1>1. CASE Matches(i, held[w][i])
  <2>1. PICK q \in 1..queue[i].qty :
          /\ queue' = [queue EXCEPT ![i] = r(q)] /\ held' = [held EXCEPT ![w][i] = r(q)]
          /\ stage' = [stage EXCEPT ![w] = "cleared"] /\ job' = job
    BY <1>1 DEF SyncQty
  <2>2. queue[i] \in Records /\ q \in Nat /\ queue[i].rev \in Nat
    BY <1>0, <1>1, MatchedRecord DEF Records
  <2>3. queue[i].life = "submit_pending" /\ queue[i].rev = held[w][i].rev /\ queue[i] # NoRec
    BY <1>0, <1>1 DEF TInv, SnapshotsAgree, JobHeld, SyncQty, WithSnapshot, Matches
  <2>4. queue[i].sub = "producer_claimed" /\ queue[i].owner = w
    BY <1>0, <2>2, <2>3 DEF Owns
  <2>5. r(q) \in Records /\ r(q).life = queue[i].life /\ r(q).token = queue[i].token
        /\ r(q).rev = queue[i].rev /\ r(q).sub = "producer_claimed" /\ r(q).owner = w
    BY <2>2, <2>4 DEF Records
  <2> HIDE DEF r
  <2>6. UNCHANGED <<todo, job, plan>> /\ stage[w] = "begun"
    BY <2>1 DEF SyncQty
  <2> QED BY <1>0, <1>1, <2>1, <2>5, <2>6, FenceHolds
<1>2. CASE ~Matches(i, held[w][i])
  BY <1>2, FenceLost DEF SyncQty, WithSnapshot
<1> QED BY <1>1, <1>2

--------------------------------------------------------------------------------
(* New records *)

LEMMA AdmitKeeps ==
  ASSUME NEW q \in [Intents -> Records \cup {NoRec}], NEW i \in Intents, NEW r,
         \A j \in Intents : q[j] = queue[j] \/ q[j] = NoRec, Admit(q, i, r)
  PROVE  /\ queue'[i] = r
         /\ \A j \in Intents \ {i} : queue'[j] = queue[j] \/ queue'[j] = NoRec
<1>1. CASE queue' = [q EXCEPT ![i] = r]
  BY <1>1
<1>2. ASSUME NEW v \in Intents, queue' = [q EXCEPT ![v] = NoRec, ![i] = r]
      PROVE  /\ queue'[i] = r
             /\ \A j \in Intents \ {i} : queue'[j] = queue[j] \/ queue'[j] = NoRec
  BY <1>2
<1> QED BY <1>1, <1>2 DEF Admit, Victims

LEMMA PersistFences ==
  ASSUME TInv, TInv', DInv, NEW p \in Producers, NEW i \in Intents, Persist(p, i)
  PROVE  SafeStep
<1>1. PICK t \in Tokens :
        LET r == NewRecord("producer_claimed", "pending", FALSE, t, p)
        IN  /\ FreshToken(t)
            /\ Admit(queue, i, r)
            /\ held' = [held EXCEPT ![p][i] = r]
  BY DEF Persist
<1> DEFINE r == NewRecord("producer_claimed", "pending", FALSE, t, p)
<1>2. /\ r \in Records /\ r.life = "submit_pending" /\ r.sub = "producer_claimed"
      /\ r.owner = p /\ r.token = t
  BY QtyAssumption DEF NewRecord, Records, Lifecycles, SubmissionStates, Reasons
<1> HIDE DEF r
<1>3. FreshToken(t) /\ Admit(queue, i, r) /\ held' = [held EXCEPT ![p][i] = r]
  BY <1>1 DEF r
<1>4. /\ queue \in [Intents -> Records \cup {NoRec}] /\ stage \in [Actors -> Stages]
      /\ job \in [Actors -> Intents \cup {NoIntent}]
      /\ held \in [Actors -> [Intents -> Records \cup {NoRec}]]
  BY DEF TInv, TypeOK
<1>5. queue'[i] = r /\ \A j \in Intents \ {i} : queue'[j] = queue[j] \/ queue'[j] = NoRec
  BY <1>3, <1>4, AdmitKeeps
<1>6. /\ i \in todo /\ stage[p] = "idle" /\ todo' = todo \ {i} /\ plan' = plan
      /\ stage' = [stage EXCEPT ![p] = "claimed"] /\ job' = [job EXCEPT ![p] = i]
  BY DEF Persist
<1>7. queue[i] = NoRec /\ \A b \in Actors : held[b][i] = NoRec
  BY <1>6 DEF DInv, UnplacedUntouched, Unplaced
<1>8. \A w \in Workers : i \notin plan[w]
  BY <1>6 DEF DInv, UnplacedUntouched, Unplaced
<1>9. SoloWorker' /\ StagesFit'
  BY <1>4, <1>6, ActorsAssumption DEF DInv, SoloWorker, StagesFit
<1>10. UnplacedUntouched'
  <2>1. \A q \in Producers : stage'[q] = "refused" =>
          stage[q] = "refused" /\ job'[q] = job[q] /\ job[q] # i
    BY <1>4, <1>6 DEF DInv, UnplacedUntouched
  <2>2. \A j \in Intents : Unplaced(j)' => Unplaced(j) /\ j # i
    BY <1>6, <2>1 DEF Unplaced
  <2>3. \A j \in Intents \ {i} : \A b \in Actors : held'[b][j] = held[b][j]
    BY <1>3, <1>4
  <2> QED BY <1>5, <1>6, <2>1, <2>2, <2>3 DEF DInv, UnplacedUntouched
<1>11. r # NoRec /\ r.token # NoToken
  BY <1>2, NullsAssumption
<1>12. TakesUp(p, i, r)
  BY <1>2, <1>3, <1>4, <1>5, <1>6, <1>7, <1>8 DEF TakesUp, FreshToken
<1> QED BY <1>2, <1>9, <1>10, <1>11, <1>12, TakesUpStep

LEMMA RefuseEarlyFences ==
  ASSUME TInv, TInv', DInv, NEW p \in Producers, NEW i \in Intents, RefuseEarly(p, i)
  PROVE  SafeStep
<1>1. /\ stage \in [Actors -> Stages] /\ job \in [Actors -> Intents \cup {NoIntent}]
      /\ i \in todo /\ stage[p] = "idle" /\ todo' = todo \ {i}
      /\ stage' = [stage EXCEPT ![p] = "refused"] /\ job' = [job EXCEPT ![p] = i]
      /\ UNCHANGED <<queue, held, plan>>
  BY DEF TInv, TypeOK, RefuseEarly
<1>2. TokensDistinct' /\ SnapshotsLeased' /\ PlansSpareLiveClaims' /\ BatchesSpareLiveClaims'
  BY <1>1 DEF DInv, TokensDistinct, SnapshotsLeased, PlansSpareLiveClaims, Queued,
              BatchesSpareLiveClaims, Matches
<1>3. SoloWorker' /\ StagesFit'
  BY <1>1, ActorsAssumption DEF DInv, SoloWorker, StagesFit
<1>4. UnplacedUntouched'
  <2>1. \A q \in Producers \ {p} : stage'[q] = stage[q] /\ job'[q] = job[q]
    BY <1>1
  <2>2. \A j \in Intents : Unplaced(j)' => Unplaced(j)
    BY <1>1, <2>1 DEF Unplaced
  <2>3. \A q \in Producers : q # p /\ stage[q] = "refused" => job[q] # i
    BY <1>1 DEF DInv, UnplacedUntouched
  <2> QED BY <1>1, <2>1, <2>2, <2>3 DEF DInv, UnplacedUntouched
<1>5. DispatchersOwn' /\ SingleDispatcher'
  <2>1. \A b \in Actors : stage'[b] \in AtWork =>
          stage'[b] = stage[b] /\ job'[b] = job[b] /\ held'[b] = held[b]
    BY <1>1 DEF AtWork
  <2> QED BY <1>1, <2>1 DEF DInv, DispatchersOwn, SingleDispatcher, InDispatch, AtWork, Owns, Matches
<1>6. OwnersKept
  BY <1>1 DEF OwnersKept
<1> QED BY <1>2, <1>3, <1>4, <1>5, <1>6 DEF SafeStep, DInv

LEMMA EnqueueRefusedFences ==
  ASSUME TInv, TInv', DInv, NEW p \in Producers, EnqueueRefused(p)
  PROVE  SafeStep
<1> DEFINE i == job[p]
           gone == IF why[p] \in Consolidated THEN Superseded(i) ELSE {}
           q == [j \in Intents |-> IF j \in gone THEN NoRec ELSE queue[j]]
           r == NewRecord("none", why[p], why[p] \in Deferrals \cup Consolidated, NoToken, Nobody)
<1>1. /\ stage \in [Actors -> Stages] /\ job \in [Actors -> Intents \cup {NoIntent}]
      /\ i \in Intents /\ queue \in [Intents -> Records \cup {NoRec}]
      /\ stage[p] = "refused" /\ stage' = [stage EXCEPT ![p] = "idle"]
      /\ job' = [job EXCEPT ![p] = NoIntent] /\ UNCHANGED <<todo, held, plan>>
  BY DEF TInv, TypeOK, JobHeld, EnqueueRefused
<1>2. /\ q \in [Intents -> Records \cup {NoRec}]
      /\ \A j \in Intents : q[j] = queue[j] \/ q[j] = NoRec
  BY <1>1
<1>3. r.sub = "none"
  BY DEF NewRecord
<1>4. Unplaced(i) /\ queue[i] = NoRec /\ (\A b \in Actors : held[b][i] = NoRec)
      /\ (\A w \in Workers : i \notin plan[w])
  BY <1>1 DEF DInv, UnplacedUntouched, Unplaced
<1>5. (queue'[i] = r \/ queue'[i] = NoRec)
      /\ \A j \in Intents \ {i} : queue'[j] = queue[j] \/ queue'[j] = NoRec
  <2> HIDE DEF q, r
  <2>1. CASE Admit(q, i, r)
    BY <1>1, <1>2, <2>1, AdmitKeeps
  <2>2. CASE queue' = queue
    BY <1>4, <2>2
  <2> QED BY <2>1, <2>2 DEF EnqueueRefused, q, r
<1> HIDE DEF r
<1>6. TokensDistinct' /\ SnapshotsLeased'
  BY <1>1, <1>4, <1>5 DEF DInv, TokensDistinct, SnapshotsLeased
<1>7. PlansSpareLiveClaims' /\ BatchesSpareLiveClaims'
  BY <1>1, <1>4, <1>5 DEF DInv, PlansSpareLiveClaims, Queued, BatchesSpareLiveClaims, Matches
<1>8. SoloWorker' /\ StagesFit'
  BY <1>1, ActorsAssumption DEF DInv, SoloWorker, StagesFit
<1>9. UnplacedUntouched'
  <2>1. \A x \in Producers : stage'[x] = "refused" =>
          stage[x] = "refused" /\ job'[x] = job[x] /\ x # p /\ job[x] # i
    BY <1>1 DEF DInv, UnplacedUntouched
  <2>2. i \notin todo
    BY <1>1 DEF DInv, UnplacedUntouched
  <2>3. \A j \in Intents : Unplaced(j)' => Unplaced(j) /\ j # i
    BY <1>1, <2>1, <2>2 DEF Unplaced
  <2> QED BY <1>1, <1>5, <2>1, <2>3 DEF DInv, UnplacedUntouched
<1>10. DispatchersOwn' /\ SingleDispatcher'
  <2>1. \A b \in Actors : stage'[b] \in AtWork =>
          stage'[b] = stage[b] /\ job'[b] = job[b] /\ held'[b] = held[b]
    BY <1>1 DEF AtWork
  <2>2. \A b \in Actors : stage[b] \in AtWork => job[b] \in Intents \ {i}
    BY <1>4 DEF TInv, JobHeld, AtWork, WithSnapshot
  <2> QED BY <1>5, <2>1, <2>2 DEF DInv, DispatchersOwn, SingleDispatcher, InDispatch, AtWork,
                                  Owns, Matches
<1>11. OwnersKept
  BY <1>4, <1>5 DEF OwnersKept, Queued
<1> QED BY <1>6, <1>7, <1>8, <1>9, <1>10, <1>11 DEF SafeStep, DInv

--------------------------------------------------------------------------------
(* Passes *)

LEMMA ScanFences ==
  ASSUME OneAtATime, TInv, TInv', DInv, NEW w \in Workers, NEW due \in SUBSET Intents,
         Scan(w, due)
  PROVE  SafeStep
<1>1. /\ stage \in [Actors -> Stages] /\ plan \in [Workers -> SUBSET Intents]
      /\ \A v \in Workers : stage[v] = "idle"
      /\ due \subseteq {i \in Queued : Selectable(queue[i])}
      /\ plan' = [plan EXCEPT ![w] = due] /\ stage' = [stage EXCEPT ![w] = "planned"]
      /\ UNCHANGED <<queue, todo, job, held>>
  BY DEF TInv, TypeOK, Scan
<1>2. TokensDistinct' /\ SnapshotsLeased' /\ BatchesSpareLiveClaims'
  BY <1>1 DEF DInv, TokensDistinct, SnapshotsLeased, BatchesSpareLiveClaims, Matches
<1>3. SoloWorker' /\ StagesFit'
  BY <1>1, ActorsAssumption DEF DInv, SoloWorker, StagesFit
<1>4. PlansSpareLiveClaims'
  BY <1>1 DEF DInv, PlansSpareLiveClaims, Queued, Selectable, LiveClaim
<1>5. UnplacedUntouched'
  <2>1. \A p \in Producers : stage'[p] = stage[p]
    BY <1>1, ActorsAssumption
  <2>2. \A i \in Intents : Unplaced(i)' => Unplaced(i)
    BY <1>1, <2>1 DEF Unplaced
  <2>3. \A i \in Intents, v \in Workers : i \in plan'[v] => i \in plan[v] \/ queue[i] # NoRec
    BY <1>1 DEF Queued
  <2> QED BY <1>1, <2>1, <2>2, <2>3 DEF DInv, UnplacedUntouched
<1>6. DispatchersOwn' /\ SingleDispatcher'
  <2>1. \A b \in Actors : stage'[b] \in AtWork => stage'[b] = stage[b]
    BY <1>1 DEF AtWork
  <2> QED BY <1>1, <2>1 DEF DInv, DispatchersOwn, SingleDispatcher, InDispatch, AtWork, Owns, Matches
<1>7. OwnersKept
  BY <1>1 DEF OwnersKept
<1> QED BY <1>2, <1>3, <1>4, <1>5, <1>6, <1>7 DEF SafeStep, DInv

LEMMA ClaimFences ==
  ASSUME TInv, TInv', DInv, NEW w \in Workers, Claim(w)
  PROVE  SafeStep
<1> DEFINE got == {i \in plan[w] \cap Queued : ~queue[i].live}
           leased(t, i) == [queue[i] EXCEPT !.token = t, !.live = TRUE]
<1>1. PICK t \in Tokens :
        /\ FreshToken(t)
        /\ queue' = [i \in Intents |-> IF i \in got THEN leased(t, i) ELSE queue[i]]
        /\ held' = [held EXCEPT ![w] = [i \in Intents |-> IF i \in got THEN leased(t, i) ELSE NoRec]]
        /\ plan' = [v \in Workers |-> IF v = w THEN {} ELSE plan[v] \ got]
  BY DEF Claim
<1>2. /\ queue \in [Intents -> Records \cup {NoRec}] /\ stage \in [Actors -> Stages]
      /\ held \in [Actors -> [Intents -> Records \cup {NoRec}]]
      /\ stage[w] = "planned" /\ stage' = [stage EXCEPT ![w] = "working"]
      /\ UNCHANGED <<todo, job>> /\ t # NoToken
  BY NullsAssumption DEF TInv, TypeOK, Claim
<1>3. \A i \in got : i \in Intents /\ i \in plan[w] /\ queue[i] # NoRec
  BY DEF Queued, TInv, TypeOK
<1>4. \A i \in got :
        LET r == leased(t, i)
        IN  /\ r \in Records /\ r.token = t /\ r.rev = queue[i].rev /\ r.life = queue[i].life
            /\ r.sub = queue[i].sub /\ r.owner = queue[i].owner
  <2> SUFFICES ASSUME NEW i \in got
               PROVE  LET r == leased(t, i)
                      IN  /\ r \in Records /\ r.token = t /\ r.rev = queue[i].rev
                          /\ r.life = queue[i].life /\ r.sub = queue[i].sub
                          /\ r.owner = queue[i].owner
    OBVIOUS
  <2>1. queue[i] \in Records
    BY <1>2, <1>3
  <2> QED BY <2>1 DEF Records
<1>5. \A i \in got : ~LiveClaim(queue[i])
  BY <1>3 DEF DInv, PlansSpareLiveClaims, Queued
<1> HIDE DEF got, leased
<1>6. \A i \in Intents :
        /\ (queue'[i] = NoRec) <=> (queue[i] = NoRec)
        /\ queue[i] # NoRec =>
             /\ queue'[i].rev = queue[i].rev /\ queue'[i].life = queue[i].life
             /\ queue'[i].sub = queue[i].sub /\ queue'[i].owner = queue[i].owner
        /\ i \in got => queue'[i].token = t
        /\ i \notin got => queue'[i] = queue[i]
  BY <1>1, <1>3, <1>4, NullsAssumption
<1>7. \A b \in Actors \ {w} : held'[b] = held[b] /\ stage'[b] = stage[b]
  BY <1>1, <1>2
<1>8. \A i \in Intents :
        /\ i \in got => held'[w][i] = queue'[i] /\ held'[w][i] # NoRec
        /\ i \notin got => held'[w][i] = NoRec
  BY <1>1, <1>2, <1>3, <1>6
<1>9. \A b \in Actors, i \in Intents : held[b][i] # NoRec => held[b][i].token # t
  BY <1>1 DEF FreshToken, Unused
<1>10. TokensDistinct'
  <2> SUFFICES ASSUME NEW b \in Actors, NEW c \in Actors, NEW j \in Intents, NEW k \in Intents,
                      b # c, held'[b][j] # NoRec, held'[c][k] # NoRec
               PROVE  held'[b][j].token # held'[c][k].token
    BY DEF TokensDistinct
  <2>1. CASE b = w
    BY <1>6, <1>7, <1>8, <1>9, <2>1
  <2>2. CASE c = w
    BY <1>6, <1>7, <1>8, <1>9, <2>2
  <2>3. CASE b # w /\ c # w
    BY <1>7, <2>3 DEF DInv, TokensDistinct
  <2> QED BY <2>1, <2>2, <2>3
<1>11. SnapshotsLeased'
  <2> SUFFICES ASSUME NEW b \in Actors, NEW j \in Intents, held'[b][j] # NoRec
               PROVE  /\ held'[b][j].token \in Tokens
                      /\ queue'[j] # NoRec => held'[b][j].rev <= queue'[j].rev
    BY DEF SnapshotsLeased
  <2>1. CASE b = w
    <3>1. held'[w][j] = queue'[j] /\ queue'[j].token = t /\ queue'[j] \in Records
      BY <1>1, <1>4, <1>6, <1>8, <2>1
    <3> QED BY <2>1, <3>1 DEF Records
  <2>2. CASE b # w
    BY <1>6, <1>7, <2>2 DEF DInv, SnapshotsLeased
  <2> QED BY <2>1, <2>2
<1>12. SoloWorker' /\ StagesFit'
  BY <1>1, <1>2, ActorsAssumption DEF DInv, SoloWorker, StagesFit
<1>13. PlansSpareLiveClaims'
  BY <1>1, <1>6 DEF DInv, PlansSpareLiveClaims, Queued, LiveClaim, OwnerAlive
<1>14. BatchesSpareLiveClaims'
  <2> SUFFICES ASSUME NEW v \in Workers, NEW i \in Intents,
                      Matches(i, held[v][i])', LiveClaim(queue[i])'
               PROVE  queue'[i].owner = v
    BY DEF BatchesSpareLiveClaims
  <2>1. queue[i] # NoRec /\ LiveClaim(queue[i]) /\ i \notin got
    BY <1>5, <1>6 DEF Matches, LiveClaim, OwnerAlive
  <2>2. v # w
    BY <1>8, <2>1 DEF Matches
  <2>3. Matches(i, held[v][i])
    BY <1>6, <1>7, <2>1, <2>2 DEF Matches
  <2> QED BY <1>6, <2>1, <2>3 DEF DInv, BatchesSpareLiveClaims
<1>15. UnplacedUntouched'
  <2>1. \A p \in Producers : stage'[p] = stage[p]
    BY <1>7, ActorsAssumption
  <2>2. \A i \in Intents : Unplaced(i)' => Unplaced(i)
    BY <1>2, <2>1 DEF Unplaced
  <2>3. \A i \in Intents : Unplaced(i) => queue'[i] = NoRec /\ i \notin got
    BY <1>3, <1>6 DEF DInv, UnplacedUntouched
  <2>4. \A v \in Workers : plan'[v] \subseteq plan[v]
    BY <1>1
  <2> QED BY <1>2, <1>7, <1>8, <2>1, <2>2, <2>3, <2>4 DEF DInv, UnplacedUntouched
<1>16. DispatchersOwn'
  <2> SUFFICES ASSUME NEW b \in Actors, stage'[b] \in AtWork
               PROVE  Owns(b)'
    BY DEF DispatchersOwn, AtWork
  <2>1. b # w /\ stage[b] \in AtWork /\ held'[b] = held[b] /\ job'[b] = job[b]
    BY <1>2, <1>7 DEF AtWork
  <2>2. job[b] \in Intents /\ Owns(b)
    BY <2>1 DEF TInv, JobHeld, AtWork, WithSnapshot, DInv, DispatchersOwn
  <2>3. CASE job[b] \notin got
    BY <1>6, <2>1, <2>2, <2>3 DEF Owns, Matches
  <2>4. CASE job[b] \in got
    BY <1>3, <1>5, <1>6, <2>1, <2>2, <2>4, NobodyAssumption DEF Owns, LiveClaim, OwnerAlive
  <2> QED BY <2>3, <2>4
<1>17. SingleDispatcher'
  BY <1>2, <1>7 DEF DInv, SingleDispatcher, InDispatch
<1>18. OwnersKept
  BY <1>6 DEF OwnersKept, Queued
<1> QED BY <1>10, <1>11, <1>12, <1>13, <1>14, <1>15, <1>16, <1>17, <1>18 DEF SafeStep, DInv

--------------------------------------------------------------------------------
(* The invariant, and the two theorems *)

LEMMA DInvInit == Init => DInv
<1> SUFFICES ASSUME Init
             PROVE  DInv
  OBVIOUS
<1>1. /\ \A a \in Actors : stage[a] = "idle"
      /\ \A a \in Actors, i \in Intents : held[a][i] = NoRec
      /\ \A i \in Intents : queue[i] = NoRec
      /\ \A w \in Workers : plan[w] = {}
  BY DEF Init, NoneHeld
<1>2. TokensDistinct /\ SnapshotsLeased /\ PlansSpareLiveClaims /\ BatchesSpareLiveClaims
  BY <1>1 DEF TokensDistinct, SnapshotsLeased, PlansSpareLiveClaims, BatchesSpareLiveClaims, Matches
<1>3. SoloWorker /\ StagesFit /\ UnplacedUntouched
  BY <1>1 DEF SoloWorker, StagesFit, UnplacedUntouched
<1>4. DispatchersOwn /\ SingleDispatcher
  BY <1>1 DEF DispatchersOwn, SingleDispatcher, InDispatch
<1> QED BY <1>2, <1>3, <1>4 DEF DInv

LEMMA DInvNext ==
  ASSUME OneAtATime, TInv, TInv', DInv, [Next]_vars
  PROVE  SafeStep
<1>1. ASSUME NEW p \in Producers, ProducerStep(p)
      PROVE  SafeStep
  BY <1>1, PersistFences, RefuseEarlyFences, EnqueueRefusedFences, BeginProducerFences
     DEF ProducerStep
<1>2. ASSUME NEW w \in Workers, WorkerStep(w)
      PROVE  SafeStep
  <2>1. ASSUME NEW i \in Intents, RecordStep(w, i)
        PROVE  SafeStep
    <3>1. CASE ObserveOrder(w, i) \/ Wait(w, i)
      BY <3>1, ReleaseFences DEF ObserveOrder, Wait
    <3>2. CASE Quarantine(w, i)
      BY <3>2, StillStep DEF Quarantine
    <3> QED BY <2>1, <3>1, <3>2, AdoptLiveFences, SettleOrderFences, LookupFoundFences,
               ClearFences DEF RecordStep
  <2>2. CASE PassStep(w)
    BY <2>1, <2>2, ClaimFences, BeginWorkerFences, SyncQtyFences, LookupAfterFences,
       EndPassFences DEF PassStep
  <2> QED BY <1>2, <2>2, ScanFences, ExpireFences, ConsolidateFences DEF WorkerStep
<1>3. ASSUME NEW a \in Actors, DispatchStep(a) \/ Abandon(a) \/ Crash(a)
      PROVE  SafeStep
  BY <1>3, RefuseLateFences, SendFences, ReturnAcceptedFences, ReturnUnknownFences,
     AbandonFences, CrashFences DEF DispatchStep
<1>4. ASSUME NEW i \in Intents, Lapse(i) \/ ResolveAccepted(i)
      PROVE  SafeStep
  <2>1. CASE Actors = {}
    BY <1>4, <2>1, NoActorsStep DEF TInv, TypeOK, Lapse, ResolveAccepted, Queued
  <2>2. CASE Actors # {}
    BY <1>4, <2>2, LapseFences, ResolveAcceptedFences
  <2> QED BY <2>1, <2>2
<1>5. CASE VenueStep
  BY <1>5, StillStep DEF VenueStep, Accept, Lose, Fill, CancelOrder, ExpireOrder
<1>6. CASE UNCHANGED vars
  BY <1>6, StillStep DEF vars
<1> QED BY <1>1, <1>2, <1>3, <1>4, <1>5, <1>6 DEF Next

\* Claim fencing, with every worker under single_instance: whatever leases lapse,
\* whoever crashes or comes back late, two processes are never both past their
\* last fence (update_claimed_qty, begin_claimed_submit) for one client order id.
THEOREM OneDispatcher ==
  ASSUME OneAtATime
  PROVE  Spec => []SingleDispatcher
<1>1. Init => TInv /\ DInv
  BY TInvInit, DInvInit
<1>2. TInv /\ DInv /\ [Next]_vars => TInv' /\ DInv'
  BY TInvNext, DInvNext DEF SafeStep
<1>3. DInv => SingleDispatcher
  BY DEF DInv
<1> QED BY <1>1, <1>2, <1>3, PTL DEF Spec

\* Under the same assumption the worker never takes over a claim of a process that
\* is still alive, so no intent is submitted behind its owner's back.
THEOREM OwnersKeepClaims ==
  ASSUME OneAtATime
  PROVE  Spec => LiveOwnerKeepsClaim
<1>1. Init => TInv /\ DInv
  BY TInvInit, DInvInit
<1>2. TInv /\ DInv /\ [Next]_vars => TInv' /\ DInv' /\ OwnersKept
  BY TInvNext, DInvNext DEF SafeStep
<1>3. OwnersKept => [\A i \in Queued :
                       /\ LiveClaim(queue[i])
                       /\ queue'[i] # NoRec /\ queue'[i].sub = "producer_claimed"
                       => queue'[i].owner \in {queue[i].owner, Nobody}]_vars
  BY DEF OwnersKept
<1> QED BY <1>1, <1>2, <1>3, PTL DEF Spec, LiveOwnerKeepsClaim

================================================================================
