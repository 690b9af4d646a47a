------------------------------ MODULE OrderOutbox ------------------------------
(***************************************************************************)
(* The durable order-retry outbox of order_retry.py, its producers         *)
(* (Instrument.place in instrument.py) and its consumer                    *)
(* (order_retry_worker.process_once), around a venue reached over HTTP.    *)
(*                                                                         *)
(* One intent is one logical order.  Its record lives in the JSONL queue;  *)
(* every read-modify-write of the queue happens under one cross-process    *)
(* file lock, so each is one atomic step here.  Everything between two     *)
(* lock sections (guards, HTTP calls, lookups) interleaves freely, and any *)
(* process may be killed between two steps.                                *)
(*                                                                         *)
(* Time is abstracted: a lease lapses, a retry becomes due and a TTL runs  *)
(* out at any moment the code allows it to.                                *)
(***************************************************************************)
EXTENDS Integers, FiniteSets, FiniteSetsExt

CONSTANTS
  Intents,      \* logical orders; each is placed at most once by a producer
  Producers,    \* processes that call Instrument.place
  Workers,      \* processes that run process_once
  OneAtATime,   \* every worker is the daemon, guarded by single_instance; FALSE
                \* adds order_retry_worker.py --once, which takes no such lock
  Tokens,       \* claim tokens (uuid4), a set of numbers
  Oids,         \* order ids the venue can hand out, a set of numbers
  Streams,      \* (venue, symbol, side, kind) keys of _same_deferred_stream
  StreamOf,     \* [Intents -> Streams]
  ShortLived,   \* intents placed with a ttl_sec (they get an expires_at_ts)
  Qty,          \* quantity every intent asks for
  MaxQueue,     \* RETRY_MAX_QUEUE; 0 removes the bound
  MaxRev,       \* bound: the venue expires no order of a later revision
  MaxCrashes,   \* bound on process crashes
  HasLookup,    \* the venue can be searched by client order id
  Nobody, NoRec, NoToken, NoOid, NoOrder, NoIntent   \* absent values

Actors == Producers \cup Workers

ASSUME ActorsAssumption == Producers \cap Workers = {}
ASSUME NobodyAssumption == Nobody \notin Actors
ASSUME QtyAssumption == Qty \in Nat \ {0}
ASSUME NumbersAssumption == Tokens \subseteq Nat /\ Oids \subseteq Nat
ASSUME LimitsAssumption == MaxQueue \in Nat /\ MaxRev \in Nat /\ MaxCrashes \in Nat
ASSUME SwitchAssumption == HasLookup \in BOOLEAN /\ OneAtATime \in BOOLEAN
ASSUME StreamAssumption == StreamOf \in [Intents -> Streams] /\ ShortLived \subseteq Intents

Lifecycles == {"submit_pending", "accepted"}
SubmissionStates == {"none", "producer_claimed", "refused", "unknown", "accepted"}

\* Classes of last_failure_reason:
\*   pending   the reasons of POSSIBLY_SUBMITTED_REASONS, and None
\*   trend     trend_deferred, medium_trend_deferred: deferrals that are consolidated,
\*             and the first victims of a full queue
\*   limit     daily_limit: a deferral that is consolidated
\*   deferral  the other NON_FAILURE_DEFERRAL_REASONS
\*   guard     the failures among _CONSOLIDATED_DEFERRAL_REASONS
\*   failure   any other refusal before the submit
\*   terminal  terminal_<venue status>, written by a new revision
Reasons == {"pending", "trend", "limit", "deferral", "guard", "failure", "terminal"}
Deferrals == {"trend", "limit", "deferral"}
Consolidated == {"trend", "limit", "guard"}
Refusals == {"trend", "limit", "deferral", "guard", "failure"}

Records == [life : Lifecycles, sub : SubmissionStates, why : Reasons,
            discardable : BOOLEAN, token : Tokens \cup {NoToken}, live : BOOLEAN,
            owner : Actors \cup {Nobody}, rev : Nat, qty : Nat, delivered : Nat,
            oid : Oids \cup {NoOid}]

Orders == [intent : Intents, rev : Nat, qty : Nat, filled : Nat,
           status : {"open", "closed", "canceled", "expired"}]

ASSUME NullsAssumption ==
  /\ NoToken \notin Tokens /\ NoOid \notin Oids /\ NoIntent \notin Intents
  /\ NoRec \notin Records /\ NoOrder \notin Orders

Requests == [by : Actors, intent : Intents, rev : Nat, qty : Nat]

Stages == {"idle", "refused", "claimed",          \* Instrument.place
           "planned", "working", "looked", "begun", "unsure",  \* process_once
           "cleared", "sent"}                     \* both

VARIABLES
  queue,    \* the JSONL file: record of each intent, or NoRec
  todo,     \* intents no producer has placed yet
  stage,    \* where each process is
  job,      \* the intent a process is working on
  why,      \* reason of the refusal a producer is about to enqueue
  held,     \* held[a][i]: the claimed snapshot process a keeps of record i
  plan,     \* ids a worker selected from its snapshot, to claim
  seen,     \* seen[w][i]: snapshot of a lapsed claim whose owner is alive
  wire,     \* submit requests on their way to the venue
  answer,   \* order id carried by the response waiting for a process
  orders,   \* the venue's order book and history
  crashes   \* number of crashes so far

vars == <<queue, todo, stage, job, why, held, plan, seen, wire, answer, orders, crashes>>

NoneHeld == [i \in Intents |-> NoRec]

Init ==
  /\ queue = NoneHeld
  /\ todo = Intents
  /\ stage = [a \in Actors |-> "idle"]
  /\ job = [a \in Actors |-> NoIntent]
  /\ why = [p \in Producers |-> "failure"]
  /\ held = [a \in Actors |-> NoneHeld]
  /\ plan = [w \in Workers |-> {}]
  /\ seen = [w \in Workers |-> NoneHeld]
  /\ wire = {}
  /\ answer = [a \in Actors |-> NoOid]
  /\ orders = [o \in Oids |-> NoOrder]
  /\ crashes = 0

--------------------------------------------------------------------------------
(* Predicates and updates of one record *)

\* Bug: only a claim is looked up, so an ambiguous submit is repeated blindly.
NeedsLookupOfClaimsOnly(r) == r.sub = "producer_claimed"

\* submission_requires_reconciliation: the intent may have reached the venue.
NeedsLookup(r) ==
  /\ r.sub # "refused"
  /\ r.sub \in {"producer_claimed", "unknown"} \/ r.why = "pending"

\* is_possibly_submitted
PossiblySubmitted(r) == r.life = "submit_pending" /\ NeedsLookup(r)

\* _has_prior_venue_evidence: an accepted record keeps its order_history in
\* every later revision, so a new revision is always evidence.
VenueEvidence(r) == r.life # "submit_pending" \/ r.rev > 0

\* Bug: any pending record without venue history may make room.
EvictableWhilePending(r) == r.life = "submit_pending" /\ ~VenueEvidence(r)

\* _safe_to_evict_for_capacity
Evictable(r) ==
  /\ r.life = "submit_pending"
  /\ r.token = NoToken
  /\ r.discardable
  /\ ~PossiblySubmitted(r)
  /\ ~VenueEvidence(r)

\* Bug: the TTL ends an intent that may have reached the venue.
CanExpireUnresolved(i, r) == r.life = "submit_pending" /\ ~r.live

\* Bug: the TTL ends accepted trackers too.
CanExpireAccepted(i, r) == ~PossiblySubmitted(r) /\ ~r.live

\* is_expired once its TTL has run out: a deferral stops the active TTL, and
\* only the absolute expires_at_ts of a ttl_sec can then end the record.
CanExpire(i, r) ==
  /\ r.life = "submit_pending"
  /\ ~PossiblySubmitted(r)
  /\ ~r.live
  /\ i \in ShortLived \/ r.why \notin Deferrals

\* _set_safe_to_discard
Discardable(r, eligible) == [r EXCEPT !.discardable = eligible /\ ~VenueEvidence(r)]

\* The claim keys every complete_claim pops.  producer_pid is only ever read
\* while submission_state is producer_claimed, so the owner goes with them.
Unclaimed(r) == [r EXCEPT !.token = NoToken, !.live = FALSE]

Refused(r, reason) ==
  Discardable([r EXCEPT !.sub = "refused", !.why = reason, !.owner = Nobody], TRUE)

\* Bug: a timeout counts as a refusal.
AmbiguousAsRefused(r) == [r EXCEPT !.sub = "refused", !.why = "failure", !.owner = Nobody]

\* Bug: a retry after a timeout takes a new client order id.
AmbiguousUnderNewId(r) ==
  [r EXCEPT !.sub = "unknown", !.why = "pending", !.owner = Nobody, !.rev = @ + 1]

Ambiguous(r) ==
  [r EXCEPT !.sub = "unknown", !.why = "pending", !.owner = Nobody, !.discardable = FALSE]

\* _apply_accepted, with the quantity the venue echoes
Accepted(r, o) ==
  [r EXCEPT !.life = "accepted", !.sub = "accepted", !.why = "pending",
            !.owner = Nobody, !.discardable = FALSE, !.oid = o, !.qty = orders[o].qty]

\* Bugs in the ledger of a new revision: fills counted backwards, dropped, or not
\* taken off what is still owed.
RevisedSubtracting(r) ==
  [r EXCEPT !.life = "submit_pending", !.sub = "refused", !.why = "terminal",
            !.oid = NoOid, !.rev = @ + 1,
            !.qty = orders[r.oid].qty - orders[r.oid].filled,
            !.delivered = @ - orders[r.oid].filled]

RevisedForgetful(r) ==
  [r EXCEPT !.life = "submit_pending", !.sub = "refused", !.why = "terminal",
            !.oid = NoOid, !.rev = @ + 1,
            !.qty = orders[r.oid].qty - orders[r.oid].filled,
            !.delivered = orders[r.oid].filled]

RevisedWhole(r) ==
  [r EXCEPT !.life = "submit_pending", !.sub = "refused", !.why = "terminal",
            !.oid = NoOid, !.rev = @ + 1, !.qty = orders[r.oid].qty,
            !.delivered = @ + orders[r.oid].filled]

\* complete_claim(.., "retry_terminal"): a new revision for the unfilled rest
Revised(r) ==
  [r EXCEPT !.life = "submit_pending", !.sub = "refused", !.why = "terminal",
            !.discardable = FALSE, !.oid = NoOid, !.rev = @ + 1,
            !.qty = orders[r.oid].qty - orders[r.oid].filled,
            !.delivered = @ + orders[r.oid].filled]

\* begin_claimed_submit: from here on the venue may hold the order
Begun(r, a, q) ==
  [r EXCEPT !.sub = "producer_claimed", !.owner = a, !.discardable = FALSE, !.qty = q]

\* _matches_exact_claim: id, token, revision and the client order id, which is
\* a function of id and revision
Matches(i, s) ==
  /\ s # NoRec
  /\ queue[i] # NoRec
  /\ s.token # NoToken
  /\ queue[i].token = s.token
  /\ queue[i].rev = s.rev

Queued == {i \in Intents : queue[i] # NoRec}

\* uuid4: no record and no snapshot anywhere carries the new token
Unused(t) ==
  /\ \A i \in Queued : queue[i].token # t
  /\ \A a \in Actors, i \in Intents : held[a][i] # NoRec => held[a][i].token # t
  /\ \A w \in Workers, i \in Intents : seen[w][i] # NoRec => seen[w][i].token # t

FreshToken(t) == t \in Tokens /\ Unused(t) /\ \A s \in Tokens : Unused(s) => t <= s

\* Bug: a completion whose record is gone writes its snapshot back.
WriteRestoring(i, s, new) ==
  queue' = IF Matches(i, s) THEN [queue EXCEPT ![i] = new]
           ELSE IF queue[i] = NoRec THEN [queue EXCEPT ![i] = s] ELSE queue

\* Fenced write of complete_claim and begin_claimed_submit: without an exact
\* match the queue stays as it is.
Write(i, s, new) ==
  queue' = IF Matches(i, s) THEN [queue EXCEPT ![i] = new] ELSE queue

OrdersOf(i, rev) == {o \in Oids : orders[o] # NoOrder /\ orders[o].intent = i /\ orders[o].rev = rev}

OnWire(i, rev) == \E m \in wire : m.intent = i /\ m.rev = rev

--------------------------------------------------------------------------------
(* Instrument.place: the producers *)

\* enqueue at capacity: one record makes room, trend deferrals first.  The code
\* takes the one with the smallest created_ts, a value its caller supplies.
Victims(q) ==
  LET evictable == {i \in Intents : q[i] # NoRec /\ Evictable(q[i])}
      trend     == {i \in evictable : q[i].why = "trend"}
  IN  IF trend # {} THEN trend ELSE evictable

Full(q) == MaxQueue > 0 /\ Cardinality({i \in Intents : q[i] # NoRec}) >= MaxQueue

Admit(q, i, r) ==
  \/ ~Full(q) /\ queue' = [q EXCEPT ![i] = r]
  \/ Full(q) /\ \E v \in Victims(q) : queue' = [q EXCEPT ![v] = NoRec, ![i] = r]

NewRecord(sub, reason, discardable, token, owner) ==
  [life |-> "submit_pending", sub |-> sub, why |-> reason, discardable |-> discardable,
   token |-> token, live |-> token # NoToken, owner |-> owner,
   rev |-> 0, qty |-> Qty, delivered |-> 0, oid |-> NoOid]

\* enqueue_claimed: persisted and leased to the producer before any submit.
\* The lease (RETRY_INTERVAL_SEC + RETRY_CLAIM_LEASE_SEC) starts live.
Persist(p, i) ==
  /\ stage[p] = "idle" /\ i \in todo
  /\ \E t \in Tokens :
       LET r == NewRecord("producer_claimed", "pending", FALSE, t, p)
       IN  /\ FreshToken(t)
           /\ Admit(queue, i, r)
           /\ held' = [held EXCEPT ![p][i] = r]
  /\ todo' = todo \ {i}
  /\ stage' = [stage EXCEPT ![p] = "claimed"]
  /\ job' = [job EXCEPT ![p] = i]
  /\ UNCHANGED <<why, plan, seen, wire, answer, orders, crashes>>

\* A guard refuses before anything is persisted, or enqueue_claimed finds the
\* queue full of protected records (pre_submit_persist_failed, a "failure").
RefuseEarly(p, i) ==
  /\ stage[p] = "idle" /\ i \in todo
  /\ \E reason \in Refusals \cup {"abort"} : why' = [why EXCEPT ![p] = reason]
  /\ todo' = todo \ {i}
  /\ stage' = [stage EXCEPT ![p] = "refused"]
  /\ job' = [job EXCEPT ![p] = i]
  /\ UNCHANGED <<queue, held, plan, seen, wire, answer, orders, crashes>>

\* The finally block of place enqueues the refused intent, unleased.  A
\* consolidated reason replaces older evictable records of the same stream; a
\* queue full of protected records drops the intent, and so does a refusal that
\* no retry can cure ("abort": terminal filters, execution disabled, ...).
Superseded(i) ==
  {j \in Queued : /\ Evictable(queue[j])
                  /\ queue[j].why \in Consolidated
                  /\ StreamOf[j] = StreamOf[i]}

EnqueueRefused(p) ==
  /\ stage[p] = "refused"
  /\ LET i == job[p]
         gone == IF why[p] \in Consolidated THEN Superseded(i) ELSE {}
         q == [j \in Intents |-> IF j \in gone THEN NoRec ELSE queue[j]]
         r == NewRecord("none", why[p], why[p] \in Deferrals \cup Consolidated, NoToken, Nobody)
     IN  \/ why[p] # "abort" /\ Admit(q, i, r)
         \/ /\ why[p] = "abort" \/ (Full(q) /\ Victims(q) = {})
            /\ queue' = queue
  /\ stage' = [stage EXCEPT ![p] = "idle"]
  /\ job' = [job EXCEPT ![p] = NoIntent]
  /\ UNCHANGED <<todo, why, held, plan, seen, wire, answer, orders, crashes>>

\* Back to the caller (producer) or to the next claimed record (worker).
Resume(a) ==
  /\ stage' = [stage EXCEPT ![a] = IF a \in Producers THEN "idle" ELSE "working"]
  /\ held' = [held EXCEPT ![a][job[a]] = NoRec]
  /\ job' = [job EXCEPT ![a] = NoIntent]

\* A late guard refuses after the record is persisted: begun or not, the
\* request was never sent.  A terminal refusal removes the record
\* (complete_claim "success"), any other makes it retryable.  The stages are
\* those of a producer ("claimed") and of a worker's caller_owns_retry call
\* ("begun"), and of both up to the HTTP call ("cleared").
RefuseLate(a) ==
  /\ stage[a] \in {"claimed", "begun", "cleared"}
  /\ LET i == job[a] IN
       \/ Write(i, held[a][i], NoRec)
       \/ \E reason \in Refusals :
            Write(i, held[a][i], Unclaimed(Refused(queue[i], reason)))
  /\ Resume(a)
  /\ UNCHANGED <<todo, why, plan, seen, wire, answer, orders, crashes>>

\* begin_claimed_submit of the producer, which renews the lease and persists
\* the quantity the late guards scaled down to.  A lost claim refuses the
\* submission (producer_claim_lost), and complete_claim then matches nothing.
BeginProducer(p) ==
  /\ stage[p] = "claimed"
  /\ LET i == job[p]
         s == held[p][i]
     IN  IF Matches(i, s)
         THEN \E q \in 1..queue[i].qty :
                LET r == [Begun(queue[i], p, q) EXCEPT !.live = TRUE] IN
                  /\ queue' = [queue EXCEPT ![i] = r]
                  /\ held' = [held EXCEPT ![p][i] = r]
                  /\ stage' = [stage EXCEPT ![p] = "cleared"]
                  /\ job' = job
         ELSE queue' = queue /\ Resume(p)
  /\ UNCHANGED <<todo, why, plan, seen, wire, answer, orders, crashes>>

\* provider.place_order: the one HTTP submit, under the persisted client id
Send(a) ==
  /\ stage[a] = "cleared"
  /\ wire' = wire \cup {[by |-> a, intent |-> job[a], rev |-> held[a][job[a]].rev,
                         qty |-> held[a][job[a]].qty]}
  /\ stage' = [stage EXCEPT ![a] = "sent"]
  /\ UNCHANGED <<queue, todo, job, why, held, plan, seen, answer, orders, crashes>>

\* The response carries an order id: complete_accepted_claim (producer), or the
\* worker's complete_claim "accepted".
ReturnAccepted(a) ==
  /\ stage[a] = "sent" /\ answer[a] # NoOid
  /\ LET i == job[a] IN
       Write(i, held[a][i], Unclaimed(Accepted(queue[i], answer[a])))
  /\ Resume(a)
  /\ answer' = [answer EXCEPT ![a] = NoOid]
  /\ UNCHANGED <<todo, why, plan, seen, wire, orders, crashes>>

\* The submit raised, timed out, or answered without an order id: the producer
\* records submission_state unknown; the worker looks the id up first.
ReturnUnknown(a) ==
  /\ stage[a] = "sent"
  /\ IF a \in Producers
     THEN /\ Write(job[a], held[a][job[a]], Unclaimed(Ambiguous(queue[job[a]])))
          /\ Resume(a)
     ELSE /\ stage' = [stage EXCEPT ![a] = "unsure"]
          /\ UNCHANGED <<queue, held, job>>
  /\ answer' = [answer EXCEPT ![a] = NoOid]
  /\ UNCHANGED <<todo, why, plan, seen, wire, orders, crashes>>

--------------------------------------------------------------------------------
(* order_retry_worker.process_once *)

\* Partition of the snapshot.  A lapsed claim that may be mid-submit is left
\* alone while its owner lives (only looked up, from "seen"); a dead owner's is
\* due only at a venue that can be searched.  Any subset may be due (is_due).
OwnerAlive(r) == r.owner # Nobody

LiveClaim(r) == r.sub = "producer_claimed" /\ OwnerAlive(r)

\* Bugs: a lapsed lease alone hands a claim over; accepted trackers are never
\* polled; ambiguous submits are never looked up.
SelectableOnceLapsed(r) == ~r.live

SelectablePending(r) ==
  /\ ~r.live /\ r.life = "submit_pending"
  /\ r.sub = "producer_claimed" => ~OwnerAlive(r) /\ HasLookup

SelectableKnown(r) ==
  /\ ~r.live /\ r.sub # "unknown"
  /\ r.sub = "producer_claimed" => ~OwnerAlive(r) /\ HasLookup

Selectable(r) ==
  /\ ~r.live
  /\ r.sub = "producer_claimed" => ~OwnerAlive(r) /\ HasLookup

Scan(w, due) ==
  /\ stage[w] = "idle"
  /\ OneAtATime => \A v \in Workers : stage[v] = "idle"
  /\ due \subseteq {i \in Queued : Selectable(queue[i])}
  /\ plan' = [plan EXCEPT ![w] = due]
  /\ seen' = [seen EXCEPT ![w] =
                [i \in Intents |-> IF /\ i \in Queued
                                      /\ LiveClaim(queue[i])
                                      /\ ~queue[i].live
                                   THEN queue[i] ELSE NoRec]]
  /\ \E i \in Intents : i \in due \/ seen'[w][i] # NoRec
  /\ stage' = [stage EXCEPT ![w] = "planned"]
  /\ UNCHANGED <<queue, todo, job, why, held, wire, answer, orders, crashes>>

\* discard_expired: under the lock, and only if the record is still expired at
\* the revision of the snapshot.
Expire(w, i) ==
  /\ stage[w] = "idle"
  /\ i \in Queued /\ CanExpire(i, queue[i])
  /\ queue' = [queue EXCEPT ![i] = NoRec]
  /\ UNCHANGED <<todo, stage, job, why, held, plan, seen, wire, answer, orders, crashes>>

\* claim(ids, now): one token leases every planned record that still exists and
\* whose lease is not live; the snapshots are what is in the file now.  "now" is
\* the moment of the scan, so a lease another worker takes later in the pass
\* still counts as live: it leaves the other plans.
Claim(w) ==
  /\ stage[w] = "planned"
  /\ \E t \in Tokens :
       LET got == {i \in plan[w] \cap Queued : ~queue[i].live}
           leased(i) == [queue[i] EXCEPT !.token = t, !.live = TRUE]
       IN  /\ FreshToken(t)
           /\ queue' = [i \in Intents |-> IF i \in got THEN leased(i) ELSE queue[i]]
           /\ held' = [held EXCEPT ![w] =
                         [i \in Intents |-> IF i \in got THEN leased(i) ELSE NoRec]]
           /\ plan' = [v \in Workers |-> IF v = w THEN {} ELSE plan[v] \ got]
  /\ stage' = [stage EXCEPT ![w] = "working"]
  /\ UNCHANGED <<todo, job, why, seen, wire, answer, orders, crashes>>

\* A lapsed claim of a live owner: an order found at the venue is adopted under
\* the owner's own token; anything else leaves the record in quarantine.
AdoptLive(w, i) ==
  /\ stage[w] = "working" /\ seen[w][i] # NoRec
  /\ HasLookup
  /\ \E o \in OrdersOf(i, seen[w][i].rev) :
       Write(i, seen[w][i], Unclaimed(Accepted(queue[i], o)))
  /\ seen' = [seen EXCEPT ![w][i] = NoRec]
  /\ UNCHANGED <<todo, stage, job, why, held, plan, wire, answer, orders, crashes>>

Quarantine(w, i) ==
  /\ stage[w] = "working" /\ seen[w][i] # NoRec
  /\ seen' = [seen EXCEPT ![w][i] = NoRec]
  /\ UNCHANGED <<queue, todo, stage, job, why, held, plan, wire, answer, orders, crashes>>

\* Next claimed record of the pass, after every live claim was looked up
Turn(w, i) ==
  /\ stage[w] = "working"
  /\ seen[w] = NoneHeld
  /\ held[w][i] # NoRec

Drop(w, i) == held' = [held EXCEPT ![w][i] = NoRec]

\* complete_claim "release", "observed" or "status_error": the lease goes, the
\* record stays for a later pass.
Release(w, i) ==
  /\ Write(i, held[w][i], Unclaimed(queue[i]))
  /\ Drop(w, i)

\* _process_accepted_claim and advance_claimed_status on a terminal snapshot:
\* filled and canceled remove the tracker, expired opens a revision for the
\* unfilled rest.
SettleOrder(w, i) ==
  /\ Turn(w, i) /\ held[w][i].life = "accepted"
  /\ LET s == held[w][i]
         o == orders[s.oid]
     IN  \/ /\ o.status \in {"closed", "canceled"}
            /\ Write(i, s, NoRec)
         \/ /\ o.status = "expired"
            /\ Write(i, s, IF o.filled = o.qty THEN NoRec
                           ELSE Unclaimed(Revised(queue[i])))
  /\ Drop(w, i)
  /\ UNCHANGED <<todo, stage, job, why, plan, seen, wire, answer, orders, crashes>>

\* An open order is observed, a failed poll recorded: the lease goes.
ObserveOrder(w, i) ==
  /\ Turn(w, i) /\ held[w][i].life = "accepted"
  /\ Release(w, i)
  /\ UNCHANGED <<todo, stage, job, why, plan, seen, wire, answer, orders, crashes>>

\* A record that may have reached the venue is looked up first: found, it is
\* adopted.
LookupFound(w, i) ==
  /\ Turn(w, i) /\ held[w][i].life = "submit_pending" /\ NeedsLookup(held[w][i])
  /\ HasLookup
  /\ \E o \in OrdersOf(i, held[w][i].rev) :
       Write(i, held[w][i], Unclaimed(Accepted(queue[i], o)))
  /\ Drop(w, i)
  /\ UNCHANGED <<todo, stage, job, why, plan, seen, wire, answer, orders, crashes>>

\* The lookup failed, or absence is not reliable any more, or the price gate is
\* closed: the claim is released and the record waits.
Wait(w, i) ==
  /\ Turn(w, i) /\ held[w][i].life = "submit_pending"
  /\ Release(w, i)
  /\ UNCHANGED <<todo, stage, job, why, plan, seen, wire, answer, orders, crashes>>

\* Refused for certain, or reliably absent.  Absence is reliable when no order
\* exists and no request is still on its way (see the README on this bound).
Clear(w, i) ==
  /\ Turn(w, i) /\ held[w][i].life = "submit_pending"
  /\ NeedsLookup(held[w][i]) =>
       /\ HasLookup
       /\ OrdersOf(i, held[w][i].rev) = {}
       /\ ~OnWire(i, held[w][i].rev)
  /\ stage' = [stage EXCEPT ![w] = "looked"]
  /\ job' = [job EXCEPT ![w] = i]
  /\ UNCHANGED <<queue, todo, why, held, plan, seen, wire, answer, orders, crashes>>

\* begin_claimed_submit(r, now): "now" is the start of the pass, so the lease
\* is not renewed.  A lost claim skips the record.
BeginWorker(w) ==
  /\ stage[w] = "looked"
  /\ LET i == job[w]
         s == held[w][i]
         r == Begun(queue[i], w, queue[i].qty)
     IN  IF Matches(i, s)
         THEN /\ queue' = [queue EXCEPT ![i] = r]
              /\ held' = [held EXCEPT ![w][i] = r]
              /\ stage' = [stage EXCEPT ![w] = "begun"]
              /\ job' = job
         ELSE queue' = queue /\ Resume(w)
  /\ UNCHANGED <<todo, why, plan, seen, wire, answer, orders, crashes>>

\* update_claimed_qty inside Instrument.place (caller_owns_retry): the last
\* fence before the HTTP call, which may persist a scaled down quantity.
SyncQty(w) ==
  /\ stage[w] = "begun"
  /\ LET i == job[w]
         s == held[w][i]
     IN  IF Matches(i, s)
         THEN \E q \in 1..queue[i].qty :
                LET r == [queue[i] EXCEPT !.qty = q] IN
                  /\ queue' = [queue EXCEPT ![i] = r]
                  /\ held' = [held EXCEPT ![w][i] = r]
                  /\ stage' = [stage EXCEPT ![w] = "cleared"]
                  /\ job' = job
         ELSE queue' = queue /\ Resume(w)
  /\ UNCHANGED <<todo, why, plan, seen, wire, answer, orders, crashes>>

\* After an ambiguous answer the worker looks the client id up at once: an
\* order found is adopted, otherwise the record is marked unknown.
LookupAfter(w) ==
  /\ stage[w] = "unsure"
  /\ LET i == job[w]
         s == held[w][i]
     IN  \/ /\ HasLookup
            /\ \E o \in OrdersOf(i, s.rev) : Write(i, s, Unclaimed(Accepted(queue[i], o)))
         \/ Write(i, s, Unclaimed(Ambiguous(queue[i])))
  /\ Resume(w)
  /\ UNCHANGED <<todo, why, plan, seen, wire, answer, orders, crashes>>

EndPass(w) ==
  /\ stage[w] = "working" /\ seen[w] = NoneHeld /\ held[w] = NoneHeld
  /\ stage' = [stage EXCEPT ![w] = "idle"]
  /\ UNCHANGED <<queue, todo, job, why, held, plan, seen, wire, answer, orders, crashes>>

\* consolidate_deferred_streams at the daemon's start: one evictable record of
\* each stream is kept (the newest by the caller-supplied created_ts).
Consolidate(w) ==
  /\ stage[w] = "idle"
  /\ LET pending == {i \in Queued : Evictable(queue[i]) /\ queue[i].why \in Consolidated}
     IN  \E kept \in SUBSET pending :
           /\ \A i \in pending : \E j \in kept : StreamOf[j] = StreamOf[i]
           /\ \A j, k \in kept : StreamOf[j] = StreamOf[k] => j = k
           /\ kept # pending
           /\ queue' = [i \in Intents |-> IF i \in pending \ kept THEN NoRec ELSE queue[i]]
  /\ UNCHANGED <<todo, stage, job, why, held, plan, seen, wire, answer, orders, crashes>>

--------------------------------------------------------------------------------
(* Failures of processes, and the passing of time *)

\* Everything process a keeps in memory
Forget(a) ==
  /\ stage' = [stage EXCEPT ![a] = "idle"]
  /\ job' = [job EXCEPT ![a] = NoIntent]
  /\ held' = [held EXCEPT ![a] = NoneHeld]
  /\ answer' = [answer EXCEPT ![a] = NoOid]
  /\ plan' = [w \in Workers |-> IF w = a THEN {} ELSE plan[w]]
  /\ seen' = [w \in Workers |-> IF w = a THEN NoneHeld ELSE seen[w]]

\* A queue write or a pass raised (disk full, lock timeout): place swallows it,
\* the daemon logs "pass error (continuing)".  The process lives on, and so
\* does the claim it holds.
Abandon(a) ==
  /\ stage[a] # "idle"
  /\ Forget(a)
  /\ UNCHANGED <<queue, todo, why, wire, orders, crashes>>

\* The process is killed and restarted under a new (pid, start time) identity:
\* producer_claim_owner_state now answers "dead" for its records.
Crash(a) ==
  /\ crashes < MaxCrashes /\ crashes' = crashes + 1
  /\ Forget(a)
  /\ queue' = [i \in Intents |-> IF i \in Queued /\ queue[i].owner = a
                                 THEN [queue[i] EXCEPT !.owner = Nobody] ELSE queue[i]]
  /\ UNCHANGED <<todo, why, wire, orders>>

\* claim_until passes
Lapse(i) ==
  /\ i \in Queued /\ queue[i].live
  /\ queue' = [queue EXCEPT ![i].live = FALSE]
  /\ UNCHANGED <<todo, stage, job, why, held, plan, seen, wire, answer, orders, crashes>>

--------------------------------------------------------------------------------
(* The venue and the network (external) *)

\* The request reaches the venue and becomes an order.  No deduplication by
\* client order id is assumed.
Accept(m) ==
  /\ m \in wire
  /\ wire' = wire \ {m}
  /\ \E o \in Oids :
       /\ orders[o] = NoOrder
       /\ \A p \in Oids : p < o => orders[p] # NoOrder
       /\ orders' = [orders EXCEPT ![o] = [intent |-> m.intent, rev |-> m.rev, qty |-> m.qty,
                                           filled |-> 0, status |-> "open"]]
       /\ answer' = IF stage[m.by] = "sent" /\ job[m.by] = m.intent
                    THEN [answer EXCEPT ![m.by] = o] ELSE answer
  /\ UNCHANGED <<queue, todo, stage, job, why, held, plan, seen, crashes>>

\* The request is lost, or the venue rejects it with an error
Lose(m) ==
  /\ m \in wire
  /\ wire' = wire \ {m}
  /\ UNCHANGED <<queue, todo, stage, job, why, held, plan, seen, answer, orders, crashes>>

Open(o) == orders[o] # NoOrder /\ orders[o].status = "open"

Fill(o, n) ==
  /\ Open(o) /\ orders[o].filled + n <= orders[o].qty
  /\ orders' = [orders EXCEPT ![o].filled = @ + n,
                              ![o].status = IF orders[o].filled + n = orders[o].qty
                                            THEN "closed" ELSE "open"]
  /\ UNCHANGED <<queue, todo, stage, job, why, held, plan, seen, wire, answer, crashes>>

\* canceled by a person, by monitororder's TTL, by tradeall, ...
CancelOrder(o) ==
  /\ Open(o)
  /\ orders' = [orders EXCEPT ![o].status = "canceled"]
  /\ UNCHANGED <<queue, todo, stage, job, why, held, plan, seen, wire, answer, crashes>>

\* EXPIRED or REJECTED by the venue after acceptance
ExpireOrder(o) ==
  /\ Open(o) /\ orders[o].rev < MaxRev
  /\ orders' = [orders EXCEPT ![o].status = "expired"]
  /\ UNCHANGED <<queue, todo, stage, job, why, held, plan, seen, wire, answer, crashes>>

\* resolve_accepted_order: the program that canceled the order removes its
\* tracker, whoever has leased it.
ResolveAccepted(i) ==
  /\ i \in Queued /\ queue[i].life = "accepted"
  /\ orders[queue[i].oid].status = "canceled"
  /\ queue' = [queue EXCEPT ![i] = NoRec]
  /\ UNCHANGED <<todo, stage, job, why, held, plan, seen, wire, answer, orders, crashes>>

--------------------------------------------------------------------------------
ProducerStep(p) ==
  \/ \E i \in Intents : Persist(p, i) \/ RefuseEarly(p, i)
  \/ EnqueueRefused(p)
  \/ BeginProducer(p)

\* One record of a pass
RecordStep(w, i) ==
  \/ AdoptLive(w, i)
  \/ Quarantine(w, i)
  \/ SettleOrder(w, i)
  \/ ObserveOrder(w, i)
  \/ LookupFound(w, i)
  \/ Wait(w, i)
  \/ Clear(w, i)

PassStep(w) ==
  \/ Claim(w)
  \/ \E i \in Intents : RecordStep(w, i)
  \/ BeginWorker(w)
  \/ SyncQty(w)
  \/ LookupAfter(w)
  \/ EndPass(w)

WorkerStep(w) ==
  \/ \E due \in SUBSET Intents : Scan(w, due)
  \/ \E i \in Intents : Expire(w, i)
  \/ Consolidate(w)
  \/ PassStep(w)

DispatchStep(a) == RefuseLate(a) \/ Send(a) \/ ReturnAccepted(a) \/ ReturnUnknown(a)

VenueStep ==
  \/ \E m \in wire : Accept(m) \/ Lose(m)
  \/ \E o \in Oids :
       \/ \E n \in 1..Qty : Fill(o, n)
       \/ CancelOrder(o)
       \/ ExpireOrder(o)

Next ==
  \/ \E p \in Producers : ProducerStep(p)
  \/ \E w \in Workers : WorkerStep(w)
  \/ \E a \in Actors : DispatchStep(a) \/ Abandon(a) \/ Crash(a)
  \/ \E i \in Intents : Lapse(i) \/ ResolveAccepted(i)
  \/ VenueStep

Spec == Init /\ [][Next]_vars

\* The daemon polls for ever (main loop of the worker) and finishes the passes
\* it starts; leases lapse with the clock.  A pass may abort, but not for ever at
\* the same write, and a venue call made again and again does not fail every
\* time: hence strong fairness of the steps a pass repeats.
Fairness ==
  /\ \A i \in Intents : WF_vars(Lapse(i))
  /\ \A w \in Workers :
       /\ WF_vars(PassStep(w) \/ DispatchStep(w)) /\ SF_vars(Claim(w))
       /\ \A i \in Intents :
            /\ SF_vars(\E due \in SUBSET Intents : i \in due /\ Scan(w, due))
            /\ SF_vars(\E due \in SUBSET Intents : Scan(w, due) /\ seen'[w][i] # NoRec)
            /\ SF_vars(Claim(w) /\ held'[w][i] # NoRec)
            /\ SF_vars(AdoptLive(w, i))
            /\ SF_vars(SettleOrder(w, i))
            /\ SF_vars(LookupFound(w, i))

FairSpec == Spec /\ Fairness

--------------------------------------------------------------------------------
(* Properties *)

\* Every variable holds what the code can store in it.
TypeOK ==
  /\ queue \in [Intents -> Records \cup {NoRec}]
  /\ todo \subseteq Intents
  /\ stage \in [Actors -> Stages]
  /\ job \in [Actors -> Intents \cup {NoIntent}]
  /\ why \in [Producers -> Refusals \cup {"abort"}]
  /\ held \in [Actors -> [Intents -> Records \cup {NoRec}]]
  /\ plan \in [Workers -> SUBSET Intents]
  /\ seen \in [Workers -> [Intents -> Records \cup {NoRec}]]
  /\ wire \subseteq Requests
  /\ answer \in [Actors -> Oids \cup {NoOid}]
  /\ orders \in [Oids -> Orders \cup {NoOrder}]
  /\ crashes \in 0..MaxCrashes

InDispatch(a) == stage[a] \in {"cleared", "sent"}

\* Claim fencing (begin_claimed_submit, update_claimed_qty): two processes are
\* never both past their last fence for the same client order id, whatever
\* leases lapsed and whichever worker took the record over.
SingleDispatcher ==
  \A a, b \in Actors :
    a # b /\ InDispatch(a) /\ InDispatch(b) /\ job[a] = job[b]
      => held[a][job[a]].rev # held[b][job[b]].rev

\* Persist before submit, look up before resubmit: one client order id is never
\* submitted again while an earlier request or order of the same id exists.
OneOrderPerClientId ==
  \A i \in Intents, rev \in 0..MaxRev :
    /\ Cardinality(OrdersOf(i, rev)) <= 1
    /\ Cardinality({m \in wire : m.intent = i /\ m.rev = rev}) <= 1
    /\ OnWire(i, rev) => OrdersOf(i, rev) = {}

\* An order that rests at the venue always has a durable record that leads to
\* it: its accepted tracker, or an intent that has to be looked up first.
\* Eviction, consolidation, expiry and crashes never drop it.
LiveOrderTracked ==
  \A o \in Oids : Open(o) =>
    LET i == orders[o].intent IN
      /\ queue[i] # NoRec
      /\ \/ queue[i].life = "accepted" /\ queue[i].oid = o
         \/ PossiblySubmitted(queue[i]) /\ queue[i].rev = orders[o].rev

\* submission_state "refused" is a proof of absence: nothing of that revision is
\* resting or on its way, so the record may be resubmitted without a lookup, be
\* evicted, or expire.
RefusedMeansAbsent ==
  \A i \in Queued :
    queue[i].life = "submit_pending" /\ ~PossiblySubmitted(queue[i]) =>
      OrdersOf(i, queue[i].rev) = {} /\ ~OnWire(i, queue[i].rev)

\* Filled quantity, plus what can still fill, of a set of orders
Exposure(S) ==
  MapThenSumSet(LAMBDA o : IF orders[o].status = "open" THEN orders[o].qty
                           ELSE orders[o].filled, S)

FilledOf(S) == MapThenSumSet(LAMBDA o : orders[o].filled, S)

AllOrdersOf(i) == {o \in Oids : orders[o] # NoOrder /\ orders[o].intent = i}

\* However often an intent is resubmitted, its orders never buy or sell more
\* than it asked for.
NeverOverfilled == \A i \in Intents : Exposure(AllOrdersOf(i)) <= Qty

\* The ledger of a record (delivered_qty and qty of complete_claim): what
\* earlier revisions delivered is exactly what the venue filled for them, and
\* the rest never exceeds what is still owed.
LedgerMatchesVenue ==
  \A i \in Queued :
    /\ queue[i].delivered = FilledOf({o \in AllOrdersOf(i) : orders[o].rev < queue[i].rev})
    /\ queue[i].qty >= 1
    /\ queue[i].delivered + queue[i].qty <= Qty

\* "Accepted trackers never expire ... because that would lose real venue
\* state" (config.env:295): a tracker leaves its order only once the order is
\* terminal at the venue.
TrackerOutlivesOrder ==
  [][\A i \in Queued :
       queue[i].life = "accepted" /\ Open(queue[i].oid)
         => /\ queue'[i] # NoRec
            /\ queue'[i].life = "accepted"
            /\ queue'[i].oid = queue[i].oid]_vars

\* A revision is only opened by the venue's own terminal status, and a record
\* never goes back to an earlier one: old claims stay fenced for good.
RevisionsGrow ==
  [][\A i \in Queued : queue'[i] # NoRec =>
       \/ queue'[i].rev = queue[i].rev
       \/ /\ queue'[i].rev = queue[i].rev + 1
          /\ queue[i].life = "accepted"
          /\ orders[queue[i].oid].status = "expired"]_vars

\* A claim that is possibly mid-submit is never handed from a living process to
\* another one ("the worker will never resubmit it", order_retry_worker.py).
LiveOwnerKeepsClaim ==
  [][\A i \in Queued :
       /\ LiveClaim(queue[i])
       /\ queue'[i] # NoRec /\ queue'[i].sub = "producer_claimed"
       => queue'[i].owner \in {queue[i].owner, Nobody}]_vars

\* An order that ended at the venue does not keep its tracker for ever.
EndedOrdersAreSettled ==
  \A i \in Intents, o \in Oids :
    (/\ queue[i] # NoRec
     /\ queue[i].life = "accepted" /\ queue[i].oid = o
     /\ orders[o].status # "open")
    ~> (queue[i] = NoRec \/ queue[i].oid # o)

\* A lost response, a crash or an aborted pass after the venue took the order:
\* the order is adopted sooner or later, also from a process that lives on.
LostAnswersAreRecovered ==
  \A i \in Intents, rev \in 0..MaxRev :
    (/\ queue[i] # NoRec /\ PossiblySubmitted(queue[i])
     /\ queue[i].rev = rev /\ OrdersOf(i, rev) # {})
    ~> (queue[i] = NoRec \/ queue[i].life = "accepted" \/ queue[i].rev # rev)

================================================================================
