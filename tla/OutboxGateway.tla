---------------------------- MODULE OutboxGateway ----------------------------
(***************************************************************************)
(* The outbox with a process that removes records by their bare id: the    *)
(* autonomous intent gateway (cancel_existing_ai_open_orders and           *)
(* _cleanup_refused_retry_records of providers/execution_audit.py).  It    *)
(* reads the whole queue, chooses records, and calls order_retry.discard   *)
(* with their ids in a later lock section that does not look at lease,     *)
(* revision or lifecycle again.                                            *)
(***************************************************************************)
EXTENDS OrderOutboxInv

VARIABLE doomed     \* ids the gateway chose and has not discarded yet

gatewayVars == <<queue, todo, stage, job, why, held, plan, seen, wire, answer, orders,
                 crashes, doomed>>

GatewayInit == Init /\ doomed = {}

\* A record the gateway may choose: one that looks pending, or the tracker of
\* an order it has just canceled.  Symbol, side and actor select any of them;
\* the refused records of the cleanup are pending ones.
Chosen(i) ==
  \/ queue[i].life = "submit_pending"
  \/ queue[i].life = "accepted" /\ orders[queue[i].oid].status = "canceled"

\* order_retry.load_all: a snapshot outside the lock
Choose(ids) ==
  /\ doomed = {} /\ ids # {}
  /\ ids \subseteq {i \in Queued : Chosen(i)}
  /\ doomed' = ids
  /\ UNCHANGED vars

\* order_retry.discard: whatever is now stored under these ids is removed
Discard ==
  /\ doomed # {}
  /\ queue' = [i \in Intents |-> IF i \in doomed THEN NoRec ELSE queue[i]]
  /\ doomed' = {}
  /\ UNCHANGED <<todo, stage, job, why, held, plan, seen, wire, answer, orders, crashes>>

\* The write fails and the exception is swallowed, or the gateway is killed.
GiveUpDiscard ==
  /\ doomed # {}
  /\ doomed' = {}
  /\ UNCHANGED vars

GatewayNext ==
  \/ Next /\ UNCHANGED doomed
  \/ \E ids \in SUBSET Intents : Choose(ids)
  \/ Discard
  \/ GiveUpDiscard

GatewaySpec == GatewayInit /\ [][GatewayNext]_gatewayVars

--------------------------------------------------------------------------------
(* Properties *)

\* The variables of the outbox keep their types, and so does the gateway's choice.
GatewayTypeOK == TypeOK /\ doomed \subseteq Intents

\* A refused intent is about to be enqueued, a process is past its last fence,
\* or a request is on its way.
InFlight(i) ==
  \/ \E a \in Actors : stage[a] \in {"refused", "cleared"} /\ job[a] = i
  \/ \E m \in wire : m.intent = i

\* A discard is final: once the record of an intent is gone and nothing of it is
\* in flight, no claim, plan or snapshot that outlived it brings the record back,
\* and no order of the intent is ever placed again.
DiscardIsFinal ==
  [][\A i \in Intents \ (todo \cup Queued) :
       ~InFlight(i) =>
         /\ queue'[i] = NoRec
         /\ ~InFlight(i)'
         /\ AllOrdersOf(i)' = AllOrdersOf(i)]_gatewayVars

================================================================================
