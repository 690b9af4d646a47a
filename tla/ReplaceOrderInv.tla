--------------------------- MODULE ReplaceOrderInv ---------------------------
(***************************************************************************)
(* The inductive strengthening behind the theorems of ReplaceOrder: what   *)
(* ties an order to the record it was submitted under, a record to the     *)
(* order it replaces, and a process to the claim it works on.              *)
(***************************************************************************)
EXTENDS ReplaceOrder

Live(k) == orders[k].st \in {"wire", "open"}
Lost(k) == orders[k].st = "lost"
OrdersOf(r) == {k \in Known : orders[k].of = r}
Sent(r, rev) == {k \in OrdersOf(r) : orders[k].rev = rev}

\* Fills, and revisions: the client id of an order has been used before only if
\* what it was used for is lost.
OrderSane(k) ==
  /\ orders[k].rev < k
  /\ orders[k].filled <= orders[k].qty
  /\ Live(k) \/ Lost(k) => orders[k].filled < orders[k].qty

IdsUsedOnce ==
  \A j, k \in Known :
    /\ orders[j].of = orders[k].of /\ orders[j].rev = orders[k].rev
    /\ ~Lost(j) /\ ~Lost(k)
    => j = k

\* What record x of r says of itself is so, and the orders of r are those it was
\* submitted for: a live one is what it is about now, unless it is gone.
Fits(r, x) ==
  /\ x.rev <= Len(orders)
  /\ x.life \in {"awaiting", "pending", "accepted"} => x.qty >= 1
  /\ r = 0 => x.old = 0 /\ x.life \notin {"unused", "awaiting"}
  /\ r # 0 /\ x.life # "unused" => x.old \in Known
  /\ r # 0 /\ x.life \in {"pending", "accepted"} => orders[x.old].st = "canceled"
  /\ x.life = "accepted" =>
       x.oid \in Sent(r, x.rev) /\ orders[x.oid].st \notin {"wire", "lost"}
  /\ x.life = "pending" /\ x.sub = "refused" => \A k \in Sent(r, x.rev) : Lost(k)
  /\ \A k \in OrdersOf(r) :
       /\ orders[k].rev <= x.rev
       /\ x.life \in {"pending", "accepted", "gone"}
       /\ Live(k) => \/ x.life = "gone" /\ x.old \in excused
                     \/ x.life = "accepted" /\ x.oid = k
                     \/ x.life = "pending" /\ x.sub # "refused" /\ x.rev = orders[k].rev

\* monitororder, from the listing of an order to the activation of its replacement
MonitorSane ==
  /\ Mon.at \in {"listed", "resolve", "queued", "leased", "canceled"} =>
       Mon.oid \in Known /\ orders[Mon.oid].st \notin {"wire", "lost"}
  /\ Mon.at = "resolve" => orders[Mon.oid].st = "canceled"
  /\ Mon.at \in {"listed", "queued", "leased"} =>
       (orders[Mon.oid].st = "canceled" => Mon.oid \in excused)
  /\ Mon.at \in {"queued", "leased", "canceled"} =>
       Mon.rec # 0 /\ rec[Mon.rec].life # "unused" /\ rec[Mon.rec].old = Mon.oid
  /\ Mon.at \in {"queued", "leased"} =>
       (orders[Mon.oid].st = "open" => rec[Mon.rec].life = "awaiting")
  /\ Mon.at \in {"leased", "canceled"} /\ Mine("mon") =>
       rec[Mon.rec].life = "awaiting" \/ Mon.oid \in excused

\* From begin_claimed_submit to the answer, held or lost, the claim stands in the
\* record under the process's name, until the order is adopted or the record dropped.
Owns(p) ==
  LET x == rec[proc[p].rec]
  IN  x.life = "pending" /\ x.sub = "claimed" /\ x.owner = p /\ x.rev = proc[p].rev

\* A claim a process still holds is what it took it for.
ClaimSane(p) ==
  LET x == rec[proc[p].rec]
  IN  Mine(p) =>
        /\ proc[p].at = "awaiting" => x.life = "awaiting"
        /\ proc[p].at = "accepted" => x.life = "accepted"
        /\ proc[p].at \in {"pending", "active"} =>
             x.life = "pending" /\ (x.sub = "claimed" => x.owner = "dead")
        /\ proc[p].at = "active" => \A k \in Sent(proc[p].rec, x.rev) : Lost(k)
        /\ proc[p].at \in {"begun", "sent"} => Owns(p)

SubmitSane(p) ==
  LET x == rec[proc[p].rec]
  IN  /\ proc[p].at = "begun" =>
           /\ proc[p].qty >= 1 /\ proc[p].rev <= x.rev
           /\ \A k \in Sent(proc[p].rec, proc[p].rev) : Lost(k)
           /\ Owns(p) \/ (x.life = "gone" /\ x.old \in excused)
      /\ proc[p].at = "sent" =>
           /\ proc[p].oid \in Sent(proc[p].rec, proc[p].rev)
           /\ \A k \in Sent(proc[p].rec, proc[p].rev) : k = proc[p].oid \/ Lost(k)
           /\ \/ x.life = "gone" \/ x.rev > proc[p].rev
              \/ x.life = "accepted" \/ Owns(p)

\* Two processes never submit under the same client id.
SubmittersApart ==
  \A p, q \in Procs :
    /\ p # q /\ {proc[p].at, proc[q].at} \subseteq {"begun", "sent"}
    /\ proc[p].rec = proc[q].rec
    => proc[p].rev # proc[q].rev

RInv ==
  /\ TypeOK /\ IdsUsedOnce /\ MonitorSane /\ SubmittersApart
  /\ \A k \in Known : OrderSane(k)
  /\ \A r \in Recs : Fits(r, rec[r])
  /\ \A p \in Procs : ClaimSane(p) /\ SubmitSane(p)
--------------------------------------------------------------------------------
(* Why repricing keeps its promise while nobody else cancels: all that is left of
   the quantity stands under one order, the last one the venue acknowledged. *)

Alone == \A k \in Oids : ~CancelOutside(k)

Acked(k) == orders[k].st \notin {"wire", "lost"}

\* Record x of r asks for an order that the venue has not acknowledged so far.
Outstanding(r, x) == x.life = "pending" /\ \A k \in Sent(r, x.rev) : ~Acked(k)

\* It asks for the rest of b: b expired under it, or was canceled for it.
Continues(r, x, b) ==
  \/ orders[b].of = r /\ orders[b].st = "expired"
  \/ r # 0 /\ x.old = b /\ orders[b].st = "canceled"

\* What record x of r asks for now, or may ask for next, is the rest of b.
Backed(r, x, b) ==
  /\ x.life = "awaiting" /\ orders[x.old].st = "canceled" => x.old = b
  /\ Outstanding(r, x) => Continues(r, x, b) /\ x.qty <= Rest(orders[b])
  /\ x.life \in {"pending", "accepted"} =>
       \A k \in Sent(r, x.rev) : orders[k].st = "expired" => k = b
  /\ \A k \in OrdersOf(r) : orders[k].st = "wire" =>
       x.life = "pending" /\ orders[k].rev = x.rev /\ orders[k].qty <= Rest(orders[b])

Standing(b) ==
  /\ Acked(b)
  /\ \A k \in Known : orders[k].st = "open" => k = b
  /\ \A r \in Recs : Backed(r, rec[r], b)
  /\ FilledIn(orders) + Rest(orders[b]) <= Qty

\* Nothing cancels an order behind monitororder's back, takes a record from a
\* process that is about to send, or replaces an order twice.
Calm ==
  /\ Mon.at \in {"listed", "queued", "leased"} => orders[Mon.oid].st # "canceled"
  /\ \A p \in Procs : proc[p].at = "begun" => Owns(p) /\ proc[p].qty = rec[proc[p].rec].qty
  /\ \A r, s \in Recs \ {0} : Queued(r) /\ Queued(s) /\ rec[r].old = rec[s].old => r = s
  /\ \A k \in Known : ~Acked(k) => orders[k].filled = 0

OneInv == Calm /\ \E b \in Known : Standing(b)
=============================================================================
