----------------------------- MODULE RoundPromise -----------------------------
(***************************************************************************)
(* What a round of the rtrade pair coordinator promises to the account:    *)
(* one quote on each side, and after that only orders that reduce an       *)
(* exposure nothing can enlarge any more; it ends flat, with nothing left  *)
(* at the venue.                                                           *)
(***************************************************************************)
EXTENDS Integers

CONSTANT Qty           \* quantity of a round

VARIABLES
  traded,              \* quantity traded on each side
  working,             \* quantity that may still trade on each side
  placed,              \* sides that have had an order
  ended                \* the round is over

rvars == <<traded, working, placed, ended>>

Both == {"BUY", "SELL"}
Other(s) == IF s = "BUY" THEN "SELL" ELSE "BUY"

Init ==
  /\ traded = [s \in Both |-> 0] /\ working = [s \in Both |-> 0]
  /\ placed = {} /\ ended = FALSE

Order(s, q) ==
  /\ ~ended
  /\ working' = [working EXCEPT ![s] = @ + q]
  /\ placed' = placed \cup {s}
  /\ UNCHANGED <<traded, ended>>

Quote(s, q) == s \notin placed /\ Order(s, q)

Reduce(s, q) ==
  /\ working[Other(s)] = 0
  /\ traded[s] + working[s] + q <= traded[Other(s)]
  /\ Order(s, q)

Trade(s) ==
  /\ working[s] > 0
  /\ traded' = [traded EXCEPT ![s] = @ + 1]
  /\ working' = [working EXCEPT ![s] = @ - 1]
  /\ UNCHANGED <<placed, ended>>

Withdraw(s, q) ==
  /\ working' = [working EXCEPT ![s] = @ - q]
  /\ UNCHANGED <<traded, placed, ended>>

End ==
  /\ ~ended /\ ended' = TRUE
  /\ traded["BUY"] = traded["SELL"] /\ \A s \in Both : working[s] = 0
  /\ UNCHANGED <<traded, working, placed>>

Next ==
  \/ End
  \/ \E s \in Both :
       \/ Trade(s)
       \/ \E q \in 1..Qty : Quote(s, q) \/ Reduce(s, q)
       \/ \E q \in 1..working[s] : Withdraw(s, q)

Promise == Init /\ [][Next]_rvars
=============================================================================
