--------------------------- MODULE CertifiedStore ---------------------------
(***************************************************************************)
(* What the account cache promises about its fills, without files,         *)
(* manifests, crashes or failing writes: one content at a time, replaced   *)
(* as a whole, that never loses a fill the REST cursor has passed, except  *)
(* fills past the retention horizon; and readers that take all of it.      *)
(***************************************************************************)
EXTENDS FiniteSets, Functions

CONSTANTS Fills, Readers

VARIABLES
  content,     \* the rows a process that starts now would load
  settled,     \* the fills that REST will not send again
  old,         \* fills past the retention horizon
  view         \* what each reader last loaded

storeVars == <<content, settled, old, view>>

Init ==
  /\ content = <<>> /\ settled = {} /\ old = {}
  /\ view = [r \in Readers |-> <<>>]

\* A new generation has no fill twice, and it has what REST is done with.
Certify ==
  /\ content' # content /\ IsInjective(content')
  /\ settled \subseteq settled' /\ settled' \ old \subseteq Range(content')
  /\ UNCHANGED <<old, view>>

\* The cursor may pass fills the content already has.
Settle ==
  /\ settled \subseteq settled' /\ settled' \ old \subseteq Range(content)
  /\ UNCHANGED <<content, old, view>>

Age ==
  /\ old \subseteq old' /\ old' # old
  /\ UNCHANGED <<content, settled, view>>

Refresh(r) ==
  /\ view' = [view EXCEPT ![r] = content]
  /\ UNCHANGED <<content, settled, old>>

Next == Certify \/ Settle \/ Age \/ \E r \in Readers : Refresh(r)

Spec == Init /\ [][Next]_storeVars
=============================================================================
