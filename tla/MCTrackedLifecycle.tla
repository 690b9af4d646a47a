------------------------- MODULE MCTrackedLifecycle -------------------------
(***************************************************************************)
(* Instances of TrackedLifecycle for TLC: a cfg gives the lookup policy    *)
(* of one venue.  Order ids are interchangeable.                           *)
(***************************************************************************)
EXTENDS TrackedLifecycle, TLC

OidSymmetry == Permutations(Oids)
=============================================================================
