-------------------------- MODULE MCSegmentAppend --------------------------
(* Runs of a calculated fact that meet a stale lock. *)
EXTENDS SegmentAppend, TLC

CONSTANTS s1, c1

\* Three runs of one contract that overlap and break stale locks in two steps.
MCOverlapping ==
  {[segments |-> {s1}, contracts |-> {c1}, barren |-> {}, overlap |-> TRUE,
    breakAtomically |-> FALSE, heldBriefly |-> TRUE, runs |-> 3]}

\* Runs are interchangeable.
Symmetry == Permutations(Run)
=============================================================================
