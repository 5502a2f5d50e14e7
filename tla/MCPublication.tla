--------------------------- MODULE MCPublication ---------------------------
(* One snapshot dataset that is published again and again. *)
EXTENDS Publication, TLC

\* A snapshot dataset whose publications follow one another.
MCRerun == {[appending |-> FALSE, overlap |-> FALSE, collecting |-> FALSE]}

\* Publishers are interchangeable.
Symmetry == Permutations(Publisher)
=============================================================================
