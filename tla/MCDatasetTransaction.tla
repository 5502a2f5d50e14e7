------------------------ MODULE MCDatasetTransaction ------------------------
(* The dataset transaction on small sets of runs, parts and versions. *)
EXTENDS DatasetTransaction, TLC

\* Runs, parts and definitions are interchangeable: sound for safety only.
Symmetry == Permutations(Run) \cup Permutations(Part) \cup Permutations(Definition)
=============================================================================
