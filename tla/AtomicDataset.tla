--------------------------- MODULE AtomicDataset ---------------------------
(***************************************************************************)
(* What a dataset transaction promises to readers: the dataset changes in  *)
(* one step, from the parts computed from one snapshot of the sources to   *)
(* the parts computed from another one that is no older.                   *)
(***************************************************************************)
EXTENDS Naturals

CONSTANTS Part, Definition, MaxVersion, Absent

VARIABLE contents    \* what each part was computed from, or Absent

\* The parts of a run that works from one definition and one snapshot.
Generation(d, v) == [p \in Part |-> <<d, v[p]>>]

Init == contents = Absent

\* A run commits: no source goes back to an older version.
Publish ==
  \E d \in Definition, v \in [Part -> 1 .. MaxVersion] :
    /\ contents # Absent => \A p \in Part : contents[p][2] <= v[p]
    /\ contents' = Generation(d, v)

\* A run for another definition drops the outputs of the previous one.
Withdraw ==
  /\ contents # Absent
  /\ \E d \in Definition, p \in Part : contents[p][1] # d
  /\ contents' = Absent

Next == Publish \/ Withdraw

Spec == Init /\ [][Next]_contents
=============================================================================
