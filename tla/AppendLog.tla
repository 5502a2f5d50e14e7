----------------------------- MODULE AppendLog -----------------------------
(***************************************************************************)
(* What the manifest of a calculated fact promises: a log of generations   *)
(* that is only appended to, each with a run key and a sequence number of  *)
(* its own.                                                                *)
(***************************************************************************)
EXTENDS Naturals, Sequences

VARIABLE log    \* a sequence of records with the fields seq and key

Init == log = <<>>

\* One generation is appended that shares nothing with those before it.
Extend ==
  /\ Len(log') = Len(log) + 1
  /\ SubSeq(log', 1, Len(log)) = log
  /\ \A i \in DOMAIN log :
       log[i].seq # log'[Len(log')].seq /\ log[i].key # log'[Len(log')].key

Spec == Init /\ [][Extend]_log
=============================================================================
