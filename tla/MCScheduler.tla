---------------------------- MODULE MCScheduler ----------------------------
(* Scheduler with small directories of schedule definitions.                  *)
EXTENDS Scheduler, TLC

Scheduled(due, misfire, enabled, timeout, targets) ==
  [due |-> due, misfire |-> misfire, enabled |-> enabled, timeout |-> timeout, targets |-> targets]

\* A schedule of several targets beside one of a single target, under each policy,
\* and a disabled schedule before one with gaps that the window cuts.
MCPlans ==
  { <<Scheduled({3}, "skip", TRUE, 1, 1), Scheduled({2, 3}, "catch_up_once", TRUE, 2, 1)>>,
    <<Scheduled({1}, "catch_up_once", FALSE, 1, 1), Scheduled({2, 4}, "catch_up_once", TRUE, 1, 3)>> }

\* Ticks are interchangeable.
Symmetry == Permutations(Tick)
=============================================================================
