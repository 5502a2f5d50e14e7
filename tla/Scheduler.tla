------------------------------ MODULE Scheduler ------------------------------
(* The scheduler of runtime/scheduler.py.  Ticks (one process each, started    *)
(* by hand or by the machine's own timer) read the clock, take the one lock of *)
(* the project, and go through the schedule definitions in order: which minute *)
(* is due, the check is noted, the occurrence is claimed, and its targets are  *)
(* run one after the other.  The lock is a transaction of an SQLite file: it   *)
(* is never waited for, and the death of its holder frees it.  What a target   *)
(* runs (an asset or a chain) is a step that succeeds or fails.                *)
EXTENDS Integers

CONSTANTS
  Tick,        \* the ticks that may be under way together
  Count,       \* the number of schedule definitions
  MaxTargets,  \* the largest number of targets of a schedule
  MaxTime,     \* bound: the last minute of the clock
  Window,      \* _MAX_CATCH_UP_MINUTES
  Plans,       \* the schedule directories a run of the model may start with
  None

Schedule == 1..Count
Minute == 1..MaxTime
Never == 0
Target == 1..MaxTargets
Occurrence == Schedule \X Minute
Misfire == {"skip", "catch_up_once"}
\* load_schedule_spec: what a definition that is loaded may say.
Definition == [due : SUBSET Minute, misfire : Misfire, enabled : BOOLEAN,
               timeout : Nat \ {0}, targets : Target]

ASSUME SchedulerAssumption ==
  /\ Count \in Nat \ {0} /\ MaxTargets \in Nat \ {0} /\ MaxTime \in Nat \ {0} /\ Window \in Nat
  /\ Plans \subseteq [Schedule -> Definition]
  /\ None \notin Tick

VARIABLES
  plan,      \* the schedule definitions (they do not change)
  clock,     \* the present minute
  holder,    \* the tick whose transaction is the lock, or None
  checked,   \* schedules.last_checked_at
  row,       \* occurrences: status and started_at
  result,    \* occurrence_targets: status
  tick,      \* what each tick does and remembers
  runs,      \* history: how often a target was run for an occurrence
  since,     \* history: the first check of a schedule
  excused    \* history: up to where a schedule was let go (death, busy, window)

vars == <<plan, clock, holder, checked, row, result, tick, runs, since, excused>>
history == <<runs, since, excused>>

Idle == [pc |-> "idle", current |-> 1, spec |-> 1, at |-> 1, index |-> 1, blocked |-> FALSE]
Row == [status : {"none", "running", "success", "failed", "timed_out"}, started : {Never} \cup Minute]
Unclaimed == [status |-> "none", started |-> Never]

Init ==
  /\ plan \in Plans
  /\ clock = 1
  /\ holder = None
  /\ checked = [s \in Schedule |-> Never]
  /\ row = [o \in Occurrence |-> Unclaimed]
  /\ result = [o \in Occurrence |-> [i \in Target |-> "none"]]
  /\ tick = [t \in Tick |-> Idle]
  /\ runs = [o \in Occurrence |-> [i \in Target |-> 0]]
  /\ since = [s \in Schedule |-> Never]
  /\ excused = [s \in Schedule |-> Never]

-----------------------------------------------------------------------------
(* What a tick works on.                                                      *)
Works(t) == plan[tick[t].spec]
Claimed(t) == <<tick[t].spec, tick[t].at>>
Larger(m, n) == IF m < n THEN n ELSE m

(* The minutes a tick whose clock reads `current` looks at: only its own the  *)
(* first time and under "skip"; else everything since the last check, as far  *)
(* back as the window reaches.                                                *)
DueMinutes(s, current) ==
  LET from == IF checked[s] = Never \/ plan[s].misfire = "skip"
                THEN current
                ELSE Larger(checked[s] + 1, current - Window)
  IN plan[s].due \cap (from..current)

(* The tick goes on with the next definition, or ends and frees the lock.     *)
MoveOn(t) ==
  \/ /\ tick[t].spec < Count
     /\ tick' = [tick EXCEPT ![t] = [Idle EXCEPT !.pc = "check", !.current = tick[t].current,
                                                 !.spec = tick[t].spec + 1]]
     /\ UNCHANGED holder
  \/ /\ tick[t].spec = Count
     /\ tick' = [tick EXCEPT ![t] = Idle]
     /\ holder' = None

-----------------------------------------------------------------------------
PassMinute ==
  /\ clock < MaxTime
  /\ clock' = clock + 1
  /\ UNCHANGED <<plan, holder, checked, row, result, tick, history>>

(* The minute is read before the lock is asked for.                           *)
ReadClock(t) ==
  /\ tick[t].pc = "idle"
  /\ tick' = [tick EXCEPT ![t].pc = "lock", ![t].current = clock]
  /\ UNCHANGED <<plan, clock, holder, checked, row, result, history>>

\* Mutant: the lock is taken from whoever holds it.
AcquireAnyway(t) ==
  /\ tick[t].pc = "lock"
  /\ holder' = t
  /\ tick' = [tick EXCEPT ![t].pc = "check"]
  /\ UNCHANGED <<plan, clock, checked, row, result, history>>

Acquire(t) ==
  /\ tick[t].pc = "lock"
  /\ holder = None
  /\ holder' = t
  /\ tick' = [tick EXCEPT ![t].pc = "check"]
  /\ UNCHANGED <<plan, clock, checked, row, result, history>>

(* The lock is held: the tick reports that it is busy and checks nothing.     *)
FindBusy(t) ==
  /\ tick[t].pc = "lock"
  /\ holder # None
  /\ tick' = [tick EXCEPT ![t] = Idle]
  /\ UNCHANGED <<plan, clock, holder, checked, row, result, history>>

\* Mutant: the check is noted with the present minute and not with the tick's own.
CheckAtClock(t) ==
  LET s == tick[t].spec
      due == DueMinutes(s, tick[t].current)
  IN
  /\ tick[t].pc = "check"
  /\ checked' = [checked EXCEPT ![s] = clock]
  /\ \/ /\ due = {} \/ ~Works(t).enabled
        /\ MoveOn(t)
     \/ /\ Works(t).enabled
        /\ \E at \in due :
             /\ \A m \in due : m <= at
             /\ tick' = [tick EXCEPT ![t].pc = "claim", ![t].at = at]
        /\ UNCHANGED holder
  /\ since' = [since EXCEPT ![s] = IF @ = Never THEN clock ELSE @]
  /\ UNCHANGED <<plan, clock, row, result, runs, excused>>

(* The latest due minute is found and the check is noted, before anything is  *)
(* claimed.                                                                   *)
Check(t) ==
  LET s == tick[t].spec
      current == tick[t].current
      due == DueMinutes(s, current)
  IN
  /\ tick[t].pc = "check"
  /\ checked' = [checked EXCEPT ![s] = current]
  /\ \/ /\ due = {} \/ ~Works(t).enabled
        /\ MoveOn(t)
     \/ /\ Works(t).enabled
        /\ \E at \in due :
             /\ \A m \in due : m <= at
             /\ tick' = [tick EXCEPT ![t].pc = "claim", ![t].at = at]
        /\ UNCHANGED holder
  /\ since' = [since EXCEPT ![s] = IF @ = Never THEN current ELSE @]
  /\ excused' = IF checked[s] # Never /\ checked[s] + 1 < current - Window
                  THEN [excused EXCEPT ![s] = Larger(@, current - Window - 1)]
                  ELSE excused
  /\ UNCHANGED <<plan, clock, row, result, runs>>

(* The rows of the same definition that are still marked as running.          *)
RunningRows(s) == {m \in Minute : row[<<s, m>>].status = "running"}
NewestRow(s, m) == \A n \in RunningRows(s) : row[<<s, n>>].started <= row[<<s, m>>].started
\* Mutant: the age of a row is counted from its scheduled minute.
YoungByMinute(s, m) == clock - m < plan[s].timeout
StillYoung(s, m) == clock - row[<<s, m>>].started < plan[s].timeout

\* Mutant: an occurrence that has failed is claimed again.
ClaimAgain(t) ==
  /\ tick[t].pc = "claim"
  /\ row[Claimed(t)].status \in {"none", "failed"}
  /\ RunningRows(tick[t].spec) = {}
  /\ row' = [row EXCEPT ![Claimed(t)] = [status |-> "running", started |-> clock]]
  /\ tick' = [tick EXCEPT ![t].pc = "targets"]
  /\ UNCHANGED <<plan, clock, holder, checked, result, history>>

(* The occurrence is claimed in one transaction; a running row that is older  *)
(* than the timeout is closed in passing.                                     *)
Claim(t) ==
  LET s == tick[t].spec
      fresh == [status |-> "running", started |-> clock]
  IN
  /\ tick[t].pc = "claim"
  /\ row[Claimed(t)].status = "none"
  /\ \/ /\ RunningRows(s) = {}
        /\ row' = [row EXCEPT ![Claimed(t)] = fresh]
     \/ \E m \in RunningRows(s) :
          /\ NewestRow(s, m)
          /\ ~StillYoung(s, m)
          /\ row' = [row EXCEPT ![<<s, m>>].status = "timed_out", ![Claimed(t)] = fresh]
  /\ tick' = [tick EXCEPT ![t].pc = "targets"]
  /\ UNCHANGED <<plan, clock, holder, checked, result, history>>

(* The occurrence has a row already.                                          *)
FindDuplicate(t) ==
  /\ tick[t].pc = "claim"
  /\ row[Claimed(t)].status # "none"
  /\ MoveOn(t)
  /\ UNCHANGED <<plan, clock, checked, row, result, history>>

(* Another occurrence of the definition is marked as running and is young.    *)
FindRunning(t) ==
  LET s == tick[t].spec IN
  /\ tick[t].pc = "claim"
  /\ row[Claimed(t)].status = "none"
  /\ \E m \in RunningRows(s) : NewestRow(s, m) /\ StillYoung(s, m)
  /\ MoveOn(t)
  /\ excused' = [excused EXCEPT ![s] = Larger(@, tick[t].at)]
  /\ UNCHANGED <<plan, clock, checked, row, result, runs, since>>

-----------------------------------------------------------------------------
(* The targets of the claimed occurrence.                                     *)
Remaining(t) == tick[t].pc = "targets" /\ tick[t].index <= Works(t).targets

StartTarget(t) ==
  /\ Remaining(t)
  /\ ~tick[t].blocked
  /\ tick' = [tick EXCEPT ![t].pc = "running"]
  /\ runs' = [runs EXCEPT ![Claimed(t)][tick[t].index] = @ + 1]
  /\ UNCHANGED <<plan, clock, holder, checked, row, result, since, excused>>

(* The result is written when the target ends, with whatever exception.       *)
EndTarget(t, status) ==
  /\ tick[t].pc = "running"
  /\ result' = [result EXCEPT ![Claimed(t)][tick[t].index] = status]
  /\ tick' = [tick EXCEPT ![t].pc = "targets", ![t].index = @ + 1,
                          ![t].blocked = (status = "failed")]
  /\ UNCHANGED <<plan, clock, holder, checked, row, history>>

\* Mutant: only the target right after the failed one is blocked.
BlockNext(t) ==
  /\ Remaining(t)
  /\ tick[t].blocked
  /\ result' = [result EXCEPT ![Claimed(t)][tick[t].index] = "blocked"]
  /\ tick' = [tick EXCEPT ![t].index = @ + 1, ![t].blocked = FALSE]
  /\ UNCHANGED <<plan, clock, holder, checked, row, history>>

BlockTarget(t) ==
  /\ Remaining(t)
  /\ tick[t].blocked
  /\ result' = [result EXCEPT ![Claimed(t)][tick[t].index] = "blocked"]
  /\ tick' = [tick EXCEPT ![t].index = @ + 1]
  /\ UNCHANGED <<plan, clock, holder, checked, row, history>>

Finish(t) ==
  LET failed == \E i \in 1..Works(t).targets : result[Claimed(t)][i] = "failed" IN
  /\ tick[t].pc = "targets"
  /\ tick[t].index > Works(t).targets
  /\ row' = [row EXCEPT ![Claimed(t)].status = IF failed THEN "failed" ELSE "success"]
  /\ MoveOn(t)
  /\ UNCHANGED <<plan, clock, checked, result, history>>

\* Mutant: the lock outlives its holder.
DieLocked(t) ==
  /\ tick[t].pc # "idle"
  /\ tick' = [tick EXCEPT ![t] = Idle]
  /\ UNCHANGED <<plan, clock, holder, checked, row, result, history>>

(* The process dies, or an error of the state database ends the tick; the     *)
(* rows stay as they are and the lock is free.                                *)
Die(t) ==
  /\ tick[t].pc # "idle"
  /\ tick' = [tick EXCEPT ![t] = Idle]
  /\ holder' = IF holder = t THEN None ELSE holder
  /\ excused' = IF tick[t].pc = "claim"
                  THEN [excused EXCEPT ![tick[t].spec] = Larger(@, tick[t].at)]
                  ELSE excused
  /\ UNCHANGED <<plan, clock, checked, row, result, runs, since>>

Next ==
  \/ PassMinute
  \/ \E t \in Tick :
       \/ ReadClock(t) \/ Acquire(t) \/ FindBusy(t) \/ Check(t)
       \/ Claim(t) \/ FindDuplicate(t) \/ FindRunning(t)
       \/ StartTarget(t) \/ BlockTarget(t) \/ Finish(t) \/ Die(t)
       \/ \E status \in {"success", "failed"} : EndTarget(t, status)

Spec == Init /\ [][Next]_vars

-----------------------------------------------------------------------------
Memory == [pc : {"idle", "lock", "check", "claim", "targets", "running"}, current : Minute,
           spec : Schedule, at : Minute, index : 1..(MaxTargets + 1), blocked : BOOLEAN]

\* Every variable has its type; the lock is held by exactly the tick that is past it, and no check is in the future.
TypeOK ==
  /\ plan \in Plans /\ clock \in Minute /\ holder \in Tick \cup {None}
  /\ checked \in [Schedule -> 0..clock]
  /\ row \in [Occurrence -> Row]
  /\ result \in [Occurrence -> [Target -> {"none", "success", "failed", "blocked"}]]
  /\ tick \in [Tick -> Memory]
  /\ runs \in [Occurrence -> [Target -> Nat]]
  /\ since \in [Schedule -> 0..clock] /\ excused \in [Schedule -> 0..clock]
  /\ \A t \in Tick : tick[t].pc \notin {"idle", "lock"} <=> holder = t

Executing(t) == tick[t].pc \in {"targets", "running"}

\* No target is run twice for one occurrence, whatever overlaps, dies, or checks again with an older clock (_claim_occurrence).
RunsOnce == \A o \in Occurrence, i \in Target : runs[o][i] <= 1

\* The row of an occurrence whose targets a living tick is running is the one row of its definition that is marked as running: nobody times it out beneath the tick, and no other occurrence of the schedule runs beside it (_claim_occurrence under the lock of tick_schedules).
LiveRowRuns ==
  \A t \in Tick : Executing(t) =>
    /\ RunningRows(tick[t].spec) = {tick[t].at}
    /\ \A u \in Tick \ {t} : ~Executing(u)

\* A row tells how its targets ended: success when all succeeded; failed when one failed, all before it succeeded, and all after it were blocked and never run (_run_targets_sequentially).
RowTellsTargets ==
  \A o \in Occurrence :
    LET targets == 1..plan[o[1]].targets
        failed == {i \in targets : result[o][i] = "failed"}
    IN
    /\ row[o].status = "success" => \A i \in targets : result[o][i] = "success" /\ runs[o][i] = 1
    /\ row[o].status = "failed" => failed # {}
    /\ \A i \in failed : \A j \in targets :
         /\ j < i => result[o][j] = "success"
         /\ j > i => runs[o][j] = 0 /\ result[o][j] \in {"none", "blocked"}

\* Under catch_up_once a minute that fell due since the first check, and that a check has passed, has been claimed, or a later one has in its stead, or a tick is about to; unless it was let go by a death between check and claim, a running row, or the window (_due_occurrence).
CaughtUp ==
  \A s \in Schedule : plan[s].misfire = "catch_up_once" /\ plan[s].enabled =>
    \A m \in plan[s].due : m >= since[s] /\ m <= checked[s] /\ since[s] # Never =>
      \/ m <= excused[s]
      \/ \E n \in Minute : n >= m /\ row[<<s, n>>].status # "none"
      \/ \E t \in Tick : tick[t].pc = "claim" /\ tick[t].spec = s /\ tick[t].at >= m

\* A row that was closed stays closed, and a row is closed as timed out only when it is as old as the timeout and no living tick runs it (_claim_occurrence).
RowsEndOnce ==
  [][\A o \in Occurrence : row[o] # row'[o] =>
       /\ row[o].status \in {"none", "running"}
       /\ row'[o].status = "timed_out" => /\ clock - row[o].started >= plan[o[1]].timeout
                                          /\ ~\E t \in Tick : Executing(t) /\ Claimed(t) = o]_vars
=============================================================================
