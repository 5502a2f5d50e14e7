--------------------------- MODULE SchedulerProofs ---------------------------
(* Proofs about Scheduler for every number of ticks, schedules, targets and    *)
(* minutes, and every directory of definitions.                                *)
EXTENDS Scheduler, TLAPS

(* What a tick remembers is of the past, and it runs targets that exist.       *)
Remembered ==
  \A t \in Tick :
    /\ tick[t].current <= clock /\ tick[t].at <= clock
    /\ tick[t].pc = "running" => tick[t].index <= plan[tick[t].spec].targets

TypeInv == TypeOK /\ Remembered

Past(m) == m.pc \notin {"idle", "lock"}
Recent(m) ==
  /\ m.current <= clock /\ m.at <= clock
  /\ m.pc = "running" => m.index <= plan[m.spec].targets

(* A schedule has targets that exist.                                          *)
LEMMA PlanTypes ==
  ASSUME TypeOK, NEW s \in Schedule
  PROVE  plan[s].targets \in Nat /\ plan[s].targets <= MaxTargets
  <1>1. plan[s] \in Definition
    BY SchedulerAssumption DEF TypeOK
  <1>2. plan[s].targets \in 1..MaxTargets
    BY <1>1 DEF Definition, Target
  <1> QED BY <1>2, SchedulerAssumption

LEMMA MemoryTypes ==
  ASSUME TypeInv, NEW t \in Tick
  PROVE  /\ tick[t].pc \in {"idle", "lock", "check", "claim", "targets", "running"}
         /\ tick[t].current \in Minute /\ tick[t].at \in Minute /\ tick[t].spec \in Schedule
         /\ tick[t].index \in 1..(MaxTargets + 1) /\ tick[t].blocked \in BOOLEAN
         /\ tick[t].current <= clock /\ tick[t].at <= clock
         /\ clock \in Nat /\ Claimed(t) \in Occurrence
  <1>1. tick[t] \in Memory
    BY DEF TypeInv, TypeOK
  <1> QED BY <1>1 DEF TypeInv, TypeOK, Remembered, Memory, Claimed, Occurrence, Minute

(* A step of one tick keeps the types of the memories and of the lock.         *)
LEMMA OneTick ==
  ASSUME TypeInv, NEW t \in Tick, NEW m \in Memory,
         tick' = [tick EXCEPT ![t] = m], UNCHANGED <<plan, clock>>, Recent(m),
         \/ holder' = holder /\ (Past(m) <=> Past(tick[t]))
         \/ holder' = t /\ holder = None /\ Past(m)
         \/ holder' = None /\ Past(tick[t]) /\ ~Past(m)
  PROVE  /\ tick' \in [Tick -> Memory] /\ holder' \in Tick \cup {None}
         /\ \A u \in Tick : tick'[u].pc \notin {"idle", "lock"} <=> holder' = u
         /\ Remembered'
  <1>1. tick \in [Tick -> Memory] /\ holder \in Tick \cup {None}
    BY DEF TypeInv, TypeOK
  <1>2. tick'[t] = m /\ \A u \in Tick \ {t} : tick'[u] = tick[u]
    BY <1>1
  <1>3. \A u \in Tick : Past(tick[u]) <=> holder = u
    BY DEF TypeInv, TypeOK, Past
  <1>4. \A u \in Tick : Past(tick'[u]) <=> holder' = u
    BY <1>2, <1>3, SchedulerAssumption
  <1>5. Remembered'
    BY <1>2 DEF TypeInv, Remembered, Recent
  <1> QED BY <1>1, <1>4, <1>5 DEF Past

LEMMA MoveOnType ==
  ASSUME TypeInv, NEW t \in Tick, MoveOn(t), Past(tick[t]), UNCHANGED <<plan, clock>>
  PROVE  /\ tick' \in [Tick -> Memory] /\ holder' \in Tick \cup {None}
         /\ \A u \in Tick : tick'[u].pc \notin {"idle", "lock"} <=> holder' = u
         /\ Remembered'
  <1> USE SchedulerAssumption, MemoryTypes
  <1>0. clock \in Minute /\ 1 \in Minute /\ 1 \in Schedule /\ 1 \in 1..(MaxTargets + 1)
    BY DEF TypeInv, TypeOK, Minute, Schedule
  <1>1. CASE tick[t].spec < Count
    <2> DEFINE m == [Idle EXCEPT !.pc = "check", !.current = tick[t].current, !.spec = tick[t].spec + 1]
    <2>1. tick[t].spec + 1 \in Schedule
      BY <1>1 DEF Schedule
    <2>2. /\ m.pc = "check" /\ m.current = tick[t].current /\ m.spec = tick[t].spec + 1
          /\ m.at = 1 /\ m.index = 1 /\ m.blocked = FALSE
      BY DEF Idle
    <2>6. m \in Memory
      BY <1>0, <2>1, MemoryTypes DEF Idle, Memory
    <2>4. tick[t].current \in Minute /\ tick[t].current <= clock /\ 1 <= clock
      BY <1>0 DEF Minute
    <2>5. m \in Memory /\ Recent(m) /\ Past(m)
      <3> HIDE DEF m
      <3> QED BY <2>2, <2>4, <2>6 DEF Recent, Past
    <2>3. tick' = [tick EXCEPT ![t] = m] /\ holder' = holder
      BY <1>1 DEF MoveOn, Schedule
    <2> HIDE DEF m
    <2> QED BY <2>5, <2>3, OneTick
  <1>2. CASE tick[t].spec = Count
    <2>1. Idle \in Memory /\ Recent(Idle) /\ ~Past(Idle)
      BY <1>0 DEF Idle, Memory, Recent, Past, Minute
    <2>2. tick' = [tick EXCEPT ![t] = Idle] /\ holder' = None
      BY <1>2 DEF MoveOn, Schedule
    <2> QED BY <2>1, <2>2, OneTick
  <1> QED BY <1>1, <1>2 DEF MoveOn

LEMMA TypeInit == Init => TypeInv
  <1> SUFFICES ASSUME Init PROVE TypeInv
    OBVIOUS
  <1>1. 1 \in Minute /\ 1 \in Schedule /\ Idle \in Memory
    BY SchedulerAssumption DEF Idle, Memory, Minute, Schedule
  <1>2. tick \in [Tick -> Memory] /\ \A t \in Tick : tick[t] = Idle
    BY <1>1 DEF Init
  <1>3. Remembered
    <2>1. ASSUME NEW t \in Tick
          PROVE  tick[t].current <= clock /\ tick[t].at <= clock /\ tick[t].pc # "running"
      <3>1. Idle.current = 1 /\ Idle.at = 1 /\ Idle.pc = "idle"
        BY DEF Idle
      <3>2. tick[t] = Idle /\ clock = 1
        BY <1>2 DEF Init
      <3>3. tick[t].current = clock /\ tick[t].at = clock /\ clock \in Nat
        BY <3>1, <3>2
      <3> QED BY <3>1, <3>2, <3>3
    <2> QED BY <2>1 DEF Remembered
  <1>4. row \in [Occurrence -> Row]
    BY DEF Init, Unclaimed, Row
  <1>5. \A t \in Tick : tick[t].pc \notin {"idle", "lock"} <=> holder = t
    BY <1>2, SchedulerAssumption DEF Init, Idle
  <1> QED
    BY <1>1, <1>2, <1>3, <1>4, <1>5, SchedulerAssumption DEF Init, TypeInv, TypeOK, Never

LEMMA TypeStep == TypeInv /\ [Next]_vars => TypeInv'
  <1> SUFFICES ASSUME TypeInv, [Next]_vars PROVE TypeInv'
    OBVIOUS
  <1> USE SchedulerAssumption DEF TypeInv
  <1>0. /\ tick \in [Tick -> Memory] /\ clock \in Minute /\ clock \in Nat
        /\ 1 \in Minute /\ 1 \in Schedule /\ Idle \in Memory
        /\ Recent(Idle) /\ ~Past(Idle)
    BY DEF TypeOK, Minute, Schedule, Idle, Memory, Recent, Past
  <1>1. CASE PassMinute
    <2>1. clock' \in Minute /\ clock <= clock'
      BY <1>0, <1>1 DEF PassMinute, Minute
    <2>2. Remembered'
      BY <1>0, <1>1, <2>1, MemoryTypes DEF PassMinute, Remembered, Minute
    <2> QED BY <1>0, <1>1, <2>1, <2>2 DEF PassMinute, history, TypeOK, Minute
  <1>2. ASSUME NEW t \in Tick, ReadClock(t) PROVE TypeInv'
    <2> DEFINE m == [tick[t] EXCEPT !.pc = "lock", !.current = clock]
    <2>3. tick[t] \in Memory /\ tick[t].at <= clock
      BY <1>0, MemoryTypes
    <2>1. m \in Memory /\ Recent(m) /\ ~Past(m) /\ ~Past(tick[t])
      <3>1. m \in Memory /\ m.pc = "lock" /\ m.current = clock /\ m.at = tick[t].at
        BY <1>0, <2>3 DEF Memory
      <3> HIDE DEF m
      <3> QED BY <1>0, <1>2, <2>3, <3>1 DEF ReadClock, Recent, Past
    <2>2. tick' = [tick EXCEPT ![t] = m]
      BY <1>0, <1>2 DEF ReadClock, Memory
    <2> HIDE DEF m
    <2> QED BY <1>2, <2>1, <2>2, OneTick DEF ReadClock, history, TypeOK
  <1>3. ASSUME NEW t \in Tick, Acquire(t) PROVE TypeInv'
    <2> DEFINE m == [tick[t] EXCEPT !.pc = "check"]
    <2>1. m \in Memory /\ Recent(m) /\ Past(m)
      BY <1>0, <1>3, MemoryTypes DEF Acquire, Memory, Recent, Past
    <2>2. tick' = [tick EXCEPT ![t] = m]
      BY <1>0, <1>3 DEF Acquire, Memory
    <2> HIDE DEF m
    <2> QED BY <1>3, <2>1, <2>2, OneTick DEF Acquire, history, TypeOK
  <1>4. ASSUME NEW t \in Tick, FindBusy(t) PROVE TypeInv'
    BY <1>0, <1>4, OneTick DEF FindBusy, history, TypeOK, Past
  <1>5. ASSUME NEW t \in Tick, Check(t) PROVE TypeInv'
    <2>1. /\ tick[t].pc = "check" /\ Past(tick[t]) /\ UNCHANGED <<plan, clock, row, result, runs>>
      BY <1>5 DEF Check, Past
    <2>2. checked' \in [Schedule -> 0..clock]
      BY <1>0, <1>5, MemoryTypes DEF Check, TypeOK, Minute
    <2>3. since' \in [Schedule -> 0..clock]
      BY <1>0, <1>5, MemoryTypes DEF Check, TypeOK, Minute, Never
    <2>4. excused' \in [Schedule -> 0..clock]
      BY <1>0, <1>5, MemoryTypes DEF Check, TypeOK, Minute, Never, Larger
    <2>5. CASE MoveOn(t)
      BY <2>1, <2>2, <2>3, <2>4, <2>5, MoveOnType DEF TypeOK
    <2>6. CASE ~MoveOn(t)
      <3>1. PICK at \in DueMinutes(tick[t].spec, tick[t].current) :
              tick' = [tick EXCEPT ![t].pc = "claim", ![t].at = at] /\ holder' = holder
        BY <1>5, <2>6 DEF Check
      <3>2. plan[tick[t].spec] \in Definition /\ checked[tick[t].spec] \in Nat
        BY <1>0, MemoryTypes DEF TypeOK, Minute
      <3>3. plan[tick[t].spec].due \subseteq Minute
        BY <3>2 DEF Definition
      <3>4. at \in Minute /\ at <= clock
        BY <1>0, <3>1, <3>2, <3>3, MemoryTypes DEF DueMinutes, Minute, Larger, Never
      <3> DEFINE m == [tick[t] EXCEPT !.pc = "claim", !.at = at]
      <3>5. m \in Memory /\ Recent(m) /\ Past(m)
        BY <1>0, <3>4, MemoryTypes DEF Memory, Recent, Past
      <3>6. tick' = [tick EXCEPT ![t] = m]
        BY <1>0, <3>1 DEF Memory
      <3> HIDE DEF m
      <3> QED BY <2>1, <2>2, <2>3, <2>4, <3>1, <3>5, <3>6, OneTick DEF TypeOK
    <2> QED BY <2>5, <2>6
  <1>6. ASSUME NEW t \in Tick, Claim(t) PROVE TypeInv'
    <2> DEFINE fresh == [status |-> "running", started |-> clock]
    <2>4. fresh \in Row /\ row \in [Occurrence -> Row] /\ Claimed(t) \in Occurrence
      BY <1>0, MemoryTypes DEF TypeOK, Row
    <2>5. \A o \in Occurrence : [row[o] EXCEPT !.status = "timed_out"] \in Row
      BY <2>4 DEF Row
    <2>1. row' \in [Occurrence -> Row]
      <3>1. CASE row' = [row EXCEPT ![Claimed(t)] = fresh]
        BY <2>4, <3>1
      <3>2. CASE \E m \in RunningRows(tick[t].spec) :
                   row' = [row EXCEPT ![<<tick[t].spec, m>>].status = "timed_out", ![Claimed(t)] = fresh]
        <4>1. PICK m : m \in RunningRows(tick[t].spec) /\
                       row' = [row EXCEPT ![<<tick[t].spec, m>>].status = "timed_out", ![Claimed(t)] = fresh]
          BY <3>2
        <4>2. PICK late : late = [row EXCEPT ![<<tick[t].spec, m>>].status = "timed_out"]
          OBVIOUS
        <4>3. late \in [Occurrence -> Row]
          BY <2>4, <2>5, <4>2
        <4>4. row' = [late EXCEPT ![Claimed(t)] = fresh]
          BY <4>1, <4>2
        <4> QED BY <2>4, <4>3, <4>4
      <3> QED BY <1>6, <3>1, <3>2 DEF Claim
    <2> DEFINE m == [tick[t] EXCEPT !.pc = "targets"]
    <2>2. m \in Memory /\ Recent(m) /\ Past(m) /\ Past(tick[t])
      BY <1>0, <1>6, MemoryTypes DEF Claim, Memory, Recent, Past
    <2>3. tick' = [tick EXCEPT ![t] = m]
      BY <1>0, <1>6 DEF Claim, Memory
    <2> HIDE DEF m
    <2> QED BY <1>6, <2>1, <2>2, <2>3, OneTick DEF Claim, history, TypeOK
  <1>7. ASSUME NEW t \in Tick, FindDuplicate(t) PROVE TypeInv'
    BY <1>7, MoveOnType DEF FindDuplicate, history, TypeOK, Past
  <1>8. ASSUME NEW t \in Tick, FindRunning(t) PROVE TypeInv'
    <2>1. excused' \in [Schedule -> 0..clock]
      BY <1>0, <1>8, MemoryTypes DEF FindRunning, TypeOK, Minute, Larger
    <2> QED BY <1>8, <2>1, MoveOnType DEF FindRunning, TypeOK, Past
  <1>9. ASSUME NEW t \in Tick, StartTarget(t) PROVE TypeInv'
    <2>1. runs' \in [Occurrence -> [Target -> Nat]]
      <3>1. runs[Claimed(t)] \in [Target -> Nat]
        BY MemoryTypes DEF TypeOK
      <3>2. [runs[Claimed(t)] EXCEPT ![tick[t].index] = @ + 1] \in [Target -> Nat]
        BY <3>1, \A n \in Nat : n + 1 \in Nat
      <3> QED BY <1>9, <3>2, MemoryTypes DEF StartTarget, TypeOK
    <2> DEFINE m == [tick[t] EXCEPT !.pc = "running"]
    <2>2. m \in Memory /\ Recent(m) /\ Past(m) /\ Past(tick[t])
      BY <1>0, <1>9, MemoryTypes DEF StartTarget, Remaining, Works, Memory, Recent, Past
    <2>3. tick' = [tick EXCEPT ![t] = m]
      BY <1>0, <1>9 DEF StartTarget, Memory
    <2> HIDE DEF m
    <2> QED BY <1>9, <2>1, <2>2, <2>3, OneTick DEF StartTarget, TypeOK
  <1>10. ASSUME NEW t \in Tick, BlockTarget(t) PROVE TypeInv'
    <2>1. result' \in [Occurrence -> [Target -> {"none", "success", "failed", "blocked"}]]
      BY <1>10, MemoryTypes DEF BlockTarget, TypeOK
    <2>2. tick[t].index + 1 \in 1..(MaxTargets + 1)
      BY <1>10, PlanTypes, MemoryTypes DEF BlockTarget, Remaining, Works
    <2> DEFINE m == [tick[t] EXCEPT !.index = @ + 1]
    <2>3. m \in Memory /\ Recent(m) /\ Past(m) /\ Past(tick[t])
      BY <1>0, <1>10, <2>2, MemoryTypes DEF BlockTarget, Remaining, Memory, Recent, Past
    <2>4. tick' = [tick EXCEPT ![t] = m]
      BY <1>0, <1>10 DEF BlockTarget, Memory
    <2> HIDE DEF m
    <2> QED BY <1>10, <2>1, <2>3, <2>4, OneTick DEF BlockTarget, history, TypeOK
  <1>11. ASSUME NEW t \in Tick, NEW status \in {"success", "failed"}, EndTarget(t, status) PROVE TypeInv'
    <2>1. result' \in [Occurrence -> [Target -> {"none", "success", "failed", "blocked"}]]
      BY <1>11, MemoryTypes DEF EndTarget, TypeOK
    <2>2. tick[t].index + 1 \in 1..(MaxTargets + 1)
      BY <1>11, PlanTypes, MemoryTypes DEF EndTarget, Remembered
    <2> DEFINE m == [tick[t] EXCEPT !.pc = "targets", !.index = @ + 1, !.blocked = (status = "failed")]
    <2>3. m \in Memory /\ Recent(m) /\ Past(m) /\ Past(tick[t])
      BY <1>0, <1>11, <2>2, MemoryTypes DEF EndTarget, Memory, Recent, Past
    <2>4. tick' = [tick EXCEPT ![t] = m]
      BY <1>0, <1>11 DEF EndTarget, Memory
    <2> HIDE DEF m
    <2> QED BY <1>11, <2>1, <2>3, <2>4, OneTick DEF EndTarget, history, TypeOK
  <1>12. ASSUME NEW t \in Tick, Finish(t) PROVE TypeInv'
    <2>1. row' \in [Occurrence -> Row]
      <3>1. \A o \in Occurrence, status \in {"failed", "success"} :
              [row[o] EXCEPT !.status = status] \in Row
        BY DEF TypeOK, Row
      <3> QED BY <1>12, <3>1 DEF Finish, TypeOK
    <2> QED BY <1>12, <2>1, MoveOnType DEF Finish, history, TypeOK, Past
  <1>13. ASSUME NEW t \in Tick, Die(t) PROVE TypeInv'
    <2>1. excused' \in [Schedule -> 0..clock]
      BY <1>0, <1>13, MemoryTypes DEF Die, TypeOK, Minute, Larger
    <2>2. \/ holder' = holder /\ ~Past(tick[t])
          \/ holder' = None /\ Past(tick[t])
      BY <1>13 DEF Die, TypeOK, Past
    <2> QED BY <1>0, <1>13, <2>1, <2>2, OneTick DEF Die, TypeOK
  <1>14. CASE UNCHANGED vars
    BY <1>14 DEF vars, TypeOK, Remembered
  <1> QED
    BY <1>1, <1>2, <1>3, <1>4, <1>5, <1>6, <1>7, <1>8, <1>9, <1>10, <1>11, <1>12, <1>13, <1>14 DEF Next

\* The types, and that the lock is held by exactly the tick that is past it, whatever overlaps and dies (tick_schedules, _acquire_scheduler_lock).
THEOREM SchedulerTypeCorrect == Spec => []TypeOK
  <1>1. TypeInv => TypeOK
    BY DEF TypeInv
  <1> QED BY <1>1, TypeInit, TypeStep, PTL DEF Spec

-----------------------------------------------------------------------------
(* A schedule never has two rows marked as running, dead ticks included: the   *)
(* newest row that _claim_occurrence looks at is the only one.                 *)
OneRunningRow == \A s \in Schedule : \A m, n \in RunningRows(s) : m = n

(* The inductive strengthening of RunsOnce and LiveRowRuns: the row of a       *)
(* living tick is marked as running, no target of an unclaimed occurrence was  *)
(* run, and no target that is still before its tick.                           *)
ClaimInv ==
  /\ OneRunningRow
  /\ \A t \in Tick : Executing(t) => row[Claimed(t)].status = "running"
  /\ \A o \in Occurrence, i \in Target : row[o].status = "none" => runs[o][i] = 0
  /\ \A t \in Tick, i \in Target : tick[t].pc = "targets" /\ i >= tick[t].index => runs[Claimed(t)][i] = 0
  /\ \A t \in Tick, i \in Target : tick[t].pc = "running" /\ i > tick[t].index => runs[Claimed(t)][i] = 0
  /\ RunsOnce

(* The tick that is past the lock is alone there.                              *)
LEMMA Alone ==
  ASSUME TypeInv, NEW t \in Tick, Past(tick[t])
  PROVE  \A u \in Tick \ {t} : ~Executing(u)
  BY DEF TypeInv, TypeOK, Past, Executing

(* A step that touches neither rows nor runs, after which every tick that runs *)
(* targets is where it was.                                                    *)
LEMMA QuietStep ==
  ASSUME ClaimInv, UNCHANGED <<row, runs>>,
         \A t \in Tick : Executing(t)' => tick'[t] = tick[t]
  PROVE  ClaimInv'
  <1>1. OneRunningRow' /\ RunsOnce'
    BY DEF ClaimInv, OneRunningRow, RunningRows, RunsOnce
  <1>2. ASSUME NEW t \in Tick, Executing(t)'
        PROVE  tick'[t] = tick[t] /\ Executing(t) /\ Claimed(t)' = Claimed(t)
    BY <1>2 DEF Executing, Claimed
  <1> QED BY <1>1, <1>2 DEF ClaimInv, Executing

LEMMA MoveOnLeaves ==
  ASSUME TypeInv, NEW t \in Tick, MoveOn(t)
  PROVE  tick'[t].pc \in {"check", "idle"} /\ \A u \in Tick \ {t} : tick'[u] = tick[u]
  <1> DEFINE next == [Idle EXCEPT !.pc = "check", !.current = tick[t].current, !.spec = tick[t].spec + 1]
  <1>1. next.pc = "check" /\ Idle.pc = "idle"
    BY DEF Idle
  <1>2. tick' = [tick EXCEPT ![t] = next] \/ tick' = [tick EXCEPT ![t] = Idle]
    BY DEF MoveOn
  <1> HIDE DEF next
  <1> QED BY <1>1, <1>2 DEF TypeInv, TypeOK

LEMMA ClaimInit == Init => ClaimInv
  <1> SUFFICES ASSUME Init PROVE ClaimInv
    OBVIOUS
  <1>1. \A o \in Occurrence : row[o].status = "none"
    BY DEF Init, Unclaimed
  <1>2. \A t \in Tick : tick[t].pc = "idle"
    BY DEF Init, Idle
  <1>3. \A o \in Occurrence, i \in Target : runs[o][i] = 0
    BY DEF Init
  <1>4. OneRunningRow
    BY <1>1 DEF OneRunningRow, RunningRows, Occurrence
  <1> QED BY <1>1, <1>2, <1>3, <1>4 DEF ClaimInv, RunsOnce, Executing

(* The claim closes the running row there may be, and opens its own.           *)
LEMMA ClaimKeeps ==
  ASSUME TypeInv, ClaimInv, NEW t \in Tick, Claim(t)
  PROVE  ClaimInv'
  <1> DEFINE s == tick[t].spec
             at == tick[t].at
             fresh == [status |-> "running", started |-> clock]
  <1>1. s \in Schedule /\ at \in Minute /\ Claimed(t) = <<s, at>> /\ Claimed(t) \in Occurrence
    BY MemoryTypes DEF Claimed
  <1>2. tick \in [Tick -> Memory] /\ row \in [Occurrence -> Row]
    BY DEF TypeInv, TypeOK
  <1>3. /\ Past(tick[t]) /\ row[<<s, at>>].status = "none" /\ UNCHANGED runs
        /\ \A u \in Tick \ {t} : tick'[u] = tick[u]
        /\ tick'[t].pc = "targets" /\ Claimed(t)' = Claimed(t)
    BY <1>1, <1>2 DEF Claim, Past, history, Claimed, Memory
  <1>4. /\ row'[<<s, at>>].status = "running"
        /\ \A o \in Occurrence : row'[o].status = "none" => row[o].status = "none"
        /\ \A n \in Schedule, k \in Minute : row'[<<n, k>>].status = "running" =>
             \/ n = s /\ k = at
             \/ n # s /\ row[<<n, k>>].status = "running"
    <2>1. CASE RunningRows(s) = {} /\ row' = [row EXCEPT ![<<s, at>>] = fresh]
      <3>1. row'[<<s, at>>] = fresh /\ \A o \in Occurrence : o # <<s, at>> => row'[o] = row[o]
        BY <1>1, <1>2, <2>1
      <3>2. \A k \in Minute : row[<<s, k>>].status # "running"
        BY <2>1 DEF RunningRows
      <3> QED BY <1>1, <3>1, <3>2 DEF Occurrence
    <2>2. ASSUME NEW m \in RunningRows(s),
                 row' = [row EXCEPT ![<<s, m>>].status = "timed_out", ![<<s, at>>] = fresh]
          PROVE  /\ row'[<<s, at>>].status = "running"
                 /\ \A o \in Occurrence : row'[o].status = "none" => row[o].status = "none"
                 /\ \A n \in Schedule, k \in Minute : row'[<<n, k>>].status = "running" =>
                      \/ n = s /\ k = at
                      \/ n # s /\ row[<<n, k>>].status = "running"
      <3>1. m \in Minute /\ m # at /\ <<s, m>> \in Occurrence /\ row[<<s, m>>].status = "running"
        BY <1>1, <1>3 DEF RunningRows, Occurrence
      <3>2. /\ row'[<<s, at>>] = fresh
            /\ row'[<<s, m>>].status = "timed_out"
            /\ \A o \in Occurrence : o # <<s, at>> /\ o # <<s, m>> => row'[o] = row[o]
        BY <1>1, <1>2, <2>2, <3>1 DEF Row
      <3>3. \A k \in Minute : row[<<s, k>>].status = "running" => k = m
        BY <1>1 DEF ClaimInv, OneRunningRow, RunningRows
      <3> QED BY <1>1, <3>1, <3>2, <3>3 DEF Occurrence
    <2> QED BY <1>1, <2>1, <2>2 DEF Claim
  <1>5. OneRunningRow'
    BY <1>4 DEF OneRunningRow, RunningRows, ClaimInv
  <1>6. \A u \in Tick : Executing(u)' => u = t
    BY <1>3, Alone DEF Executing
  <1>7. \A i \in Target : runs'[Claimed(t)'][i] = 0
    BY <1>1, <1>3 DEF ClaimInv
  <1>8. row'[Claimed(t)'].status = "running"
    BY <1>1, <1>3, <1>4
  <1> QED BY <1>3, <1>4, <1>5, <1>6, <1>7, <1>8 DEF ClaimInv, RunsOnce, Executing

LEMMA StartKeeps ==
  ASSUME TypeInv, ClaimInv, NEW t \in Tick, StartTarget(t)
  PROVE  ClaimInv'
  <1> DEFINE o == Claimed(t)
             k == tick[t].index
  <1>1. tick[t].pc = "targets" /\ Past(tick[t]) /\ Executing(t) /\ k <= plan[tick[t].spec].targets
    BY DEF StartTarget, Remaining, Works, Past, Executing
  <1>2. k \in Target /\ o \in Occurrence /\ row[o].status = "running" /\ runs[o][k] = 0
    <2>1. tick[t].spec \in Schedule /\ k \in 1..(MaxTargets + 1) /\ o \in Occurrence
      BY MemoryTypes
    <2>2. k \in Target /\ k >= k
      BY <1>1, <2>1, PlanTypes, SchedulerAssumption DEF Target, TypeInv
    <2> QED BY <1>1, <2>1, <2>2 DEF ClaimInv
  <1>3. /\ \A u \in Tick \ {t} : tick'[u] = tick[u]
        /\ tick'[t].pc = "running" /\ tick'[t].index = k /\ Claimed(t)' = o /\ UNCHANGED row
    BY DEF StartTarget, TypeInv, TypeOK, Memory, Claimed
  <1>4. /\ runs'[o][k] = 1
        /\ \A p \in Occurrence, i \in Target : p # o \/ i # k => runs'[p][i] = runs[p][i]
    BY <1>2 DEF StartTarget, TypeInv, TypeOK
  <1>5. \A u \in Tick : Executing(u)' => u = t
    BY <1>1, <1>3, Alone DEF Executing
  <1>6. OneRunningRow'
    BY <1>3 DEF ClaimInv, OneRunningRow, RunningRows
  <1>7. RunsOnce'
    BY <1>4 DEF ClaimInv, RunsOnce
  <1>8. \A p \in Occurrence, i \in Target : row'[p].status = "none" => runs'[p][i] = 0
    BY <1>2, <1>3, <1>4 DEF ClaimInv
  <1>9. \A i \in Target : i > k => runs'[o][i] = 0
    BY <1>1, <1>2, <1>4, MemoryTypes DEF ClaimInv, Target
  <1> QED BY <1>2, <1>3, <1>5, <1>6, <1>7, <1>8, <1>9 DEF ClaimInv, Executing

(* The tick goes to its next target.                                           *)
LEMMA AdvanceKeeps ==
  ASSUME TypeInv, ClaimInv, NEW t \in Tick, Executing(t), UNCHANGED <<row, runs>>,
         \A u \in Tick \ {t} : tick'[u] = tick[u],
         tick'[t].pc = "targets", tick'[t].index = tick[t].index + 1, Claimed(t)' = Claimed(t)
  PROVE  ClaimInv'
  <1>1. \A u \in Tick : Executing(u)' => u = t
    BY Alone DEF Executing, Past
  <1>2. OneRunningRow' /\ RunsOnce'
    BY DEF ClaimInv, OneRunningRow, RunningRows, RunsOnce
  <1>3. tick[t].index \in Nat /\ tick[t].pc \in {"targets", "running"}
    BY MemoryTypes DEF Executing
  <1>4. \A i \in Target : i >= tick[t].index + 1 => runs[Claimed(t)][i] = 0
    BY <1>3 DEF ClaimInv, Target
  <1> QED BY <1>1, <1>2, <1>4 DEF ClaimInv, Executing

LEMMA FinishKeeps ==
  ASSUME TypeInv, ClaimInv, NEW t \in Tick, Finish(t)
  PROVE  ClaimInv'
  <1>1. Past(tick[t]) /\ MoveOn(t) /\ UNCHANGED runs
    BY DEF Finish, Past, history
  <1>2. \A u \in Tick : ~Executing(u)'
    BY <1>1, Alone, MoveOnLeaves DEF Executing
  <1>3. Claimed(t) \in Occurrence
    BY MemoryTypes
  <1>4. \A o \in Occurrence : row'[o].status \in {"none", "running"} => row'[o] = row[o]
    BY <1>3 DEF Finish, TypeInv, TypeOK, Row
  <1>5. OneRunningRow'
    BY <1>4 DEF ClaimInv, OneRunningRow, RunningRows, Occurrence
  <1> QED BY <1>1, <1>2, <1>4, <1>5 DEF ClaimInv, RunsOnce, Executing

LEMMA ClaimStep == TypeInv /\ ClaimInv /\ [Next]_vars => ClaimInv'
  <1> SUFFICES ASSUME TypeInv, ClaimInv, [Next]_vars PROVE ClaimInv'
    OBVIOUS
  <1>0. tick \in [Tick -> Memory]
    BY DEF TypeInv, TypeOK
  <1>1. CASE PassMinute
    BY <1>1, QuietStep DEF PassMinute, history
  <1>2. ASSUME NEW t \in Tick, ReadClock(t) PROVE ClaimInv'
    BY <1>0, <1>2, QuietStep DEF ReadClock, history, Executing, Memory
  <1>3. ASSUME NEW t \in Tick, Acquire(t) PROVE ClaimInv'
    BY <1>0, <1>3, QuietStep DEF Acquire, history, Executing, Memory
  <1>4. ASSUME NEW t \in Tick, FindBusy(t) PROVE ClaimInv'
    BY <1>0, <1>4, QuietStep DEF FindBusy, history, Executing, Idle
  <1>5. ASSUME NEW t \in Tick, Check(t) PROVE ClaimInv'
    <2>1. CASE MoveOn(t)
      BY <1>5, <2>1, MoveOnLeaves, QuietStep DEF Check, Executing
    <2>2. CASE ~MoveOn(t)
      <3>1. tick'[t].pc = "claim" /\ \A u \in Tick \ {t} : tick'[u] = tick[u]
        BY <1>0, <1>5, <2>2 DEF Check, Memory
      <3> QED BY <1>5, <3>1, QuietStep DEF Check, Executing
    <2> QED BY <2>1, <2>2
  <1>6. ASSUME NEW t \in Tick, Claim(t) PROVE ClaimInv'
    BY <1>6, ClaimKeeps
  <1>7. ASSUME NEW t \in Tick, FindDuplicate(t) PROVE ClaimInv'
    BY <1>7, MoveOnLeaves, QuietStep DEF FindDuplicate, history, Executing
  <1>8. ASSUME NEW t \in Tick, FindRunning(t) PROVE ClaimInv'
    BY <1>8, MoveOnLeaves, QuietStep DEF FindRunning, Executing
  <1>9. ASSUME NEW t \in Tick, StartTarget(t) PROVE ClaimInv'
    BY <1>9, StartKeeps
  <1>10. ASSUME NEW t \in Tick, BlockTarget(t) PROVE ClaimInv'
    BY <1>0, <1>10, AdvanceKeeps DEF BlockTarget, Remaining, history, Executing, Claimed, Memory
  <1>11. ASSUME NEW t \in Tick, NEW status \in {"success", "failed"}, EndTarget(t, status) PROVE ClaimInv'
    BY <1>0, <1>11, AdvanceKeeps DEF EndTarget, history, Executing, Claimed, Memory
  <1>12. ASSUME NEW t \in Tick, Finish(t) PROVE ClaimInv'
    BY <1>12, FinishKeeps
  <1>13. ASSUME NEW t \in Tick, Die(t) PROVE ClaimInv'
    BY <1>0, <1>13, QuietStep DEF Die, Executing, Idle
  <1>14. CASE UNCHANGED vars
    BY <1>14, QuietStep DEF vars
  <1> QED
    BY <1>1, <1>2, <1>3, <1>4, <1>5, <1>6, <1>7, <1>8, <1>9, <1>10, <1>11, <1>12, <1>13, <1>14 DEF Next

LEMMA LiveRow == TypeInv /\ ClaimInv => LiveRowRuns
  <1> SUFFICES ASSUME TypeInv, ClaimInv, NEW t \in Tick, Executing(t)
               PROVE  RunningRows(tick[t].spec) = {tick[t].at} /\ \A u \in Tick \ {t} : ~Executing(u)
    BY DEF LiveRowRuns
  <1>1. tick[t].at \in RunningRows(tick[t].spec) /\ tick[t].spec \in Schedule
    BY MemoryTypes DEF ClaimInv, RunningRows, Claimed
  <1>2. \A m \in RunningRows(tick[t].spec) : m = tick[t].at
    BY <1>1 DEF ClaimInv, OneRunningRow
  <1>3. Past(tick[t])
    BY DEF Executing, Past
  <1> QED BY <1>1, <1>2, <1>3, Alone

\* No target is run twice for one occurrence, for any number of ticks, deaths and minutes (_claim_occurrence).
THEOREM TargetsRunOnce == Spec => []RunsOnce
  <1>1. TypeInv /\ ClaimInv => RunsOnce
    BY DEF ClaimInv
  <1> QED BY <1>1, TypeInit, TypeStep, ClaimInit, ClaimStep, PTL DEF Spec

\* A living tick's row is the one running row of its schedule and is never timed out beneath it (_claim_occurrence under the lock).
THEOREM LiveRowIsRunning == Spec => []LiveRowRuns
  BY TypeInit, TypeStep, ClaimInit, ClaimStep, LiveRow, PTL DEF Spec

-----------------------------------------------------------------------------
(* What the rows tell of the targets, that a row is closed once, and that no   *)
(* due minute is forgotten.                                                    *)

TargetsOf(o) == 1..plan[o[1]].targets

(* What is left by the targets of one occurrence, its tick alive or dead: a    *)
(* target that did not run has no result of its own, and a failed one ends a   *)
(* series of successes and is followed by targets that never run.              *)
Series(o) ==
  /\ \A i \in Target : runs[o][i] = 0 => result[o][i] \in {"none", "blocked"}
  /\ row[o].status = "none" => \A i \in Target : result[o][i] = "none"
  /\ \A i, j \in TargetsOf(o) : result[o][i] = "failed" =>
       /\ j < i => result[o][j] = "success"
       /\ j > i => runs[o][j] = 0
  /\ row[o].status = "success" => \A i \in TargetsOf(o) : result[o][i] = "success"
  /\ row[o].status = "failed" => \E i \in TargetsOf(o) : result[o][i] = "failed"

(* What a tick knows of the targets before and after its index.                *)
Progress(t) ==
  LET o == Claimed(t) IN
  /\ ~Executing(t) => tick[t].index = 1 /\ ~tick[t].blocked
  /\ Executing(t) =>
       /\ \A j \in Target : j >= tick[t].index => result[o][j] = "none"
       /\ ~tick[t].blocked => \A j \in Target : j < tick[t].index => result[o][j] = "success"
       /\ tick[t].blocked => \E j \in TargetsOf(o) : result[o][j] = "failed"
  /\ tick[t].pc = "running" => ~tick[t].blocked /\ runs[o][tick[t].index] = 1

RowInv ==
  /\ \A o \in Occurrence : Series(o)
  /\ \A t \in Tick : Progress(t)

(* A schedule that was checked once has a first check.                         *)
CheckInv == CaughtUp /\ \A s \in Schedule : checked[s] = Never <=> since[s] = Never

-----------------------------------------------------------------------------
(* What the steps have in common *)

LEMMA TargetsExist ==
  ASSUME TypeInv, NEW o \in Occurrence
  PROVE  TargetsOf(o) \subseteq Target /\ plan[o[1]].targets \in Nat
  <1>1. o[1] \in Schedule
    BY DEF Occurrence
  <1> QED BY <1>1, PlanTypes, SchedulerAssumption DEF TypeInv, TargetsOf, Target

LEMMA MoveOnResets ==
  ASSUME TypeInv, NEW t \in Tick, MoveOn(t)
  PROVE  tick'[t].index = 1 /\ ~tick'[t].blocked
  <1> DEFINE next == [Idle EXCEPT !.pc = "check", !.current = tick[t].current, !.spec = tick[t].spec + 1]
  <1>1. next.index = 1 /\ ~next.blocked /\ Idle.index = 1 /\ ~Idle.blocked
    BY DEF Idle
  <1>2. tick' = [tick EXCEPT ![t] = next] \/ tick' = [tick EXCEPT ![t] = Idle]
    BY DEF MoveOn
  <1> HIDE DEF next
  <1> QED BY <1>1, <1>2 DEF TypeInv, TypeOK

(* A step that touches no row, result or run, and after which a tick runs      *)
(* targets only where it did.                                                  *)
LEMMA QuietRow ==
  ASSUME TypeInv, RowInv, UNCHANGED <<plan, row, result, runs>>,
         \A t \in Tick : \/ tick'[t] = tick[t]
                         \/ ~Executing(t)' /\ tick'[t].index = 1 /\ ~tick'[t].blocked
  PROVE  RowInv'
  <1>1. \A o \in Occurrence : Series(o)'
    BY DEF RowInv, Series, TargetsOf
  <1>2. ASSUME NEW t \in Tick PROVE Progress(t)'
    <2>1. CASE tick'[t] = tick[t]
      BY <2>1 DEF RowInv, Progress, Executing, Claimed, TargetsOf
    <2>2. CASE ~Executing(t)' /\ tick'[t].index = 1 /\ ~tick'[t].blocked
      BY <2>2 DEF Progress, Executing
    <2> QED BY <2>1, <2>2
  <1> QED BY <1>1, <1>2 DEF RowInv

(* It is enough to look at the tick that takes the step: no other runs targets. *)
LEMMA OthersProgress ==
  ASSUME TypeInv, RowInv, NEW t \in Tick, Past(tick[t]),
         \A u \in Tick \ {t} : tick'[u] = tick[u],
         \A o \in Occurrence : Series(o)', Progress(t)'
  PROVE  RowInv'
  <1>1. ASSUME NEW u \in Tick \ {t} PROVE Progress(u)'
    BY Alone DEF RowInv, Progress, Executing
  <1> QED BY <1>1 DEF RowInv

-----------------------------------------------------------------------------
LEMMA RowInit == TypeInv /\ Init => RowInv /\ CheckInv
  <1> SUFFICES ASSUME TypeInv, Init PROVE RowInv /\ CheckInv
    OBVIOUS
  <1>1. \A o \in Occurrence : row[o].status = "none" /\ result[o] = [i \in Target |-> "none"]
    BY DEF Init, Unclaimed
  <1>2. \A o \in Occurrence : Series(o)
    BY <1>1, TargetsExist DEF Series
  <1>3. \A t \in Tick : Progress(t)
    BY DEF Init, Idle, Progress, Executing
  <1>4. CheckInv
    BY DEF Init, CheckInv, CaughtUp
  <1> QED BY <1>2, <1>3, <1>4 DEF RowInv

(* A claim makes rows running or timed out, and nothing else.                  *)
LEMMA ClaimedRows ==
  ASSUME TypeInv, NEW t \in Tick, Claim(t)
  PROVE  /\ row'[Claimed(t)].status = "running"
         /\ \A o \in Occurrence : row'[o] # row[o] => row'[o].status \in {"running", "timed_out"}
         /\ \A o \in Occurrence : row'[o].status = "timed_out" /\ row'[o] # row[o] =>
              /\ row[o].status = "running"
              /\ clock - row[o].started >= plan[o[1]].timeout
         /\ \A o \in Occurrence : row'[o] # row[o] => row[o].status \in {"none", "running"}
  <1> DEFINE s == tick[t].spec
             fresh == [status |-> "running", started |-> clock]
  <1>1. Claimed(t) \in Occurrence /\ s \in Schedule /\ row \in [Occurrence -> Row]
    BY MemoryTypes DEF TypeInv, TypeOK
  <1>2. row[Claimed(t)].status = "none"
    BY DEF Claim
  <1>3. CASE row' = [row EXCEPT ![Claimed(t)] = fresh]
    BY <1>1, <1>2, <1>3
  <1>4. ASSUME NEW m \in RunningRows(s), ~StillYoung(s, m),
               row' = [row EXCEPT ![<<s, m>>].status = "timed_out", ![Claimed(t)] = fresh]
        PROVE  /\ row'[Claimed(t)].status = "running"
               /\ \A o \in Occurrence : row'[o] # row[o] => row'[o].status \in {"running", "timed_out"}
               /\ \A o \in Occurrence : row'[o].status = "timed_out" /\ row'[o] # row[o] =>
                    /\ row[o].status = "running"
                    /\ clock - row[o].started >= plan[o[1]].timeout
               /\ \A o \in Occurrence : row'[o] # row[o] => row[o].status \in {"none", "running"}
    <2>1. <<s, m>> \in Occurrence /\ row[<<s, m>>].status = "running" /\ <<s, m>> # Claimed(t)
      BY <1>1, <1>2 DEF RunningRows, Occurrence
    <2>2. /\ row'[Claimed(t)] = fresh
          /\ row'[<<s, m>>].status = "timed_out"
          /\ \A o \in Occurrence : o # Claimed(t) /\ o # <<s, m>> => row'[o] = row[o]
      BY <1>1, <1>4, <2>1 DEF Row
    <2>3. plan[s].timeout \in Nat
      <3>1. plan[s] \in Definition
        BY <1>1, SchedulerAssumption DEF TypeInv, TypeOK
      <3> QED BY <3>1 DEF Definition
    <2>4. clock \in Nat /\ row[<<s, m>>].started \in Nat
      BY <1>1, <2>1 DEF TypeInv, TypeOK, Minute, Row, Never
    <2>5. clock - row[<<s, m>>].started >= plan[s].timeout
      BY <1>4, <2>3, <2>4 DEF StillYoung
    <2> QED BY <1>2, <2>1, <2>2, <2>5
  <1> QED BY <1>3, <1>4 DEF Claim

LEMMA ClaimRow ==
  ASSUME TypeInv, RowInv, NEW t \in Tick, Claim(t)
  PROVE  RowInv'
  <1>1. Claimed(t) \in Occurrence /\ Past(tick[t]) /\ ~Executing(t) /\ row[Claimed(t)].status = "none"
    BY MemoryTypes DEF Claim, Past, Executing
  <1>2. /\ \A u \in Tick \ {t} : tick'[u] = tick[u]
        /\ tick'[t].pc = "targets" /\ Claimed(t)' = Claimed(t)
        /\ tick'[t].index = tick[t].index /\ tick'[t].blocked = tick[t].blocked
        /\ UNCHANGED <<plan, result, runs>>
    BY DEF TypeInv, TypeOK, Claim, Memory, Claimed, history
  <1>3. \A o \in Occurrence : row'[o] = row[o] \/ row'[o].status \in {"running", "timed_out"}
    BY ClaimedRows
  <1>4. \A o \in Occurrence : Series(o)'
    BY <1>2, <1>3 DEF RowInv, Series, TargetsOf
  <1>5. Progress(t)'
    BY <1>1, <1>2 DEF RowInv, Progress, Executing, Series, Target
  <1> QED BY <1>1, <1>2, <1>4, <1>5, OthersProgress

LEMMA StartRow ==
  ASSUME TypeInv, ClaimInv, RowInv, NEW t \in Tick, StartTarget(t)
  PROVE  RowInv'
  <1> DEFINE c == Claimed(t)
             k == tick[t].index
  <1>1. /\ tick[t].pc = "targets" /\ Past(tick[t]) /\ Executing(t) /\ ~tick[t].blocked
        /\ k <= plan[tick[t].spec].targets
    BY DEF StartTarget, Remaining, Works, Past, Executing
  <1>2. k \in Target /\ c \in Occurrence /\ runs[c][k] = 0
    <2>1. tick[t].spec \in Schedule /\ k \in 1..(MaxTargets + 1) /\ c \in Occurrence
      BY MemoryTypes
    <2>2. k \in Target /\ k >= k
      BY <1>1, <2>1, PlanTypes, SchedulerAssumption DEF Target, TypeInv
    <2> QED BY <1>1, <2>1, <2>2 DEF ClaimInv
  <1>3. /\ \A u \in Tick \ {t} : tick'[u] = tick[u]
        /\ tick'[t].pc = "running" /\ tick'[t].index = k /\ Claimed(t)' = c
        /\ ~tick'[t].blocked /\ UNCHANGED <<plan, row, result>>
    BY <1>1 DEF StartTarget, TypeInv, TypeOK, Memory, Claimed
  <1>4. /\ runs'[c][k] = 1
        /\ \A o \in Occurrence, i \in Target : o # c \/ i # k => runs'[o][i] = runs[o][i]
    BY <1>2 DEF StartTarget, TypeInv, TypeOK
  <1>5. \A i \in Target : result[c][i] # "failed"
    BY <1>1, <1>2 DEF RowInv, Progress, Target
  <1>6. ASSUME NEW o \in Occurrence PROVE Series(o)'
    <2>1. TargetsOf(o) \subseteq Target
      BY TargetsExist
    <2>2. CASE o = c
      BY <1>3, <1>4, <1>5, <2>1, <2>2 DEF RowInv, Series, TargetsOf
    <2>3. CASE o # c
      <3>1. \A i \in Target : runs'[o][i] = runs[o][i]
        BY <1>4, <2>3
      <3> QED BY <1>3, <2>1, <3>1 DEF RowInv, Series, TargetsOf
    <2> QED BY <2>2, <2>3
  <1>7. Progress(t)'
    BY <1>1, <1>3, <1>4 DEF RowInv, Progress, Executing
  <1> QED BY <1>1, <1>3, <1>6, <1>7, OthersProgress

(* A target gets its result, and its tick goes on.                             *)
LEMMA ResultRow ==
  ASSUME TypeInv, ClaimInv, RowInv, NEW t \in Tick, BlockTarget(t) \/ \E x \in {"success", "failed"} : EndTarget(t, x)
  PROVE  RowInv'
  <1> DEFINE c == Claimed(t)
             k == tick[t].index
             targets == plan[tick[t].spec].targets
  <1>1. Past(tick[t]) /\ Executing(t) /\ k <= targets
    BY DEF BlockTarget, Remaining, EndTarget, Works, Past, Executing, TypeInv, Remembered
  <1>2. /\ k \in Target /\ c \in Occurrence /\ k \in Nat
        /\ TargetsOf(c) \subseteq Target /\ k \in TargetsOf(c)
    <2>1. tick[t].spec \in Schedule /\ k \in 1..(MaxTargets + 1) /\ c \in Occurrence
      BY MemoryTypes
    <2>2. TargetsOf(c) = 1..targets /\ targets \in Nat /\ TargetsOf(c) \subseteq Target
      BY <2>1, TargetsExist DEF TargetsOf, Claimed
    <2> QED BY <1>1, <2>1, <2>2
  <1>3. row[c].status = "running"
    BY <1>1 DEF ClaimInv
  <1>4. /\ \A u \in Tick \ {t} : tick'[u] = tick[u]
        /\ tick'[t].pc = "targets" /\ tick'[t].index = k + 1 /\ Claimed(t)' = c
        /\ UNCHANGED <<plan, row, runs>>
    BY DEF BlockTarget, Remaining, EndTarget, TypeInv, TypeOK, Memory, Claimed, history
  <1>5. /\ \A o \in Occurrence, i \in Target : o # c \/ i # k => result'[o][i] = result[o][i]
        /\ \/ /\ tick[t].blocked /\ tick'[t].blocked /\ result'[c][k] = "blocked"
           \/ /\ ~tick[t].blocked /\ runs[c][k] = 1 /\ \A i \in Target : i > k => runs[c][i] = 0
              /\ \/ ~tick'[t].blocked /\ result'[c][k] = "success"
                 \/ tick'[t].blocked /\ result'[c][k] = "failed"
    <2>1. CASE BlockTarget(t)
      BY <1>2, <2>1 DEF BlockTarget, TypeInv, TypeOK, Memory
    <2>2. ASSUME NEW x \in {"success", "failed"}, EndTarget(t, x)
          PROVE  /\ \A o \in Occurrence, i \in Target : o # c \/ i # k => result'[o][i] = result[o][i]
                 /\ result'[c][k] = x /\ tick'[t].blocked = (x = "failed") /\ tick[t].pc = "running"
      BY <1>2, <2>2 DEF EndTarget, TypeInv, TypeOK, Memory
    <2>3. tick[t].pc = "running" => ~tick[t].blocked /\ runs[c][k] = 1 /\ \A i \in Target : i > k => runs[c][i] = 0
      BY DEF RowInv, Progress, ClaimInv
    <2> QED BY <2>1, <2>2, <2>3
  <1>6. /\ \A j \in Target : j >= k => result[c][j] = "none"
        /\ ~tick[t].blocked => \A j \in Target : j < k => result[c][j] = "success"
        /\ tick[t].blocked => \E j \in TargetsOf(c) : result[c][j] = "failed"
    BY <1>1 DEF RowInv, Progress
  <1>7. ASSUME NEW o \in Occurrence PROVE Series(o)'
    <2>0. TargetsOf(o) \subseteq Target /\ TargetsOf(o)' = TargetsOf(o) /\ Series(o)
      BY <1>4, TargetsExist DEF TargetsOf, RowInv
    <2>1. CASE o # c
      <3>1. \A i \in Target : result'[o][i] = result[o][i]
        BY <1>5, <2>1
      <3> QED BY <1>4, <2>0, <3>1 DEF Series
    <2>2. CASE o = c /\ tick[t].blocked
      <3>1. \A i \in Target : i # k => result'[c][i] = result[c][i]
        BY <1>2, <1>5
      <3>2. result'[c][k] = "blocked" /\ result[c][k] = "none"
        BY <1>2, <1>5, <1>6, <2>2
      <3> QED BY <1>2, <1>3, <1>4, <2>0, <2>2, <3>1, <3>2 DEF Series
    <2>3. CASE o = c /\ ~tick[t].blocked
      <3>1. /\ \A i \in Target : i < k => result'[c][i] = "success"
            /\ \A i \in Target : i > k => result'[c][i] = "none" /\ runs'[c][i] = 0
            /\ runs'[c][k] = 1
        BY <1>2, <1>4, <1>5, <1>6, <2>3 DEF Target
      <3>2. \A i \in Target : i < k \/ i = k \/ i > k
        BY <1>2 DEF Target
      <3>3. \A i \in Target : runs'[c][i] = 0 => result'[c][i] \in {"none", "blocked"}
        <4>1. \A i \in Target : i # k => result'[c][i] = result[c][i]
          BY <1>2, <1>5
        <4> QED BY <1>4, <2>0, <2>3, <3>1, <4>1 DEF Series
      <3>4. \A i, j \in TargetsOf(c) : result'[c][i] = "failed" =>
              /\ j < i => result'[c][j] = "success"
              /\ j > i => runs'[c][j] = 0
        BY <1>2, <3>1, <3>2
      <3> QED BY <1>3, <1>4, <2>0, <2>3, <3>3, <3>4 DEF Series
    <2> QED BY <2>1, <2>2, <2>3
  <1>8. Progress(t)'
    <2>1. Executing(t)' /\ tick'[t].pc # "running"
      BY <1>4 DEF Executing
    <2>2. \A j \in Target : j >= k + 1 => result'[c][j] = "none"
      BY <1>2, <1>5, <1>6 DEF Target
    <2>3. ~tick'[t].blocked => \A j \in Target : j < k + 1 => result'[c][j] = "success"
      <3>1. \A j \in Target : j < k + 1 => j < k \/ j = k
        BY <1>2 DEF Target
      <3>2. \A j \in Target : j < k => j # k
        BY <1>2 DEF Target
      <3> QED BY <1>2, <1>5, <1>6, <3>1, <3>2
    <2>4. tick'[t].blocked => \E j \in TargetsOf(c) : result'[c][j] = "failed"
      <3>1. result[c][k] = "none"
        BY <1>2, <1>6
      <3> QED BY <1>2, <1>5, <1>6, <3>1
    <2> QED BY <1>4, <2>1, <2>2, <2>3, <2>4 DEF Progress, TargetsOf
  <1> QED BY <1>1, <1>4, <1>7, <1>8, OthersProgress

LEMMA FinishRow ==
  ASSUME TypeInv, ClaimInv, RowInv, NEW t \in Tick, Finish(t)
  PROVE  RowInv'
  <1> DEFINE c == Claimed(t)
  <1>1. /\ Past(tick[t]) /\ Executing(t) /\ MoveOn(t) /\ UNCHANGED <<plan, result, runs>>
        /\ tick[t].index > plan[tick[t].spec].targets
    BY DEF Finish, Past, Executing, history, Works
  <1>2. /\ c \in Occurrence /\ TargetsOf(c) = 1..plan[tick[t].spec].targets
        /\ TargetsOf(c) \subseteq Target /\ plan[tick[t].spec].targets \in Nat /\ tick[t].index \in Nat
    <2>1. c \in Occurrence /\ c[1] = tick[t].spec /\ tick[t].index \in Nat
      BY MemoryTypes DEF Claimed
    <2> QED BY <2>1, TargetsExist DEF TargetsOf
  <1>3. /\ \A o \in Occurrence : o # c => row'[o] = row[o]
        /\ row'[c].status = IF \E i \in TargetsOf(c) : result[c][i] = "failed" THEN "failed" ELSE "success"
    BY <1>2 DEF Finish, Works, TypeInv, TypeOK, Row
  <1>4. ~tick[t].blocked => \A i \in TargetsOf(c) : result[c][i] = "success"
    BY <1>1, <1>2 DEF RowInv, Progress
  <1>5. tick[t].blocked => \E i \in TargetsOf(c) : result[c][i] = "failed"
    BY <1>1 DEF RowInv, Progress
  <1>6. ASSUME NEW o \in Occurrence PROVE Series(o)'
    <2>1. CASE o # c
      BY <1>1, <1>3, <2>1 DEF RowInv, Series, TargetsOf
    <2>2. CASE o = c
      BY <1>1, <1>3, <1>4, <1>5, <2>2 DEF RowInv, Series, TargetsOf
    <2> QED BY <2>1, <2>2
  <1>7. Progress(t)' /\ \A u \in Tick \ {t} : tick'[u] = tick[u]
    BY <1>1, MoveOnLeaves, MoveOnResets DEF Progress, Executing
  <1> QED BY <1>1, <1>6, <1>7, OthersProgress

LEMMA RowStep == TypeInv /\ ClaimInv /\ RowInv /\ [Next]_vars => RowInv'
  <1> SUFFICES ASSUME TypeInv, ClaimInv, RowInv, [Next]_vars PROVE RowInv'
    OBVIOUS
  <1>0. tick \in [Tick -> Memory]
    BY DEF TypeInv, TypeOK
  <1>a. \A t \in Tick : ~Executing(t) => tick[t].index = 1 /\ ~tick[t].blocked
    BY DEF RowInv, Progress
  <1>1. CASE PassMinute
    BY <1>1, QuietRow DEF PassMinute, history
  <1>2. ASSUME NEW t \in Tick, ReadClock(t) PROVE RowInv'
    BY <1>0, <1>a, <1>2, QuietRow DEF ReadClock, history, Executing, Memory
  <1>3. ASSUME NEW t \in Tick, Acquire(t) PROVE RowInv'
    BY <1>0, <1>a, <1>3, QuietRow DEF Acquire, history, Executing, Memory
  <1>4. ASSUME NEW t \in Tick, FindBusy(t) PROVE RowInv'
    BY <1>0, <1>4, QuietRow DEF FindBusy, history, Executing, Idle
  <1>5. ASSUME NEW t \in Tick, Check(t) PROVE RowInv'
    <2>1. CASE MoveOn(t)
      BY <1>5, <2>1, MoveOnLeaves, MoveOnResets, QuietRow DEF Check, Executing
    <2>2. CASE ~MoveOn(t)
      <3>1. /\ tick[t].pc = "check" /\ tick'[t].pc = "claim" /\ \A u \in Tick \ {t} : tick'[u] = tick[u]
            /\ tick'[t].index = tick[t].index /\ tick'[t].blocked = tick[t].blocked
        BY <1>0, <1>5, <2>2 DEF Check, Memory
      <3> QED BY <1>a, <1>5, <3>1, QuietRow DEF Check, Executing
    <2> QED BY <2>1, <2>2
  <1>6. ASSUME NEW t \in Tick, Claim(t) PROVE RowInv'
    BY <1>6, ClaimRow
  <1>7. ASSUME NEW t \in Tick, FindDuplicate(t) PROVE RowInv'
    BY <1>7, MoveOnLeaves, MoveOnResets, QuietRow DEF FindDuplicate, history, Executing
  <1>8. ASSUME NEW t \in Tick, FindRunning(t) PROVE RowInv'
    BY <1>8, MoveOnLeaves, MoveOnResets, QuietRow DEF FindRunning, Executing
  <1>9. ASSUME NEW t \in Tick, StartTarget(t) PROVE RowInv'
    BY <1>9, StartRow
  <1>10. ASSUME NEW t \in Tick, BlockTarget(t) \/ \E x \in {"success", "failed"} : EndTarget(t, x)
         PROVE  RowInv'
    BY <1>10, ResultRow
  <1>11. ASSUME NEW t \in Tick, Finish(t) PROVE RowInv'
    BY <1>11, FinishRow
  <1>12. ASSUME NEW t \in Tick, Die(t) PROVE RowInv'
    BY <1>0, <1>12, QuietRow DEF Die, Executing, Idle
  <1>13. CASE UNCHANGED vars
    BY <1>13, QuietRow DEF vars, history
  <1> QED
    BY <1>1, <1>2, <1>3, <1>4, <1>5, <1>6, <1>7, <1>8, <1>9, <1>10, <1>11, <1>12, <1>13 DEF Next

\* What the row of an occurrence says of its targets is what became of them, the rows of dead ticks included (_run_targets_sequentially).
THEOREM RowsTellTargets == Spec => []RowTellsTargets
  <1>1. ASSUME TypeInv, ClaimInv, RowInv, NEW o \in Occurrence
        PROVE  LET failed == {i \in TargetsOf(o) : result[o][i] = "failed"}
               IN  /\ row[o].status = "success" =>
                        \A i \in TargetsOf(o) : result[o][i] = "success" /\ runs[o][i] = 1
                   /\ row[o].status = "failed" => failed # {}
                   /\ \A i \in failed : \A j \in TargetsOf(o) :
                        /\ j < i => result[o][j] = "success"
                        /\ j > i => runs[o][j] = 0 /\ result[o][j] \in {"none", "blocked"}
    <2>1. Series(o) /\ TargetsOf(o) \subseteq Target
      BY <1>1, TargetsExist DEF RowInv
    <2>2. \A i \in Target : runs[o][i] = 0 \/ runs[o][i] = 1
      <3>1. \A i \in Target : runs[o][i] \in Nat /\ runs[o][i] <= 1
        BY <1>1 DEF TypeInv, TypeOK, ClaimInv, RunsOnce
      <3> QED BY <3>1
    <2> QED BY <2>1, <2>2 DEF Series
  <1>2. TypeInv /\ ClaimInv /\ RowInv => RowTellsTargets
    BY <1>1 DEF RowTellsTargets, TargetsOf
  <1> QED BY <1>2, TypeInit, TypeStep, ClaimInit, ClaimStep, RowInit, RowStep, PTL DEF Spec

-----------------------------------------------------------------------------
\* A closed row stays closed, and only an old row that no living tick runs is closed as timed out (_claim_occurrence).
THEOREM RowsAreClosedOnce == Spec => RowsEndOnce
  <1> DEFINE Ends ==
        \A o \in Occurrence : row[o] # row'[o] =>
          /\ row[o].status \in {"none", "running"}
          /\ row'[o].status = "timed_out" => /\ clock - row[o].started >= plan[o[1]].timeout
                                             /\ ~\E t \in Tick : Executing(t) /\ Claimed(t) = o
  <1>1. ASSUME TypeInv, ClaimInv, Next PROVE Ends
    <2>1. CASE row' = row
      BY <2>1
    <2>2. ASSUME NEW t \in Tick, Claim(t) PROVE Ends
      <3>1. \A u \in Tick : ~Executing(u)
        BY <1>1, <2>2, Alone DEF Claim, Past, Executing
      <3> QED BY <1>1, <2>2, <3>1, ClaimedRows
    <2>3. ASSUME NEW t \in Tick, Finish(t) PROVE Ends
      <3>1. Claimed(t) \in Occurrence /\ row[Claimed(t)].status = "running"
        BY <1>1, <2>3, MemoryTypes DEF Finish, ClaimInv, Executing
      <3>2. /\ \A o \in Occurrence : o # Claimed(t) => row'[o] = row[o]
            /\ row'[Claimed(t)].status \in {"failed", "success"}
        BY <1>1, <2>3, <3>1 DEF Finish, TypeInv, TypeOK, Row
      <3> QED BY <3>1, <3>2
    <2> QED
      BY <1>1, <2>1, <2>2, <2>3
      DEF Next, PassMinute, ReadClock, Acquire, FindBusy, Check, FindDuplicate, FindRunning,
          StartTarget, BlockTarget, EndTarget, Die
  <1>2. TypeInv /\ ClaimInv /\ [Next]_vars => [Ends]_vars
    BY <1>1
  <1>3. [][Ends]_vars => RowsEndOnce
    BY DEF RowsEndOnce
  <1> QED BY <1>2, <1>3, TypeInit, TypeStep, ClaimInit, ClaimStep, PTL DEF Spec

-----------------------------------------------------------------------------
(* No due minute is forgotten *)

(* The minute was let go, an occurrence stands for it, or a tick is about to   *)
(* claim one.                                                                  *)
Covered(s, m) ==
  \/ m <= excused[s]
  \/ \E n \in Minute : n >= m /\ row[<<s, n>>].status # "none"
  \/ \E t \in Tick : tick[t].pc = "claim" /\ tick[t].spec = s /\ tick[t].at >= m

LEMMA CaughtUpIs ==
  CaughtUp <=> \A s \in Schedule : plan[s].misfire = "catch_up_once" /\ plan[s].enabled =>
                 \A m \in plan[s].due :
                   m >= since[s] /\ m <= checked[s] /\ since[s] # Never => Covered(s, m)
  BY DEF CaughtUp, Covered

(* A step that notes no check leaves every minute covered, if it lets go what  *)
(* the tick was about to claim or if a row stands for it.                      *)
LEMMA KeepsCovered ==
  ASSUME TypeInv, CheckInv, NEW t \in Tick, UNCHANGED <<plan, checked, since>>,
         \A u \in Tick \ {t} : tick'[u] = tick[u],
         \A s \in Schedule : excused[s] <= excused'[s],
         excused' \in [Schedule -> Int],
         \A o \in Occurrence : row[o].status # "none" => row'[o].status # "none",
         tick[t].pc = "claim" => \/ tick'[t] = tick[t]
                                \/ row'[Claimed(t)].status # "none"
                                \/ tick[t].at <= excused'[tick[t].spec]
  PROVE  CheckInv'
  <1>1. ASSUME NEW s \in Schedule, NEW m \in Minute, Covered(s, m) PROVE Covered(s, m)'
    <2>1. CASE m <= excused[s]
      <3>1. excused[s] \in Nat /\ excused'[s] \in Int /\ m \in Nat
        BY DEF TypeInv, TypeOK, Minute
      <3> QED BY <2>1, <3>1 DEF Covered
    <2>2. ASSUME NEW n \in Minute, n >= m, row[<<s, n>>].status # "none" PROVE Covered(s, m)'
      BY <2>2 DEF Covered, Occurrence
    <2>3. ASSUME NEW u \in Tick, tick[u].pc = "claim", tick[u].spec = s, tick[u].at >= m
          PROVE  Covered(s, m)'
      <3>1. CASE tick'[u] = tick[u]
        BY <2>3, <3>1 DEF Covered
      <3>2. CASE u = t /\ row'[Claimed(t)].status # "none"
        BY <2>3, <3>2, MemoryTypes DEF Covered, Claimed
      <3>3. CASE u = t /\ tick[t].at <= excused'[s]
        <4>1. tick[t].at \in Nat /\ excused'[s] \in Int /\ m \in Nat
          BY MemoryTypes DEF Minute
        <4> QED BY <2>3, <3>3, <4>1 DEF Covered
      <3>4. CASE u # t
        BY <3>1, <3>4
      <3>5. CASE u = t
        BY <2>3, <3>1, <3>2, <3>3, <3>5
      <3> QED BY <3>4, <3>5
    <2>4. \/ m <= excused[s]
          \/ \E n \in Minute : n >= m /\ row[<<s, n>>].status # "none"
          \/ \E u \in Tick : tick[u].pc = "claim" /\ tick[u].spec = s /\ tick[u].at >= m
      BY <1>1 DEF Covered
    <2>5. CASE \E n \in Minute : n >= m /\ row[<<s, n>>].status # "none"
      BY <2>2, <2>5
    <2>6. CASE \E u \in Tick : tick[u].pc = "claim" /\ tick[u].spec = s /\ tick[u].at >= m
      BY <2>3, <2>6
    <2> QED BY <2>1, <2>4, <2>5, <2>6
  <1>2. \A s \in Schedule : plan[s].due \subseteq Minute
    <2>1. \A s \in Schedule : plan[s] \in Definition
      BY SchedulerAssumption DEF TypeInv, TypeOK
    <2> QED BY <2>1 DEF Definition
  <1>3. ASSUME NEW s \in Schedule, plan[s].misfire = "catch_up_once", plan[s].enabled,
               NEW m \in plan[s].due, m >= since[s], m <= checked[s], since[s] # Never
        PROVE  Covered(s, m)'
    <2>1. Covered(s, m)
      BY <1>3, CaughtUpIs DEF CheckInv
    <2>2. m \in Minute
      BY <1>2
    <2> QED BY <1>1, <2>1, <2>2
  <1>4. CaughtUp'
    BY <1>3 DEF CaughtUp, Covered
  <1> QED BY <1>4 DEF CheckInv

(* The check that a tick notes is followed by its claim.                       *)
LEMMA CheckKeeps ==
  ASSUME TypeInv, CheckInv, NEW t \in Tick, Check(t)
  PROVE  CheckInv'
  <1>c. PICK c \in Schedule, current \in Minute : c = tick[t].spec /\ current = tick[t].current
    BY MemoryTypes
  <1>1. c \in Schedule /\ current \in Minute /\ current \in Nat /\ 1 <= current
    BY DEF Minute
  <1>2. /\ checked \in [Schedule -> 0..clock] /\ since \in [Schedule -> 0..clock]
        /\ excused \in [Schedule -> 0..clock] /\ clock \in Nat /\ Window \in Nat
        /\ \A s \in Schedule : plan[s].due \subseteq Minute
    <2>1. \A s \in Schedule : plan[s] \in Definition
      BY SchedulerAssumption DEF TypeInv, TypeOK
    <2> QED BY <2>1, SchedulerAssumption DEF TypeInv, TypeOK, Definition, Minute
  <1>3. /\ UNCHANGED <<plan, row>> /\ tick[t].pc = "check"
        /\ \A s \in Schedule : s # c => checked'[s] = checked[s] /\ since'[s] = since[s]
        /\ checked'[c] = current
        /\ since'[c] = IF since[c] = Never THEN current ELSE since[c]
    BY <1>1, <1>2, <1>c DEF Check
  <1>4. \A s \in Schedule : excused[s] \in Nat /\ excused'[s] \in Nat /\ excused[s] <= excused'[s]
    BY <1>1, <1>2, <1>c DEF Check, Larger, Never
  <1>5. \A u \in Tick \ {t} : tick'[u] = tick[u]
    <2>1. CASE MoveOn(t)
      BY <2>1, MoveOnLeaves
    <2>2. CASE ~MoveOn(t)
      BY <2>2 DEF Check, TypeInv, TypeOK, Memory
    <2> QED BY <2>1, <2>2
  <1>6. ASSUME NEW s \in Schedule, NEW m \in Minute, Covered(s, m) PROVE Covered(s, m)'
    <2>1. CASE m <= excused[s]
      <3>1. m \in Nat /\ excused[s] \in Nat /\ excused'[s] \in Nat /\ excused[s] <= excused'[s]
        BY <1>4 DEF Minute
      <3> QED BY <2>1, <3>1 DEF Covered
    <2>2. ASSUME NEW n \in Minute, n >= m, row[<<s, n>>].status # "none" PROVE Covered(s, m)'
      BY <1>3, <2>2 DEF Covered
    <2>3. ASSUME NEW u \in Tick, tick[u].pc = "claim", tick[u].spec = s, tick[u].at >= m
          PROVE  Covered(s, m)'
      <3>1. tick'[u] = tick[u]
        BY <1>3, <1>5, <2>3
      <3> QED BY <2>3, <3>1 DEF Covered
    <2>4. \/ m <= excused[s]
          \/ \E n \in Minute : n >= m /\ row[<<s, n>>].status # "none"
          \/ \E u \in Tick : tick[u].pc = "claim" /\ tick[u].spec = s /\ tick[u].at >= m
      BY <1>6 DEF Covered
    <2> QED BY <2>1, <2>2, <2>3, <2>4
  <1>7. ASSUME plan[c].misfire = "catch_up_once", plan[c].enabled, NEW m \in plan[c].due,
               m >= since'[c], m <= current
        PROVE  Covered(c, m)'
    <2>1. m \in Minute /\ m \in Nat /\ checked[c] \in Nat /\ since[c] \in Nat
      BY <1>1, <1>2 DEF Minute
    <2>2. CASE m \in DueMinutes(c, current)
      <3>1. Works(t).enabled /\ DueMinutes(c, current) # {}
        BY <1>7, <1>c, <2>2 DEF Works
      <3>2. PICK at \in DueMinutes(c, current) :
              /\ \A n \in DueMinutes(c, current) : n <= at
              /\ tick' = [tick EXCEPT ![t].pc = "claim", ![t].at = at]
        BY <1>c, <3>1 DEF Check
      <3>3. at \in Minute /\ m <= at
        BY <1>1, <1>2, <2>2, <3>2 DEF DueMinutes
      <3>4. tick'[t].pc = "claim" /\ tick'[t].spec = c /\ tick'[t].at = at
        BY <1>c, <3>2 DEF TypeInv, TypeOK, Memory
      <3>5. at >= m
        BY <2>1, <3>3 DEF Minute
      <3> QED BY <3>4, <3>5 DEF Covered
    <2>3. CASE m \notin DueMinutes(c, current)
      <3>1. checked[c] # Never
        <4>1. SUFFICES ASSUME checked[c] = Never PROVE FALSE
          OBVIOUS
        <4>2. since[c] = Never
          BY <1>1, <4>1 DEF CheckInv
        <4>3. m = current
          BY <1>1, <1>3, <1>7, <2>1, <4>2
        <4> QED BY <1>1, <1>7, <2>3, <4>1, <4>3 DEF DueMinutes
      <3>2. since[c] # Never /\ since'[c] = since[c]
        BY <1>1, <1>3, <3>1 DEF CheckInv
      <3>3. CASE m <= checked[c]
        <4>1. Covered(c, m)
          BY <1>1, <1>7, <3>2, <3>3, CaughtUpIs DEF CheckInv
        <4> QED BY <1>1, <1>6, <2>1, <4>1
      <3>4. CASE ~(m <= checked[c])
        <4>1. m < Larger(checked[c] + 1, current - Window)
          BY <1>1, <1>2, <1>7, <2>1, <2>3, <3>1 DEF DueMinutes, Larger
        <4>2. checked[c] + 1 <= m /\ m < current - Window
          BY <1>1, <1>2, <2>1, <3>4, <4>1 DEF Larger
        <4>3. excused' = [excused EXCEPT ![c] = Larger(@, current - Window - 1)]
          BY <1>1, <1>2, <1>c, <2>1, <3>1, <4>2 DEF Check
        <4>4. m <= excused'[c]
          BY <1>1, <1>2, <2>1, <4>2, <4>3 DEF Larger
        <4> QED BY <4>4 DEF Covered
      <3> QED BY <3>3, <3>4
    <2> QED BY <2>2, <2>3
  <1>8. ASSUME NEW s \in Schedule, plan[s].misfire = "catch_up_once", plan[s].enabled,
               NEW m \in plan[s].due, m >= since'[s], m <= checked'[s], since'[s] # Never
        PROVE  Covered(s, m)'
    <2>1. CASE s = c
      BY <1>3, <1>7, <1>8, <2>1
    <2>2. CASE s # c
      <3>1. Covered(s, m)
        BY <1>3, <1>8, <2>2, CaughtUpIs DEF CheckInv
      <3> QED BY <1>2, <1>6, <3>1
    <2> QED BY <2>1, <2>2
  <1>9. CaughtUp'
    BY <1>3, <1>8 DEF CaughtUp, Covered
  <1>10. \A s \in Schedule : checked'[s] = Never <=> since'[s] = Never
    BY <1>1, <1>3 DEF CheckInv, Never
  <1> QED BY <1>9, <1>10 DEF CheckInv

LEMMA CheckStep == TypeInv /\ ClaimInv /\ CheckInv /\ [Next]_vars => CheckInv'
  <1> SUFFICES ASSUME TypeInv, ClaimInv, CheckInv, [Next]_vars PROVE CheckInv'
    OBVIOUS
  <1>0. /\ tick \in [Tick -> Memory] /\ row \in [Occurrence -> Row]
        /\ excused \in [Schedule -> 0..clock] /\ clock \in Nat
        /\ \A s \in Schedule : excused[s] <= excused[s]
        /\ excused \in [Schedule -> Int]
    BY DEF TypeInv, TypeOK, Minute
  <1>1. CASE PassMinute \/ UNCHANGED vars
    BY <1>1 DEF PassMinute, vars, history, CheckInv, CaughtUp
  <1>2. ASSUME NEW t \in Tick, ReadClock(t) PROVE CheckInv'
    BY <1>0, <1>2, KeepsCovered DEF ReadClock, history
  <1>3. ASSUME NEW t \in Tick, Acquire(t) PROVE CheckInv'
    BY <1>0, <1>3, KeepsCovered DEF Acquire, history
  <1>4. ASSUME NEW t \in Tick, FindBusy(t) PROVE CheckInv'
    BY <1>0, <1>4, KeepsCovered DEF FindBusy, history
  <1>5. ASSUME NEW t \in Tick, Check(t) PROVE CheckInv'
    BY <1>5, CheckKeeps
  <1>6. ASSUME NEW t \in Tick, Claim(t) PROVE CheckInv'
    <2>1. /\ row'[Claimed(t)].status # "none"
          /\ \A o \in Occurrence : row[o].status # "none" => row'[o].status # "none"
      BY <1>6, ClaimedRows
    <2>2. /\ \A u \in Tick \ {t} : tick'[u] = tick[u]
          /\ UNCHANGED <<plan, checked, since, excused>>
      BY <1>0, <1>6 DEF Claim, history
    <2> QED BY <1>0, <2>1, <2>2, KeepsCovered
  <1>7. ASSUME NEW t \in Tick, FindDuplicate(t) PROVE CheckInv'
    BY <1>0, <1>7, MoveOnLeaves, KeepsCovered DEF FindDuplicate, history
  <1>8. ASSUME NEW t \in Tick, FindRunning(t) \/ Die(t) PROVE CheckInv'
    <2>1. tick[t].spec \in Schedule /\ tick[t].at \in Nat
      BY MemoryTypes DEF Minute
    <2>2. /\ excused' \in [Schedule -> Int] /\ \A s \in Schedule : excused[s] <= excused'[s]
          /\ tick[t].pc = "claim" => tick[t].at <= excused'[tick[t].spec]
      BY <1>0, <1>8, <2>1 DEF FindRunning, Die, Larger
    <2>3. /\ \A u \in Tick \ {t} : tick'[u] = tick[u]
          /\ UNCHANGED <<plan, checked, since, row>>
      BY <1>0, <1>8, MoveOnLeaves DEF FindRunning, Die
    <2> QED BY <2>2, <2>3, KeepsCovered
  <1>9. ASSUME NEW t \in Tick, StartTarget(t) PROVE CheckInv'
    BY <1>0, <1>9, KeepsCovered DEF StartTarget, Remaining
  <1>10. ASSUME NEW t \in Tick, BlockTarget(t) PROVE CheckInv'
    BY <1>0, <1>10, KeepsCovered DEF BlockTarget, Remaining, history
  <1>11. ASSUME NEW t \in Tick, NEW status \in {"success", "failed"}, EndTarget(t, status)
         PROVE  CheckInv'
    BY <1>0, <1>11, KeepsCovered DEF EndTarget, history
  <1>12. ASSUME NEW t \in Tick, Finish(t) PROVE CheckInv'
    <2>1. \A o \in Occurrence : row[o].status # "none" => row'[o].status # "none"
      BY <1>0, <1>12, MemoryTypes DEF Finish, Row
    <2> QED BY <1>0, <1>12, <2>1, MoveOnLeaves, KeepsCovered DEF Finish, history
  <1> QED
    BY <1>1, <1>2, <1>3, <1>4, <1>5, <1>6, <1>7, <1>8, <1>9, <1>10, <1>11, <1>12 DEF Next

\* Under catch_up_once no minute that fell due is forgotten, in whatever order overlapping ticks note their checks and die (_due_occurrence, _claim_occurrence).
THEOREM NothingForgotten == Spec => []CaughtUp
  <1>1. CheckInv => CaughtUp
    BY DEF CheckInv
  <1> QED BY <1>1, TypeInit, TypeStep, ClaimInit, ClaimStep, RowInit, CheckStep, PTL DEF Spec

=============================================================================
