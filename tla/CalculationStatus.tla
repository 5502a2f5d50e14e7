------------------------- MODULE CalculationStatus -------------------------
(***************************************************************************)
(* What a calculated fact (0102) says of the calculations it had to skip   *)
(* (a0102_calculated_fact/calculation_status.py, schema_change_handling of *)
(* segment_runner.py): an expression is skipped for the whole dataset if   *)
(* no segment has what it needs, or else in the segments that lack it.     *)
(* After the calculation manifest a run writes the status of the skipped   *)
(* and of the recovered calculations, then their events, then the metadata.*)
(*                                                                         *)
(* The upstream has receipts.  The id of a segment is made of its path and *)
(* of its content, so a segment that is rewritten is another one.          *)
(***************************************************************************)
EXTENDS Naturals

CONSTANTS
  Expression,
  Path,         \* the part files of the upstream
  Column,
  Needs,        \* for each expression the sets of columns it may be defined with
  MaxChanges,   \* bound: rewritten parts and edited expressions
  None

Version == 1 .. MaxChanges + 1
Segment == Path \X Version
Key == Expression \X Segment
Status == [state : {"blocked", "recovered"}, missing : SUBSET Column, schema : SUBSET Column]

\* Assumed of the constants (where the module is used).
StatusAssumption ==
  /\ MaxChanges \in Nat
  /\ Needs \in [Expression -> SUBSET SUBSET Column]

VARIABLES
  needs,     \* the definition: the columns each expression reads
  upstream,  \* of each part its version and its columns
  manifest,  \* calculation-manifest.json: the contract and the segments calculated by it, or None
  status,    \* calculation-status.json: of some calculations state, missing columns and schema
  told,      \* calculation-events.jsonl: the last event of each calculation that has one
  noted,     \* metadata.json: the expressions skipped for the whole dataset
  run,       \* the local variables of the run
  changes,   \* counter for the bound
  attempt,   \* history: what a run last recorded of a calculation: "skipped" or "calculated"
  guessed,   \* history: those whose status is not that of the run that last processed them
  lost       \* history: those whose last event died with its run

definition == <<needs, upstream>>
files == <<manifest, status, told, noted>>
history == <<attempt, guessed, lost>>
vars == <<definition, files, run, changes, history>>

Idle == [pc |-> "idle", columns |-> [p \in Path |-> {}], needs |-> [e \in Expression |-> {}],
         current |-> {}, selected |-> {}, skipped |-> {}, events |-> {}]

TypeOK ==
  /\ needs \in [Expression -> SUBSET Column] /\ \A e \in Expression : needs[e] \in Needs[e]
  /\ upstream \in [Path -> [version : Version, columns : SUBSET Column]]
  /\ manifest = None \/ manifest.segments \subseteq Segment
  /\ \A f \in {status, told} : DOMAIN f \subseteq Key /\ \A k \in DOMAIN f : f[k] \in Status
  /\ noted \subseteq Expression
  /\ run \in [pc : {"idle", "process", "record", "status", "events", "metadata"},
               columns : [Path -> SUBSET Column], needs : [Expression -> SUBSET Column],
               current : SUBSET Segment, selected : SUBSET Segment,
               skipped : SUBSET Key, events : SUBSET Key]
  /\ run.selected \subseteq run.current
  /\ changes \in 0 .. MaxChanges
  /\ DOMAIN attempt \subseteq Key /\ \A k \in DOMAIN attempt : attempt[k] \in {"skipped", "calculated"}
  /\ guessed \subseteq Key /\ lost \subseteq Key

Init ==
  /\ needs \in [Expression -> SUBSET Column] /\ \A e \in Expression : needs[e] \in Needs[e]
  /\ upstream \in [Path -> [version : {1}, columns : SUBSET Column]]
  /\ manifest = None /\ status = << >> /\ told = << >> /\ noted = {}
  /\ run = Idle /\ changes = 0
  /\ attempt = << >> /\ guessed = {} /\ lost = {}

RewritePart(p) ==
  /\ changes < MaxChanges /\ changes' = changes + 1
  /\ \E c \in SUBSET Column :
       upstream' = [upstream EXCEPT ![p] = [version |-> changes + 2, columns |-> c]]
  /\ UNCHANGED <<needs, files, run, history>>

EditExpression(e) ==
  /\ changes < MaxChanges /\ changes' = changes + 1
  /\ \E n \in Needs[e] \ {needs[e]} : needs' = [needs EXCEPT ![e] = n]
  /\ UNCHANGED <<upstream, files, run, history>>

-----------------------------------------------------------------------------

SegmentOf(p) == <<p, upstream[p].version>>

\* An expression of which no segment has a column is not in the plan of a run; the contract
\* is made of those that are.
Dataset(r) == UNION {r.columns[p] : p \in Path}
Planned(r) == {e \in Expression : r.needs[e] \subseteq Dataset(r)}
Contract(r) == [e \in Planned(r) |-> r.needs[e]]

\* plan_upstream_delta: a new contract selects every segment, else those that are new.
Selected(current, contract) ==
  IF manifest = None \/ manifest.contract # contract THEN current ELSE current \ manifest.segments

Plan ==
  LET r == [Idle EXCEPT !.pc = "process", !.columns = [p \in Path |-> upstream[p].columns],
                        !.needs = needs, !.current = {SegmentOf(p) : p \in Path}]
  IN
  /\ run.pc = "idle"
  /\ run' = [r EXCEPT !.selected = Selected(r.current, Contract(r))]
  /\ UNCHANGED <<definition, files, changes, history>>

\* What the run skips: everywhere, or in the selected segments (_segment_expression_names).
SkippedEverywhere(r) == (Expression \ Planned(r)) \X r.current
SkippedInSegments(r) ==
  {k \in Planned(r) \X r.selected : ~ (r.needs[k[1]] \subseteq r.columns[k[2][1]])}
Processed(r) == SkippedEverywhere(r) \cup (Planned(r) \X r.selected)

\* The facts of the selected segments are calculated and appended.
Process ==
  /\ run.pc = "process"
  /\ run' = [run EXCEPT !.pc = "record", !.skipped = SkippedEverywhere(run) \cup SkippedInSegments(run)]
  /\ UNCHANGED <<definition, files, changes, history>>

\* write_calculation_manifest with _next_active_segments.
Record ==
  /\ run.pc = "record"
  /\ manifest' = [contract |-> Contract(run), segments |-> run.current]
  /\ attempt' = [k \in DOMAIN attempt \cup Processed(run) |->
                  IF k \in run.skipped THEN "skipped"
                  ELSE IF k \in Processed(run) THEN "calculated" ELSE attempt[k]]
  /\ run' = [run EXCEPT !.pc = "status"]
  /\ UNCHANGED <<definition, status, told, noted, changes, guessed, lost>>

\* _observation_records: a calculation skipped everywhere carries the schema of the dataset.
Observation(r, k) ==
  LET schema == IF k[1] \notin Planned(r) THEN Dataset(r) ELSE r.columns[k[2][1]]
  IN  [state |-> "blocked", missing |-> r.needs[k[1]] \ schema, schema |-> schema]

Blocked(k) == k \in DOMAIN status /\ status[k].state = "blocked"
Recovered(k) == k \in DOMAIN status /\ status[k].state = "recovered"

\* Mutant of NewlyBlocked: what is missing does not count.
FirstBlocked(k, observed) == ~ Blocked(k)

\* A calculation that was not blocked, or was for another reason, has an event (_signature).
NewlyBlocked(k, observed) == k \notin DOMAIN status \/ status[k] # observed

\* Mutant of Recovers: what is skipped again is not left out.
RecoversAnyhow(r, k) == Blocked(k) /\ k \in Planned(r) \X r.current

\* A blocked calculation that the plan has, of a segment that there is, and that this run has
\* not skipped, whether or not it selected the segment.
Recovers(r, k) == Blocked(k) /\ k \in Planned(r) \X r.current /\ k \notin r.skipped

\* update_calculation_status up to the replacement of the status file.
WriteStatus ==
  LET recovered == {k \in DOMAIN status : Recovers(run, k)}
      blocked == run.skipped \ recovered
  IN
  /\ run.pc = "status"
  /\ status' = [k \in DOMAIN status \cup blocked |->
       IF k \in blocked THEN Observation(run, k)
       ELSE IF k \in recovered
            THEN [state |-> "recovered", missing |-> status[k].missing, schema |-> Dataset(run)]
            ELSE status[k]]
  /\ run' = [run EXCEPT !.pc = "events",
               !.events = recovered \cup {k \in blocked : NewlyBlocked(k, Observation(run, k))}]
  /\ guessed' = (guessed \ Processed(run)) \cup (recovered \ Processed(run))
  /\ UNCHANGED <<definition, manifest, told, noted, changes, attempt, lost>>

AppendEvents ==
  /\ run.pc = "events"
  /\ told' = [k \in DOMAIN told \cup run.events |-> IF k \in run.events THEN status[k] ELSE told[k]]
  /\ lost' = lost \ run.events
  /\ run' = [run EXCEPT !.pc = "metadata"]
  /\ UNCHANGED <<definition, manifest, status, noted, changes, attempt, guessed>>

\* _write_run_metadata; it lists what was noted and is planned again as resumed.
WriteMetadata ==
  /\ run.pc = "metadata"
  /\ noted' = Expression \ Planned(run) /\ run' = Idle
  /\ UNCHANGED <<definition, manifest, status, told, changes, history>>

\* The run dies or raises; what it recorded and did not say is not said by another.
Die ==
  /\ run.pc # "idle" /\ run' = Idle
  /\ guessed' = guessed \cup (IF run.pc = "status" THEN Processed(run) ELSE {})
  /\ lost' = lost \cup (IF run.pc = "events" THEN run.events ELSE {})
  /\ UNCHANGED <<definition, files, changes, attempt>>

Next ==
  \/ \E p \in Path : RewritePart(p)
  \/ \E e \in Expression : EditExpression(e)
  \/ Plan \/ Process \/ Record \/ WriteStatus \/ AppendEvents \/ WriteMetadata \/ Die

StatusSpec == Init /\ [][Next]_vars

-----------------------------------------------------------------------------
(* Properties *)

\* Between runs a calculation is blocked if and only if it was skipped when its segment was
\* last processed, and is not called recovered unless it was calculated then; excepted are
\* those whose run died before it wrote the status, and those that a run called recovered
\* without processing their segment.
StatusTellsAttempts ==
  run.pc = "idle" => \A k \in Key \ guessed :
    /\ Blocked(k) <=> k \in DOMAIN attempt /\ attempt[k] = "skipped"
    /\ Recovered(k) => k \in DOMAIN attempt /\ attempt[k] = "calculated"

\* Every change of the status has its event, unless the run died in between.
EventsTellStatus ==
  run.pc = "idle" => \A k \in Key \ lost :
    /\ k \in DOMAIN told <=> k \in DOMAIN status
    /\ k \in DOMAIN told => told[k] = status[k]

StatusTellsTruth == TypeOK /\ StatusTellsAttempts /\ EventsTellStatus
=============================================================================
