--------------------------- MODULE ActiveSelection ---------------------------
(***************************************************************************)
(* The choice of the active rows of a curated asset                        *)
(* (assets/a0201_curated/producer.py, _build_active_coordinate_snapshot):  *)
(* of all the rows of a group, over all the source files, the first one    *)
(* in the order of sort_first.  A run keeps a candidate file per source,   *)
(* and computes anew only the groups of the sources that changed; the rest *)
(* comes from the snapshot of the run before.  A full selection looks at   *)
(* the candidates directly or, when they are many, through two caches.     *)
(***************************************************************************)
EXTENDS Naturals, FiniteSetsExt, Functions

CONSTANTS
  Source,       \* source files, numbered in the order of their paths
  Group,        \* values of the group keys, numbered
  PartitionOf,  \* the partition of each group
  Rank,         \* values of the sort columns
  Contents,     \* what a source may hold: for each group, the ranks of its rows
  MaxRuns,      \* bound: runs
  MaxChanges,   \* bound: changed sources and contracts
  Orderly,      \* TRUE: once there is a snapshot, runs go on to the next one
  KeepGlobal,   \* FALSE: somebody empties the cache of global winners before each run
  None

ASSUME SelectionAssumption ==
  /\ Source \subseteq Nat /\ IsFiniteSet(Source) /\ Rank \subseteq Nat /\ IsFiniteSet(Rank)
  /\ Contents \subseteq [Group -> SUBSET Rank]
  /\ None \notin [Group -> SUBSET Rank] \cup [Group -> SUBSET [rank : Rank, source : Source]]
  /\ None \notin [fingerprint : Nat, contract : Nat, partitions : SUBSET {PartitionOf[g] : g \in Group}]
  /\ None \notin [contract : Nat, sources : UNION {[S -> Nat] : S \in SUBSET Source}]

VARIABLES
  content, version, contract,  \* the sources, and the contract (plan, references, sort)
  candidate, occupancy,        \* files of each source: its local winners, their profile
  manifest, snapshot,          \* candidates.manifest.json, the active snapshot
  localCache, globalCache,     \* _cohort-local-cache, _global-winner-cache
  pc, listed, plan, full, impacted, stale, pending, selected,  \* the run
  runs, changes,               \* counters for the bounds
  quiet, complete              \* history: nothing changed since the run began; it ended well

world == <<content, version, contract>>
files == <<candidate, occupancy>>
caches == <<localCache, globalCache>>
scope == <<listed, plan, full>>
history == <<runs, changes, quiet>>
vars == <<world, files, manifest, snapshot, caches, pc, scope, impacted, stale, pending, selected,
          history, complete>>

Present == {s \in Source : content[s] # None}
Listed == {s \in Source : listed[s] # 0}
NoRows == [g \in Group |-> {}]
GroupsOf(f) == {g \in Group : f[g] # {}}
PartitionsOf(G) == {PartitionOf[g] : g \in G}

\* The order of the rows: the sort columns (turned round by every other contract),
\* then the path.
Before(r, q, c) ==
  IF r.rank = q.rank THEN r.source < q.source
  ELSE IF c % 2 = 1 THEN r.rank < q.rank ELSE r.rank > q.rank
First(R, c) == {r \in R : \A q \in R \ {r} : Before(r, q, c)}

\* _reduce_selector_rows: one row of each group.
Reduce(rows, c) == [g \in DOMAIN rows |-> First(rows[g], c)]
RowsOf(f, S) == [g \in Group |-> UNION {{[rank |-> k, source |-> s] : k \in f[s][g]} : s \in S}]

\* The definition of the active rows.
ActiveRows(f, c) == Reduce(RowsOf(f, {s \in Source : f[s] # None}), c)

TypeOK ==
  /\ content \in [Source -> Contents \cup {None}] /\ version \in [Source -> Nat] /\ contract \in Nat
  /\ \A s \in Source : candidate[s] = None \/ candidate[s] \in [Group -> SUBSET Rank]
  /\ snapshot = None \/ snapshot \in [Group -> SUBSET [rank : Rank, source : Source]]
  /\ pc \in {"idle", "building", "selecting", "writing"}
  /\ impacted \subseteq Group /\ pending \subseteq Listed /\ full \in BOOLEAN /\ stale \in BOOLEAN
  /\ \A s \in pending : pc = "building" /\ listed[s] <= version[s]
  /\ pc \in {"selecting", "writing"} => manifest # None /\ DOMAIN manifest.sources = Listed

Init ==
  /\ content \in [Source -> Contents \cup {None}]
  /\ version = [s \in Source |-> 1] /\ contract = 1
  /\ candidate = [s \in Source |-> None] /\ occupancy = [s \in Source |-> None]
  /\ manifest = None /\ snapshot = None /\ localCache = <<>> /\ globalCache = <<>>
  /\ pc = "idle" /\ listed = [s \in Source |-> 0] /\ plan = 1 /\ full = FALSE
  /\ impacted = {} /\ stale = FALSE /\ pending = {} /\ selected = NoRows
  /\ runs = 0 /\ changes = 0 /\ quiet = TRUE /\ complete = FALSE

-----------------------------------------------------------------------------
(* The world changes: between runs, and under them *)

ReplaceSource(s, c) ==
  /\ changes < MaxChanges /\ c # content[s]
  /\ content' = [content EXCEPT ![s] = c] /\ version' = [version EXCEPT ![s] = @ + 1]
  /\ changes' = changes + 1 /\ quiet' = FALSE
  /\ UNCHANGED <<contract, files, manifest, snapshot, caches, pc, scope, impacted, stale, pending,
                 selected, runs, complete>>

\* A reference dataset or the plan of the payload changes.
ChangeContract ==
  /\ changes < MaxChanges
  /\ contract' = contract + 1
  /\ changes' = changes + 1 /\ quiet' = FALSE
  /\ UNCHANGED <<content, version, files, manifest, snapshot, caches, pc, scope, impacted, stale,
                 pending, selected, runs, complete>>

-----------------------------------------------------------------------------
(* _refresh_candidate_sidecars *)

\* Mutant of OldGroups: what a source held before does not count.
NoOldGroups(S) == {}

\* The groups that the candidate files of these sources hold.
OldGroups(S) == UNION {GroupsOf(candidate[s]) : s \in {t \in S : candidate[t] # None}}

\* Mutant of CanReuse: the file is there.
CanReuseAny(s) == candidate[s] # None

CanReuse(s) ==
  /\ s \in DOMAIN manifest.sources /\ manifest.sources[s] = version[s]
  /\ candidate[s] # None
  /\ occupancy[s] # None
  /\ occupancy[s].fingerprint = version[s] /\ occupancy[s].contract = contract

\* The listing; a changed contract empties the candidate root and the caches in it;
\* otherwise the files of deleted sources go, and those that changed are to be built.
Examine ==
  /\ pc = "idle" /\ runs < MaxRuns /\ Present # {}
  /\ runs' = runs + 1 /\ quiet' = TRUE /\ complete' = FALSE
  /\ listed' = [s \in Source |-> IF s \in Present THEN version[s] ELSE 0]
  /\ plan' = contract
  /\ LET rebuild == manifest = None \/ manifest.contract # contract
         gone == IF rebuild THEN Source ELSE DOMAIN manifest.sources \ Present
         changed == {s \in Present : rebuild \/ ~CanReuse(s)}
     IN  /\ full' = rebuild
         /\ impacted' = IF rebuild THEN {} ELSE OldGroups(gone \cup changed)
         /\ stale' = (~rebuild /\ \E s \in gone \cup changed : candidate[s] # None)
         /\ pending' = changed
         /\ candidate' = [s \in Source |-> IF s \in gone THEN None ELSE candidate[s]]
         /\ occupancy' = [s \in Source |-> IF s \in gone THEN None ELSE occupancy[s]]
         /\ localCache' = IF rebuild THEN <<>> ELSE localCache
         /\ globalCache' = IF rebuild \/ ~KeepGlobal THEN <<>> ELSE globalCache
  /\ pc' = "building"
  /\ UNCHANGED <<world, manifest, snapshot, selected, changes>>

\* build_candidate_occupancy: the partitions of the rows, stamped with the fingerprint of
\* the listing.
OccupancyOf(s, local) ==
  [fingerprint |-> listed[s], contract |-> plan, partitions |-> PartitionsOf(GroupsOf(local))]

\* _build_source_candidate_sidecar: the first row of each group of this source.
CandidateOf(s) == [g \in Group |-> {r.rank : r \in First(RowsOf(content, {s})[g], plan)}]

\* _candidate_sidecar_task_worker reads the source as it is now, in a process of its own.
Build(s) ==
  /\ pc = "building" /\ s \in pending /\ content[s] # None
  /\ LET local == CandidateOf(s) IN
     /\ candidate' = [candidate EXCEPT ![s] = local]
     /\ occupancy' = [occupancy EXCEPT ![s] = OccupancyOf(s, local)]
     /\ impacted' = impacted \cup GroupsOf(local)
  /\ stale' = TRUE
  /\ pending' = pending \ {s}
  /\ UNCHANGED <<world, manifest, snapshot, caches, pc, scope, selected, history, complete>>

WriteManifest ==
  /\ pc = "building" /\ pending = {}
  /\ manifest' = [contract |-> plan, sources |-> Restrict(listed, Listed)]
  /\ pc' = "selecting"
  /\ UNCHANGED <<world, files, snapshot, caches, scope, impacted, stale, pending, selected, history,
                 complete>>

-----------------------------------------------------------------------------
(* _build_active_coordinate_snapshot *)

Write(rows) == selected' = rows /\ pc' = "writing"

\* Mutant of CanIncrement: the snapshot may be that of another contract.
CanIncrementAlways == snapshot # None /\ stale

CanIncrement == ~full /\ snapshot # None /\ stale

\* _candidate_paths_for_partition_keys: the candidates whose profile names one of the
\* impacted partitions; all of them if none does.
Accepted ==
  LET named == {s \in Listed : occupancy[s] = None
                  \/ occupancy[s].partitions \cap PartitionsOf(impacted) # {}}
  IN  IF named = {} THEN Listed ELSE named

\* _candidate_frames_for_partition_keys: of these candidates the record batches that hold
\* one of the impacted partitions.
FramesOf(S) ==
  [g \in Group |-> IF PartitionOf[g] \in PartitionsOf(impacted) THEN RowsOf(candidate, S)[g] ELSE {}]

\* The groups that are not impacted are taken from the snapshot.
SelectImpacted ==
  /\ pc = "selecting" /\ CanIncrement
  /\ LET anew == Reduce(FramesOf(Accepted), plan) IN
     Write([g \in Group |-> IF g \in impacted THEN anew[g] ELSE snapshot[g]])
  /\ UNCHANGED <<world, files, manifest, snapshot, caches, scope, impacted, stale, pending, history,
                 complete>>

\* All rows of these candidates at once.
SelectFrom(S) == Reduce(RowsOf(candidate, S), plan)

\* A full selection: there is nothing to start from, or the impacted groups exceed
\* the memory budget.
SelectDirectly ==
  /\ pc = "selecting"
  /\ Write(SelectFrom(Listed))
  /\ UNCHANGED <<world, files, manifest, snapshot, caches, scope, impacted, stale, pending, history,
                 complete>>

\* build_planning_cohorts, build_adaptive_subbucket_plan: the sources in cohorts, and
\* the groups of a partition in one sub-bucket or in one each, as sizes demand.
Cohorts == {{Listed}, {{s} : s \in Listed}}
Layouts == {[g \in Group |-> 0], [g \in Group |-> g]}

\* _selector_ipc_writer_worker: the rows of a bucket; the bucket is a hash of the group keys.
RoutedRows(S, bucketOf, b) == [g \in {h \in Group : bucketOf[h] = b} |-> RowsOf(candidate, S)[g]]

\* _select_active_rows_in_buckets: a full selection of few candidates, bucket by bucket.
SelectInBuckets ==
  /\ pc = "selecting"
  /\ \E bucketOf \in Layouts :
       Write([g \in Group |-> Reduce(RoutedRows(Listed, bucketOf, bucketOf[g]), plan)[g]])
  /\ UNCHANGED <<world, files, manifest, snapshot, caches, scope, impacted, stale, pending, history,
                 complete>>

\* cohort_partition_cache_key
LocalKey(cohort, p) == <<p, [s \in cohort |-> <<listed[s], plan>>]>>

\* _cohort_partition_ipc_writer_worker: the rows of a partition in the files of a cohort.
CohortRows(cohort, p) ==
  [g \in {h \in Group : PartitionOf[h] = p} |-> RowsOf(candidate, cohort)[g]]

\* _cohort_local_selector_worker: the first row of each group among them.
LocalSelection(cohort, p) == Reduce(CohortRows(cohort, p), plan)

\* What load_cohort_partition_cache finds is not selected again.
LocalWinners(cohort, p) ==
  IF LocalKey(cohort, p) \in DOMAIN localCache THEN localCache[LocalKey(cohort, p)]
  ELSE LocalSelection(cohort, p)

\* The record batches of a local winner file: one for each sub-bucket, in order.
Batches(local, layout) == {layout[g] : g \in {h \in DOMAIN local : local[h] # {}}}
BatchIndex(local, layout, b) == Cardinality({a \in Batches(local, layout) : a < b})

\* global_winner_cache_key: _merge_route_batch_indices has dropped the keys of the
\* local winners from the routes, so that their batch indices are all that is left.
GlobalKey(p, b, layout, locals) ==
  LET with == {c \in DOMAIN locals : b \in Batches(locals[c], layout)}
      at(i) == {c \in with : BatchIndex(locals[c], layout, b) = i}
  IN  <<p, b, [i \in {BatchIndex(locals[c], layout, b) : c \in with} |-> Cardinality(at(i))]>>

\* The partition files of the cohorts and the selection in each of them.
Locals(cohorts) == [p \in PartitionsOf(Group) |-> [c \in cohorts |-> LocalWinners(c, p)]]

\* _bundle_global_selector_routes: the sub-buckets that have rows.
Buckets(locals, layout) ==
  UNION {{<<p, b>> : b \in UNION {Batches(locals[p][c], layout) : c \in DOMAIN locals[p]}}
            : p \in DOMAIN locals}

\* The global winners of a sub-bucket.
Reduced(x, locals, layout) ==
  Reduce([g \in {h \in Group : PartitionOf[h] = x[1] /\ layout[h] = x[2]}
            |-> UNION {locals[x[1]][c][g] : c \in DOMAIN locals[x[1]]}], plan)

BucketKey(x, locals, layout) == GlobalKey(x[1], x[2], layout, locals[x[1]])

\* What load_global_winner_cache finds is not selected again.
GlobalWinners(x, locals, layout) ==
  IF BucketKey(x, locals, layout) \in DOMAIN globalCache
  THEN globalCache[BucketKey(x, locals, layout)]
  ELSE Reduced(x, locals, layout)

\* publish_cohort_partition_cache: what is in the cache stays as it is.
KeptLocal(cohorts, locals) ==
  LET routes == cohorts \X DOMAIN locals
      newLocal == {LocalKey(x[1], x[2]) : x \in routes} \ DOMAIN localCache
      keyed(k) == CHOOSE x \in routes : LocalKey(x[1], x[2]) = k
  IN  [k \in DOMAIN localCache \cup newLocal |->
         IF k \in newLocal THEN locals[keyed(k)[2]][keyed(k)[1]] ELSE localCache[k]]

\* publish_global_winner_cache
KeptGlobal(winners, locals, layout) ==
  LET keyed(k) == CHOOSE x \in DOMAIN winners : BucketKey(x, locals, layout) = k
  IN  [k \in DOMAIN globalCache \cup {BucketKey(x, locals, layout) : x \in DOMAIN winners} |->
         IF k \in DOMAIN globalCache THEN globalCache[k] ELSE winners[keyed(k)]]

\* _select_active_rows_in_dataset_shards: what the caches have is taken from them, and
\* all is kept in them (the oldest entries beyond 512 are not modelled to go).
SelectInShards(cohorts, layout) ==
  LET locals == Locals(cohorts)
      winners == [x \in Buckets(locals, layout) |-> GlobalWinners(x, locals, layout)]
  IN  /\ pc = "selecting"
      /\ Write([g \in Group |->
           UNION {winners[x][g] : x \in {y \in DOMAIN winners : g \in DOMAIN winners[y]}}])
      /\ localCache' = KeptLocal(cohorts, locals)
      /\ globalCache' = KeptGlobal(winners, locals, layout)
      /\ UNCHANGED <<world, files, manifest, snapshot, scope, impacted, stale, pending, history,
                     complete>>

\* A full selection of many candidates, where the plan of the active rows is made from shards.
SelectSharded == \E cohorts \in Cohorts, layout \in Layouts : SelectInShards(cohorts, layout)

\* _write_active_coordinate_snapshot, or the worker of the plan, replaces it at once.
WriteSnapshot ==
  /\ pc = "writing"
  /\ snapshot' = selected
  /\ pc' = "idle" /\ complete' = TRUE
  /\ UNCHANGED <<world, files, manifest, caches, scope, impacted, stale, pending, selected, history>>

\* Mutant of Stop: what the run had still to build is kept for the next one.
StopPending ==
  /\ pc # "idle" /\ (Orderly => snapshot = None)
  /\ pc' = "idle"
  /\ UNCHANGED <<world, files, manifest, snapshot, caches, scope, impacted, stale, pending, selected,
                 history, complete>>

\* The run dies or fails: a task, the selection, the validation of what it selected.
Stop ==
  /\ pc # "idle" /\ (Orderly => snapshot = None)
  /\ pc' = "idle" /\ pending' = {}
  /\ UNCHANGED <<world, files, manifest, snapshot, caches, scope, impacted, stale, selected, history,
                 complete>>

Next ==
  \/ \E s \in Source, c \in Contents \cup {None} : ReplaceSource(s, c)
  \/ ChangeContract
  \/ Examine \/ WriteManifest \/ SelectImpacted \/ SelectDirectly \/ SelectInBuckets
  \/ SelectSharded \/ WriteSnapshot \/ Stop
  \/ \E s \in Source : Build(s)

Spec == Init /\ [][Next]_vars

-----------------------------------------------------------------------------
(* Properties *)

\* After a run under which nothing changed the snapshot holds the active row of every
\* group over the present sources, whatever the runs before left in candidates, caches
\* and snapshot, and whichever way the selection took.
SelectionIsExact ==
  pc = "idle" /\ complete /\ quiet => snapshot = ActiveRows(content, contract)
=============================================================================
