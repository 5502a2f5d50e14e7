---------------------------- MODULE RemoteReader ----------------------------
(***************************************************************************)
(* Reading a published dataset (runtime/object_store: remote_reader.py,    *)
(* remote_upstream.py; a0201_curated/producer.py, a0301_join/producer.py). *)
(*                                                                         *)
(* A reader takes the catalog pointer once and follows it: the manifest,   *)
(* an index, the parts.  A run that can use an index fetches the rows it   *)
(* needs; one that cannot falls back, pinning anew, to ranges of columns   *)
(* and then to whole parts, which go through a local cache.  Publishers    *)
(* and the collector go on meanwhile, as RemoteDataset promises.           *)
(***************************************************************************)
EXTENDS Naturals, FiniteSets

CONSTANTS
  Reader,         \* processes that read on one machine
  Part,           \* the relative paths of the data parts
  MaxGeneration,  \* bound: generations published
  Listing,        \* Listing[g][p]: the content of part p in generation g, or None
  Indexes,        \* Indexes[g]: the indexes published with generation g
  Deployments,    \* how the readers are used
  None

Generation == 1 .. MaxGeneration
Content == (UNION {{Listing[g][p] : p \in Part} : g \in Generation}) \ {None}

\* keys: the planning index, which holds the keys; groups: the row-group index.
Object == Part \cup {"keys", "groups", "manifest"}

\* The parts and objects that the manifest of g lists, and what they hold.
PartsOf(g) == {p \in Part : Listing[g][p] # None}
ObjectsOf(g) == PartsOf(g) \cup Indexes[g] \cup {"manifest"}
Held(g, o) == IF o \in Part THEN Listing[g][o] ELSE g
Pointer(g) == [generation |-> g, lists |-> [o \in ObjectsOf(g) |-> Held(g, o)]]

\* key: the command read-key; index, projected, whole: the three ways of a run.
Mode == {"key", "index", "projected", "whole"}

\* The ways used, whether two readers may be at work, and whether os.link works.
Deployment == [modes : SUBSET Mode, overlap : BOOLEAN, links : BOOLEAN]

\* A file that is still being copied.
Partial == "partial"

\* Assumed of the constants (where the module is used): objects have names of their own, and
\* what there is differs from what there is not.
ReaderAssumption ==
  /\ IsFiniteSet(Part) /\ MaxGeneration \in Nat
  /\ \A g \in Generation : PartsOf(g) # {} /\ Indexes[g] \subseteq {"keys", "groups"}
  /\ {"keys", "groups", "manifest"} \cap Part = {}
  /\ None \notin Generation /\ (\A g \in Generation : None # Pointer(g)) /\ Partial \notin Content
  /\ Deployments \subseteq Deployment

VARIABLES
  deployment,       \* how the readers are used; it does not change
  latest, objects,  \* the published dataset: see RemoteDataset
  cache,            \* remote-upstream/<dataset>/objects: contents under their hash
  proxies,          \* remote-selector-projected: columns of parts under their file id
  local,            \* remote-upstream/<dataset>/<generation>/<part>
  reader            \* the local variables of the readers

environment == <<deployment, latest, objects>>
disk == <<cache, proxies, local>>
vars == <<environment, disk, reader>>

Remote == INSTANCE RemoteDataset

Idle == [pc |-> "idle", mode |-> "whole", pin |-> 0, todo |-> {}, got |-> [p \in Part |-> None]]
AtRest == {"idle", "done", "missing", "failed"}

TypeOK ==
  /\ deployment \in Deployments
  /\ latest = None \/ latest \in {Pointer(g) : g \in Generation}
  /\ \A g \in Generation, o \in Object : objects[g][o] \in {None, Held(g, o)}
  /\ cache \subseteq Content /\ proxies \subseteq Part \X Content
  /\ local \in [Generation -> [Part -> Content \cup {None, Partial}]]
  /\ reader \in [Reader -> [mode : Mode, pin : Generation \cup {0}, todo : SUBSET Part,
                            got : [Part -> Content \cup {None}],
                            pc : AtRest \cup {"open", "manifest", "index", "project", "check", "download",
                                  "unlink", "link", "copy", "verify", "payload"}]]

Init ==
  /\ deployment \in Deployments
  /\ Remote!Init
  /\ cache = {} /\ proxies = {}
  /\ local = [g \in Generation |-> [p \in Part |-> None]]
  /\ reader = [r \in Reader |-> Idle]

-----------------------------------------------------------------------------
(* Publishers and the collector *)

Current == IF latest = None THEN 0 ELSE latest.generation

\* The objects of the next generation are uploaded, and then it is pointed to.
UploadNext ==
  /\ Current < MaxGeneration
  /\ LET g == Current + 1
         absent == {o \in ObjectsOf(g) : objects[g][o] = None}
     IN  IF absent = {}
         THEN latest' = Pointer(g) /\ UNCHANGED objects
         ELSE LET o == CHOOSE o \in absent : TRUE IN
              objects' = [objects EXCEPT ![g][o] = Held(g, o)] /\ UNCHANGED latest
  /\ UNCHANGED <<deployment, disk, reader>>

\* Mutant of Collect: the generation that the pointer names is not protected.
CollectAny ==
  /\ \E g \in 1 .. Current, o \in Object : objects[g][o] # None /\ objects' = [objects EXCEPT ![g][o] = None]
  /\ UNCHANGED <<deployment, latest, disk, reader>>

\* garbage_collect_publication: an object of a generation that is not current.
Collect ==
  /\ \E g \in 1 .. Current - 1, o \in Object :
       objects[g][o] # None /\ objects' = [objects EXCEPT ![g][o] = None]
  /\ UNCHANGED <<deployment, latest, disk, reader>>

-----------------------------------------------------------------------------
(* open_remote_generation *)

Move(r, from, new) == reader[r].pc = from /\ reader' = [reader EXCEPT ![r] = new]
Goto(r, from, to) == Move(r, from, [reader[r] EXCEPT !.pc = to])

\* The part that is worked on, and what the manifest says of it.
Now(r) == CHOOSE p \in reader[r].todo : TRUE
Expected(r) == Listing[reader[r].pin][Now(r)]

Begin(r) ==
  /\ deployment.overlap \/ \A q \in Reader \ {r} : reader[q].pc = "idle"
  /\ \E m \in deployment.modes : Move(r, "idle", [Idle EXCEPT !.pc = "open", !.mode = m])
  /\ UNCHANGED <<environment, disk>>

\* The pointer is read; it pins the generation and the hash of its manifest.
Open(r) ==
  /\ latest # None
  /\ Move(r, "open", [reader[r] EXCEPT !.pc = "manifest", !.pin = latest.generation])
  /\ UNCHANGED <<environment, disk>>

\* The index that a way of reading begins with.
IndexFor(mode) == CASE mode \in {"key", "index"} -> "keys" [] mode = "projected" -> "groups"

Stored(r, o) == objects[reader[r].pin][o] # None

\* Mutant of FollowManifest: what was pinned before is kept with the new pin.
FollowPointer(r) ==
  LET m == reader[r] IN
  /\ m.pc = "manifest" /\ Stored(r, "manifest")
  /\ Move(r, "manifest",
       [m EXCEPT !.pc = IF m.mode = "whole" THEN "check" ELSE "index",
                 !.pin = Current, !.todo = PartsOf(m.pin)])
  /\ UNCHANGED <<environment, disk>>

\* What the manifest does not list, the next way does without: the run pins anew.
\* The command has no other way.
FollowManifest(r) ==
  LET m == reader[r]
      lists == PartsOf(m.pin)
  IN
  /\ m.pc = "manifest" /\ Stored(r, "manifest")
  /\ IF m.mode = "whole" THEN Move(r, "manifest", [m EXCEPT !.pc = "check", !.todo = lists])
     ELSE IF IndexFor(m.mode) \in Indexes[m.pin] THEN Goto(r, "manifest", "index")
     ELSE IF m.mode = "key" THEN Goto(r, "manifest", "failed")
     ELSE Move(r, "manifest",
               [m EXCEPT !.pc = "open", !.mode = IF m.mode = "index" THEN "projected" ELSE "whole"])
  /\ UNCHANGED <<environment, disk>>

\* An object that is asked for is not there (any more), and the reader raises.
Wanted(r) ==
  CASE reader[r].pc = "manifest" -> "manifest"
    [] reader[r].pc = "index" -> IndexFor(reader[r].mode)
    [] reader[r].pc \in {"project", "download", "payload"} -> Now(r)

ObjectMissing(r) ==
  /\ reader[r].pc \in {"manifest", "index", "project", "download", "payload"}
  /\ ~Stored(r, Wanted(r))
  /\ Goto(r, reader[r].pc, "missing")
  /\ UNCHANGED <<environment, disk>>

-----------------------------------------------------------------------------
(* Selective reading *)

\* The index tells in which parts the wanted rows lie: for a key, perhaps in
\* none; for a run it covers every part, and the selector works on its columns.
ReadIndex(r) ==
  LET m == reader[r] IN
  /\ m.pc = "index" /\ Stored(r, IndexFor(m.mode))
  /\ IF m.mode = "projected"
     THEN Move(r, "index", [m EXCEPT !.pc = "project", !.todo = PartsOf(m.pin)])
     ELSE \E wanted \in SUBSET PartsOf(m.pin) :
            Move(r, "index",
              [m EXCEPT !.pc = IF wanted # {} THEN "payload" ELSE IF m.mode = "key" THEN "failed" ELSE "done",
                        !.todo = wanted])
  /\ UNCHANGED <<environment, disk>>

\* The columns that the selector needs are there, or are fetched as ranges of the part.
Project(r) ==
  LET m == reader[r]
      proxy == <<Now(r), Expected(r)>>
  IN
  /\ m.pc = "project"
  /\ proxy \in proxies \/ Stored(r, Now(r))
  /\ proxies' = proxies \cup {proxy}
  /\ IF m.todo # {Now(r)} THEN Move(r, "project", [m EXCEPT !.todo = @ \ {Now(r)}])
     ELSE \E wanted \in SUBSET PartsOf(m.pin) :
            Move(r, "project", [m EXCEPT !.pc = IF wanted # {} THEN "payload" ELSE "done", !.todo = wanted])
  /\ UNCHANGED <<environment, cache, local>>

\* The rows of one part are fetched by their ranges.
FetchRows(r) ==
  LET m == reader[r]
      rest == m.todo \ {Now(r)}
  IN
  /\ m.pc = "payload" /\ Stored(r, Now(r))
  /\ Move(r, "payload",
       [m EXCEPT !.pc = IF rest = {} THEN "done" ELSE @, !.todo = rest,
                 !.got[Now(r)] = objects[m.pin][Now(r)]])
  /\ UNCHANGED <<environment, disk>>

-----------------------------------------------------------------------------
(* materialize_remote_parquet_files *)

\* The object cache is addressed by the hash; then the destination is looked at.
CheckCached(r) ==
  LET there == local[reader[r].pin][Now(r)] = Expected(r) IN
  /\ Goto(r, "check", IF Expected(r) \notin cache THEN "download" ELSE IF there THEN "verify" ELSE "unlink")
  /\ UNCHANGED <<environment, disk>>

\* The object is fetched to a temporary file, checked, and renamed into the cache.
Download(r) ==
  /\ reader[r].pc = "download" /\ Stored(r, Now(r))
  /\ cache' = cache \cup {objects[reader[r].pin][Now(r)]}
  /\ Goto(r, "download", IF local[reader[r].pin][Now(r)] = Expected(r) THEN "verify" ELSE "unlink")
  /\ UNCHANGED <<environment, proxies, local>>

\* destination.unlink(missing_ok=True)
Unlink(r) ==
  /\ Goto(r, "unlink", "link")
  /\ local' = [local EXCEPT ![reader[r].pin][Now(r)] = None]
  /\ UNCHANGED <<environment, cache, proxies>>

\* os.link; when it raises, shutil.copy2, which refuses a file that is linked
\* to its source, and else begins by truncating.
Link(r) ==
  LET g == reader[r].pin IN
  /\ reader[r].pc = "link"
  /\ IF deployment.links
     THEN IF local[g][Now(r)] = None
          THEN Goto(r, "link", "verify") /\ local' = [local EXCEPT ![g][Now(r)] = Expected(r)]
          ELSE Goto(r, "link", "failed") /\ UNCHANGED local
     ELSE Goto(r, "link", "copy") /\ local' = [local EXCEPT ![g][Now(r)] = Partial]
  /\ UNCHANGED <<environment, cache, proxies>>

CopyOver(r) ==
  /\ Goto(r, "copy", "verify")
  /\ local' = [local EXCEPT ![reader[r].pin][Now(r)] = Expected(r)]
  /\ UNCHANGED <<environment, cache, proxies>>

\* The destination is hashed once more; one that differs is removed.
Verify(r) ==
  LET m == reader[r]
      found == local[m.pin][Now(r)]
      rest == m.todo \ {Now(r)}
  IN
  /\ m.pc = "verify"
  /\ IF found = Expected(r)
     THEN Move(r, "verify", [m EXCEPT !.pc = IF rest = {} THEN "done" ELSE "check", !.todo = rest])
     ELSE Goto(r, "verify", "failed")
  /\ local' = IF found = Partial THEN [local EXCEPT ![m.pin][Now(r)] = None] ELSE local
  /\ UNCHANGED <<environment, cache, proxies>>

\* Any request may fail, any process may be killed, and a run ends.
End(r) ==
  /\ reader[r].pc # "idle"
  /\ reader' = [reader EXCEPT ![r] = Idle]
  /\ UNCHANGED <<environment, disk>>

-----------------------------------------------------------------------------

Read(r) ==
  \/ Begin(r) \/ Open(r) \/ FollowManifest(r) \/ ObjectMissing(r)
  \/ ReadIndex(r) \/ Project(r) \/ FetchRows(r)
  \/ CheckCached(r) \/ Download(r) \/ Unlink(r) \/ Link(r) \/ CopyOver(r) \/ Verify(r) \/ End(r)

Next == UploadNext \/ Collect \/ \E r \in Reader : Read(r)

Spec == Init /\ [][Next]_vars

-----------------------------------------------------------------------------
(* Properties *)

\* What a run was given and works with is the generation it pinned, whole and
\* of no other, however often it fell back and pinned anew, whatever a dead
\* reader left behind, and though the generation is being collected.  Where
\* two readers materialise one generation through links, one may take a part
\* from under the other for a moment, but never put a wrong one there.
ReadsOneGeneration ==
  \A r \in Reader : reader[r].pc = "done" =>
    LET m == reader[r] IN
    IF m.mode = "whole"
    THEN \A p \in PartsOf(m.pin) :
           local[m.pin][p] \in {Listing[m.pin][p]} \cup (IF deployment.overlap THEN {None} ELSE {})
    ELSE \A p \in Part : m.got[p] \in {None, Listing[m.pin][p]}

\* A reader misses an object only if the pointer has moved on since it pinned
\* its generation: starting again then helps (the plan of the collector
\* protects what the pointer names).
MissesOnlyTheOld ==
  \A r \in Reader : reader[r].pc = "missing" => reader[r].pin < latest.generation
=============================================================================
