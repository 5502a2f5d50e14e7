---------------------------- MODULE Publication ----------------------------
(***************************************************************************)
(* The publication of a committed dataset to an object store               *)
(* (runtime/object_store: publication.py, operations.py, backend.py).      *)
(*                                                                         *)
(* A publisher is the last phase of a run, or a retry from a receipt.  It  *)
(* reads the local dataset manifest, links a snapshot of the dataset,      *)
(* uploads every object under the prefix of the generation, never          *)
(* overwriting one, uploads the manifest of the generation, and at last    *)
(* moves the catalog pointer by a conditional put.  Runs go on committing  *)
(* to the local dataset meanwhile, publishers overlap and die anywhere,    *)
(* and a garbage collector deletes generations.                            *)
(***************************************************************************)
EXTENDS Naturals, Sequences, FiniteSets, SequencesExt

CONSTANTS
  Publisher,     \* processes that publish the one local dataset
  Contents,      \* what the parts of a snapshot dataset can hold
  MaxCommits,    \* bound: how often the local manifest is written
  Deployments,   \* the ways the datasets are operated: see Deployment
  CommitsApart,  \* TRUE: no commit falls between two reads of the local manifest
  Retain,        \* retain_generations
  None           \* no such object, parent or receipt

\* The local manifest has been written n times: document n is what it held then.
Document == 1 .. MaxCommits

\* What the parts hold: of an appended dataset all generations up to a number.
Content == Document \cup Contents

\* The identity of a generation.  That of a snapshot hashes its parts; that of
\* an append has the number of its last generation and the hash of a document.
Generation == (Contents \X {0}) \cup (Document \X Document)

\* appending: a 0102 dataset (append_generation), or one that is replaced
\* (snapshot_replace); overlap: several publishers are at work at a time;
\* collecting: a garbage collector is.
Deployment == [appending : BOOLEAN, overlap : BOOLEAN, collecting : BOOLEAN]

\* The objects of a generation: data parts with their indexes, provenance
\* (_dataset.manifest.json and metadata.json), and the manifest naming both.
Manifest == [document : Document, data : Content, provenance : Document,
             parent : Generation \cup {None}]
Bundle == [data : Content \cup {None}, provenance : Document \cup {None},
           manifest : Manifest \cup {None}]
Objects == {"data", "provenance", "manifest"}
NoBundle == [data |-> None, provenance |-> None, manifest |-> None]

\* catalog/latest.json; committed_at makes the etag of every write its own.
Pointer == [generation : Generation, manifest : Manifest]

\* The pointer, with what its manifest lists, as a reader sees them.
Listing == [generation : Generation, lists : Bundle]

\* A publication receipt; that of a failure ("pending" or "failed") names none.
Receipt == [status : {"committed"}, generation : Generation] \cup [status : {"pending"}, generation : {None}]

ASSUME ConstantsAssumption ==
  /\ MaxCommits \in Nat \ {0} /\ Retain \in Nat \ {0}
  /\ Deployments \subseteq Deployment /\ CommitsApart \in BOOLEAN
  /\ Contents \cap Document = {}
  /\ None \notin Content /\ None \notin Generation /\ None \notin Document /\ None \notin Manifest
  /\ None \notin Listing

VARIABLES
  deployment,  \* how this dataset is operated; it stays the same
  local,    \* local[n]: the parts that document n of the local dataset describes
  store,    \* the objects of every generation
  later,    \* <<g, h>>: both generations have objects, and h was the later to get one
  catalog,  \* every value the pointer has had; the last is catalog/latest.json
  receipt,  \* registry/publications/<dataset>.json, or None
  pub,      \* the local variables of the publishers
  gc        \* the local variables of the garbage collector

Appending == deployment.appending
vars == <<deployment, local, store, later, catalog, receipt, pub, gc>>

\* etag: the length of catalog when its head was read; 0: there was no pointer.
Idle == [pc |-> "idle", raw |-> 0, named |-> 0, hashed |-> 0, etag |-> 0,
         parent |-> None, data |-> None, provenance |-> None]
NoPlan == [pc |-> "idle", current |-> None, etag |-> 0, doomed |-> {}]

\* _normalize_local_manifest and manifest_generation_id: the generation of p.
GenerationOf(p) == <<local[pub[p].raw], IF Appending THEN pub[p].named ELSE 0>>

\* build_remote_manifest: what p writes as the manifest of its generation.
ManifestOf(p) == [document |-> pub[p].hashed, data |-> pub[p].data,
                  provenance |-> pub[p].provenance, parent |-> pub[p].parent]

PointerOf(p) == [generation |-> GenerationOf(p), manifest |-> ManifestOf(p)]

TypeOK ==
  /\ deployment \in Deployments
  /\ local \in Seq(Content) /\ Len(local) <= MaxCommits
  /\ store \in [Generation -> Bundle]
  /\ later \subseteq Generation \X Generation
  /\ \A i \in DOMAIN catalog : catalog[i].generation \in Generation /\ catalog[i].manifest \in Manifest
  /\ receipt \in Receipt \cup {None}
  /\ \A p \in Publisher :
       /\ pub[p].raw \in 0 .. Len(local) /\ pub[p].named \in 0 .. Len(local)
       /\ pub[p].hashed \in 0 .. Len(local) /\ pub[p].etag \in 0 .. Len(catalog)
       /\ pub[p].parent \in Generation \cup {None}
       /\ pub[p].data \in Content \cup {None} /\ pub[p].provenance \in Document \cup {None}
  /\ gc.etag \in 0 .. Len(catalog) /\ gc.doomed \subseteq Generation \X Objects

Init ==
  /\ deployment \in Deployments
  /\ local = <<>>
  /\ store = [g \in Generation |-> NoBundle]
  /\ later = {} /\ catalog = <<>> /\ receipt = None
  /\ pub = [p \in Publisher |-> Idle]
  /\ gc = NoPlan

----------------------------------------------------------------------------
(* The local dataset *)

Reading(p) == pub[p].pc \in {"name", "hash"}

\* A run writes the local manifest: a new generation is appended; or a snapshot
\* is replaced, or kept while write_metadata renews its provenance.
Commit ==
  /\ Len(local) < MaxCommits
  /\ CommitsApart => \A p \in Publisher : ~Reading(p)
  /\ \E c \in IF Appending THEN {Len(local) + 1} ELSE Contents : local' = Append(local, c)
  /\ UNCHANGED <<deployment, store, later, catalog, receipt, pub, gc>>

----------------------------------------------------------------------------
(* A publisher *)

Step(p, from, to) == pub[p].pc = from /\ pub' = [pub EXCEPT ![p].pc = to]

\* _publish reads the manifest for its parts.
ReadManifest(p) ==
  /\ pub[p].pc = "idle" /\ local # <<>>
  /\ deployment.overlap \/ \A q \in Publisher : pub[q].pc = "idle"
  /\ pub' = [pub EXCEPT ![p] = [Idle EXCEPT !.pc = "name", !.raw = Len(local)]]
  /\ UNCHANGED <<deployment, local, store, later, catalog, receipt, gc>>

NameNextGeneration(p) ==
  /\ pub[p].pc = "name"
  /\ pub' = [pub EXCEPT ![p].pc = "hash", ![p].named = IF Appending THEN Len(local) + 1 ELSE 0]
  /\ UNCHANGED <<deployment, local, store, later, catalog, receipt, gc>>

\* _normalize_local_manifest reads the file again to name an appended generation.
NameGeneration(p) ==
  /\ pub[p].pc = "name"
  /\ pub' = [pub EXCEPT ![p].pc = "hash", ![p].named = IF Appending THEN Len(local) ELSE 0]
  /\ UNCHANGED <<deployment, local, store, later, catalog, receipt, gc>>

\* local_manifest_sha256, of a third read.
HashManifest(p) ==
  /\ pub[p].pc = "hash"
  /\ pub' = [pub EXCEPT ![p].pc = "head", ![p].hashed = Len(local)]
  /\ UNCHANGED <<deployment, local, store, later, catalog, receipt, gc>>

\* previous_pointer = store.head(pointer_key)
HeadPointer(p) ==
  /\ pub[p].pc = "head"
  /\ pub' = [pub EXCEPT ![p].etag = Len(catalog),
               ![p].pc = IF Appending /\ catalog # <<>> THEN "parent" ELSE "link"]
  /\ UNCHANGED <<deployment, local, store, later, catalog, receipt, gc>>

ReadParentNever(p) ==
  /\ Step(p, "parent", "link")
  /\ UNCHANGED <<deployment, local, store, later, catalog, receipt, gc>>

\* The pointer is read after its head; a retry of what it names takes the
\* parent from the manifest it names.
ReadParent(p) ==
  /\ pub[p].pc = "parent"
  /\ LET latest == Last(catalog).generation
         retried == store[latest].manifest
     IN  /\ latest = GenerationOf(p) => retried # None
         /\ pub' = [pub EXCEPT ![p].pc = "link",
                      ![p].parent = IF latest = GenerationOf(p) THEN retried.parent ELSE latest]
  /\ UNCHANGED <<deployment, local, store, later, catalog, receipt, gc>>

\* _snapshot_committed_dataset links the parts.  Those of an append stay for
\* ever; those of a snapshot are whatever lies at their paths now.
LinkParts(p) ==
  /\ pub[p].pc = "link"
  /\ pub' = [pub EXCEPT ![p].pc = "linkmanifest",
               ![p].data = IF Appending THEN local[pub[p].raw] ELSE Last(local)]
  /\ UNCHANGED <<deployment, local, store, later, catalog, receipt, gc>>

LinkManifestUnchecked(p) ==
  /\ pub[p].pc = "linkmanifest"
  /\ pub' = [pub EXCEPT ![p].pc = "data", ![p].provenance = Len(local)]
  /\ UNCHANGED <<deployment, local, store, later, catalog, receipt, gc>>

\* It links the manifest last, and the snapshot counts only if that is the
\* document that was hashed.
LinkManifest(p) ==
  /\ pub[p].pc = "linkmanifest" /\ Len(local) = pub[p].hashed
  /\ pub' = [pub EXCEPT ![p].pc = "data", ![p].provenance = Len(local)]
  /\ UNCHANGED <<deployment, local, store, later, catalog, receipt, gc>>

Stored == {g \in Generation : store[g] # NoBundle}

\* The order of the last uploads without g.
LaterWithout(g) == {pair \in later : pair[1] # g /\ pair[2] # g}

\* put_immutable: a new object, or one that is there already and is the same.
Put(g, object, value) ==
  \/ /\ store[g][object] = None
     /\ store' = [store EXCEPT ![g][object] = value]
     /\ later' = LaterWithout(g) \cup ((Stored \ {g}) \X {g})
  \/ /\ store[g][object] = value
     /\ UNCHANGED <<store, later>>

PutDataOnly(p) ==
  /\ Step(p, "data", "manifest")
  /\ Put(GenerationOf(p), "data", pub[p].data)
  /\ UNCHANGED <<deployment, local, catalog, receipt, gc>>

PutData(p) ==
  /\ Step(p, "data", "provenance")
  /\ Put(GenerationOf(p), "data", pub[p].data)
  /\ UNCHANGED <<deployment, local, catalog, receipt, gc>>

PutProvenance(p) ==
  /\ Step(p, "provenance", "verify")
  /\ Put(GenerationOf(p), "provenance", pub[p].provenance)
  /\ UNCHANGED <<deployment, local, catalog, receipt, gc>>

\* _verify_uploaded_objects
VerifyUploaded(p) ==
  /\ Step(p, "verify", "manifest")
  /\ store[GenerationOf(p)].data = pub[p].data
  /\ store[GenerationOf(p)].provenance = pub[p].provenance
  /\ UNCHANGED <<deployment, local, store, later, catalog, receipt, gc>>

PutManifest(p) ==
  /\ Step(p, "manifest", "verifymanifest")
  /\ Put(GenerationOf(p), "manifest", ManifestOf(p))
  /\ UNCHANGED <<deployment, local, catalog, receipt, gc>>

VerifyManifest(p) ==
  /\ Step(p, "verifymanifest", IF pub[p].etag = 0 THEN "create" ELSE "compare")
  /\ store[GenerationOf(p)].manifest # None
  /\ UNCHANGED <<deployment, local, store, later, catalog, receipt, gc>>

\* There was no pointer: put_conditional with create_only.
CreatePointer(p) ==
  /\ Step(p, "create", "receipt")
  /\ catalog = <<>>
  /\ catalog' = <<PointerOf(p)>>
  /\ UNCHANGED <<deployment, local, store, later, receipt, gc>>

CompareExisting(p) ==
  /\ Step(p, "compare", "receipt")
  /\ UNCHANGED <<deployment, local, store, later, catalog, receipt, gc>>

\* There was one: nothing to do when it names this generation already.
ComparePointer(p) ==
  /\ Step(p, "compare", IF Last(catalog) = PointerOf(p) THEN "receipt" ELSE "swap")
  /\ UNCHANGED <<deployment, local, store, later, catalog, receipt, gc>>

SwapSnapshotAlways(p) ==
  \/ /\ Step(p, "swap", "receipt")
     /\ Appending => Len(catalog) = pub[p].etag
     /\ catalog' = Append(catalog, PointerOf(p))
     /\ UNCHANGED <<deployment, local, store, later, receipt, gc>>
  \/ /\ Step(p, "swap", "reconcile")
     /\ Len(catalog) # pub[p].etag /\ Appending
     /\ UNCHANGED <<deployment, local, store, later, catalog, receipt, gc>>

\* put_conditional: the pointer moves only from the value whose etag was read.
\* After a conflict an append looks whether another retry has committed it.
SwapPointer(p) ==
  \/ /\ Step(p, "swap", "receipt")
     /\ Len(catalog) = pub[p].etag
     /\ catalog' = Append(catalog, PointerOf(p))
     /\ UNCHANGED <<deployment, local, store, later, receipt, gc>>
  \/ /\ Step(p, "swap", "reconcile")
     /\ Len(catalog) # pub[p].etag /\ Appending
     /\ UNCHANGED <<deployment, local, store, later, catalog, receipt, gc>>

Reconcile(p) ==
  /\ Step(p, "reconcile", "receipt")
  /\ Last(catalog) = PointerOf(p)
  /\ UNCHANGED <<deployment, local, store, later, catalog, receipt, gc>>

WriteReceipt(p) ==
  /\ pub[p].pc = "receipt"
  /\ receipt' = [status |-> "committed", generation |-> GenerationOf(p)]
  /\ pub' = [pub EXCEPT ![p] = Idle]
  /\ UNCHANGED <<deployment, local, store, later, catalog, gc>>

\* Any step may raise, those above whose conditions do not hold always do; the
\* receipt then asks for a retry.
PublicationFails(p) ==
  /\ pub[p].pc # "idle"
  /\ receipt' = [status |-> "pending", generation |-> None]
  /\ pub' = [pub EXCEPT ![p] = Idle]
  /\ UNCHANGED <<deployment, local, store, later, catalog, gc>>

\* The process is killed.
Die(p) ==
  /\ pub[p].pc # "idle"
  /\ pub' = [pub EXCEPT ![p] = Idle]
  /\ UNCHANGED <<deployment, local, store, later, catalog, receipt, gc>>

----------------------------------------------------------------------------
(* garbage_collect_publication *)

\* plan_publication_gc reads the pointer.
PlanCollection ==
  /\ deployment.collecting /\ gc.pc = "idle" /\ catalog # <<>>
  /\ gc' = [gc EXCEPT !.pc = "list", !.current = Last(catalog).generation, !.etag = Len(catalog)]
  /\ UNCHANGED <<deployment, local, store, later, catalog, receipt, pub>>

Listed == {item \in Generation \X Objects : store[item[1]][item[2]] # None}

\* The n generations uploaded to last.
Newest(n) == {g \in Stored : Cardinality({pair \in later : pair[1] = g}) < n}

ListUnprotected ==
  /\ gc.pc = "list"
  /\ gc' = [gc EXCEPT !.pc = "confirm",
              !.doomed = {item \in Listed : item[1] \notin Newest(Retain)}]
  /\ UNCHANGED <<deployment, local, store, later, catalog, receipt, pub>>

\* It lists the objects: those of the generations uploaded last and of the one
\* the pointer named are protected.
ListCandidates ==
  /\ gc.pc = "list"
  /\ gc' = [gc EXCEPT !.pc = "confirm",
              !.doomed = {item \in Listed : item[1] \notin Newest(Retain) \cup {gc.current}}]
  /\ UNCHANGED <<deployment, local, store, later, catalog, receipt, pub>>

\* The pointer is read again and must be the one of the plan.
ConfirmPlan ==
  /\ gc.pc = "confirm"
  /\ gc' = IF Len(catalog) = gc.etag /\ gc.doomed # {} THEN [gc EXCEPT !.pc = "delete"] ELSE NoPlan
  /\ UNCHANGED <<deployment, local, store, later, catalog, receipt, pub>>

\* One object after another is deleted by its key.
DeleteObject ==
  /\ gc.pc = "delete"
  /\ \E item \in gc.doomed :
       LET g == item[1]
           rest == [store[g] EXCEPT ![item[2]] = None]
       IN  /\ store' = [store EXCEPT ![g] = rest]
           /\ later' = IF rest = NoBundle THEN LaterWithout(g) ELSE later
           /\ gc' = IF gc.doomed = {item} THEN NoPlan ELSE [gc EXCEPT !.doomed = @ \ {item}]
  /\ UNCHANGED <<deployment, local, catalog, receipt, pub>>

\* The collector is killed, or a delete raises.
CollectionEnds ==
  /\ gc.pc # "idle" /\ gc' = NoPlan
  /\ UNCHANGED <<deployment, local, store, later, catalog, receipt, pub>>

Publish(p) ==
  \/ ReadManifest(p) \/ NameGeneration(p) \/ HashManifest(p) \/ HeadPointer(p) \/ ReadParent(p)
  \/ LinkParts(p) \/ LinkManifest(p)
  \/ PutData(p) \/ PutProvenance(p) \/ VerifyUploaded(p) \/ PutManifest(p) \/ VerifyManifest(p)
  \/ CreatePointer(p) \/ ComparePointer(p) \/ SwapPointer(p) \/ Reconcile(p) \/ WriteReceipt(p)

Collect == PlanCollection \/ ListCandidates \/ ConfirmPlan \/ DeleteObject \/ CollectionEnds

Next ==
  \/ Commit
  \/ \E p \in Publisher : Publish(p) \/ PublicationFails(p) \/ Die(p)
  \/ Collect

Spec == Init /\ [][Next]_vars

----------------------------------------------------------------------------
(* Properties *)

\* What a reader that starts from catalog/latest.json is sent to.
Latest ==
  IF catalog = <<>> THEN None
  ELSE LET latest == Last(catalog) IN
       [generation |-> latest.generation,
        lists |-> [data |-> latest.manifest.data, provenance |-> latest.manifest.provenance,
                   manifest |-> latest.manifest]]

Remote == INSTANCE RemoteDataset WITH Object <- Objects, latest <- Latest, objects <- store

\* What a reader that starts from catalog/latest.json is sent to is there and
\* stays there until the pointer moves: no object is overwritten, the manifest
\* the pointer pins by its hash and every object it lists are stored before
\* the pointer names them, and the collector takes none of them away.
ImplementsRemoteDataset == Remote!Spec

\* A published generation holds the parts its identity stands for, and with
\* them the local manifest that describes these parts, though runs replace the
\* dataset while it is read, linked and uploaded.
GenerationHoldsItsContent ==
  \A i \in DOMAIN catalog :
    LET published == catalog[i] IN
      /\ published.manifest.data = published.generation[1]
      /\ local[published.manifest.provenance] = published.generation[1]

\* The pointer never goes back: whatever order publishers of older and newer
\* commits finish in, it moves to a later commit of the local dataset only.
LatestNeverGoesBack ==
  [][catalog' # catalog /\ catalog # <<>> =>
       Last(catalog').manifest.document > Last(catalog).manifest.document]_vars

\* A receipt that says committed names a generation the pointer has named,
\* though the process may die between the pointer and the receipt, and another
\* publisher may have moved the pointer on.
CommittedIsPublished ==
  receipt # None /\ receipt.status = "committed" =>
    \E i \in DOMAIN catalog : catalog[i].generation = receipt.generation

\* Every published generation holds the content it is named after, and a publisher that
\* returns has left its commit, or a later one, under the pointer.
PublishedIsWhole == GenerationHoldsItsContent /\ CommittedIsPublished

\* Where publications do not overlap, one that starts now can succeed: where its
\* generation has objects already, it uploads the same ones, with the parent it
\* finds in the manifest of this generation or at the pointer (put_immutable
\* would otherwise refuse them, remote.immutable_object_conflict, every time).
RetryReproduces ==
  ~deployment.overlap /\ local # <<>> /\ (\A p \in Publisher : pub[p].pc = "idle") =>
    LET generation == <<Last(local), IF Appending THEN Len(local) ELSE 0>>
        there == store[generation]
    IN  /\ there.data \in {None, Last(local)}
        /\ there.provenance \in {None, Len(local)}
        /\ Appending /\ there.manifest # None =>
             \/ catalog # <<>> /\ Last(catalog).generation = generation
             \/ there.manifest.parent = IF catalog = <<>> THEN None ELSE Last(catalog).generation
=============================================================================
