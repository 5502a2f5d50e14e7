-------------------------- MODULE PublicationProofs --------------------------
(***************************************************************************)
(* Proofs about Publication for every number of publishers, commits and    *)
(* contents: what a publisher has read and uploaded is what the pointer    *)
(* comes to name, and neither another publisher, nor a death, nor the      *)
(* collector takes any of it away.                                         *)
(***************************************************************************)
EXTENDS Publication, FiniteSetTheorems, TLAPS

\* The collector runs only where appends are published one at a time.
CollectsApart == \A d \in Deployments : d.collecting => d.appending /\ ~d.overlap

Past == {"link", "linkmanifest", "data", "provenance", "verify", "manifest", "verifymanifest",
         "create", "compare", "swap", "reconcile", "receipt"}
Linked == Past \ {"link", "linkmanifest"}
Verified == Linked \ {"data", "provenance", "verify"}
Recorded == Verified \ {"manifest"}
Pc == {"idle", "name", "hash", "head", "parent"} \cup Past

Process == [pc : Pc, raw : Nat, named : Nat, hashed : Nat, etag : Nat,
            parent : Generation \cup {None}, data : Content \cup {None},
            provenance : Document \cup {None}]
Collector == [pc : {"idle", "list", "confirm", "delete"}, current : Generation \cup {None},
              etag : Nat, doomed : SUBSET (Generation \X Objects)]

Types ==
  /\ deployment \in Deployments
  /\ local \in Seq(Content) /\ Len(local) <= MaxCommits
  /\ store \in [Generation -> Bundle] /\ later \subseteq Generation \X Generation
  /\ catalog \in Seq(Pointer) /\ receipt \in Receipt \cup {None}
  /\ pub \in [Publisher -> Process] /\ gc \in Collector

-----------------------------------------------------------------------------
Begun(p) == pub[p].pc # "idle"

\* The identity of document n, and the parent that a publisher of g would find.
Named(n) == <<local[n], IF Appending THEN n ELSE 0>>
ParentOf(g) ==
  IF catalog = <<>> THEN None
  ELSE IF Last(catalog).generation = g THEN Last(catalog).manifest.parent
       ELSE Last(catalog).generation

LocalInv == \A n \in 1 .. Len(local) : local[n] \in IF Appending THEN {n} ELSE Contents

\* What a publisher remembers is one document of the local dataset, ...
Reads(p) ==
  /\ pub[p].pc = "idle" => pub[p] = Idle
  /\ Begun(p) => pub[p].raw \in 1 .. Len(local)
  /\ Reading(p) => pub[p].raw = Len(local)
  /\ pub[p].pc \notin {"idle", "name"} => pub[p].named = IF Appending THEN pub[p].raw ELSE 0
  /\ pub[p].pc \notin {"idle", "name", "hash"} => pub[p].hashed = pub[p].raw
  /\ pub[p].named <= Len(local) /\ pub[p].hashed <= Len(local)
  /\ pub[p].pc = "linkmanifest" =>
       /\ pub[p].data \in Content
       /\ Len(local) = pub[p].raw => pub[p].data = local[pub[p].raw]
  /\ pub[p].pc \in Linked => pub[p].data = local[pub[p].raw] /\ pub[p].provenance = pub[p].raw

\* ... that none the pointer had named before is later than, ...
Follows(p) ==
  /\ pub[p].etag <= Len(catalog)
  /\ pub[p].pc \in {"parent", "compare", "swap", "reconcile"} => pub[p].etag > 0
  /\ pub[p].pc = "parent" => Appending
  /\ ~Appending \/ pub[p].pc \in {"name", "hash", "head"} => pub[p].parent = None
  /\ Appending /\ pub[p].pc \in Past /\ pub[p].etag = Len(catalog) =>
       pub[p].parent = ParentOf(Named(pub[p].raw))
  /\ pub[p].pc \in Linked => \A i \in 1 .. pub[p].etag : catalog[i].manifest.document <= pub[p].raw
  /\ pub[p].pc = "swap" /\ pub[p].etag = Len(catalog) => Last(catalog) # PointerOf(p)
  /\ pub[p].pc = "receipt" => \E i \in 1 .. Len(catalog) : catalog[i].generation = Named(pub[p].raw)

\* ... and what it has verified stays.
Uploads(p) ==
  LET there == store[Named(pub[p].raw)] IN
  /\ pub[p].pc \in Verified => there.data = pub[p].data /\ there.provenance = pub[p].provenance
  /\ pub[p].pc \in Recorded => there.manifest = ManifestOf(p)

\* Whatever the pointer named was one document, and what it names is there.
CatalogInv ==
  /\ \A i \in 1 .. Len(catalog) :
       LET named == catalog[i].manifest IN
       /\ named.document \in 1 .. Len(local)
       /\ catalog[i].generation = Named(named.document)
       /\ named.data = local[named.document] /\ named.provenance = named.document
       /\ ~Appending => named.parent = None
  /\ catalog # <<>> =>
       LET latest == Last(catalog)
           there == store[latest.generation]
       IN  /\ there.data = latest.manifest.data /\ there.provenance = latest.manifest.provenance
           /\ there.manifest = latest.manifest
  /\ CommittedIsPublished

\* Publications that do not overlap upload in the order of the documents.
InOrder(n) == n <= Len(local) /\ \A p \in Publisher : Begun(p) => n <= pub[p].raw
SerialInv ==
  ~deployment.overlap =>
    /\ \A p, q \in Publisher : Begun(p) /\ Begun(q) => p = q
    /\ \A p \in Publisher : pub[p].pc \in (Past \cup {"parent"}) \ {"reconcile", "receipt"} =>
         pub[p].etag = Len(catalog)
    /\ Appending =>
         /\ \A g \in Stored : g[1] = g[2] /\ InOrder(g[2])
         /\ \A pair \in later : pair[1][2] < pair[2][2] /\ InOrder(pair[2][2])

\* The collector has doomed only what is older than all that is being published.
CollectorInv ==
  /\ gc.etag <= Len(catalog)
  /\ gc.pc # "idle" =>
       deployment.collecting /\ gc.etag > 0 /\ gc.current = catalog[gc.etag].generation
  /\ gc.pc \in {"idle", "list"} => gc.doomed = {}
  /\ \A item \in gc.doomed :
       /\ item[1] # gc.current
       /\ item[1][2] < Len(local) /\ \A p \in Publisher : Begun(p) => item[1][2] < pub[p].raw
       /\ gc.pc = "delete" => item[1] # Last(catalog).generation

\* What a failed publication has left is what its retry would upload.
RetryInv ==
  ~deployment.overlap /\ Appending =>
    /\ \A n \in Document : store[<<n, n>>].data \in {None, n} /\ store[<<n, n>>].provenance \in {None, n}
    /\ \A n \in Document : n = Len(local) /\ store[<<n, n>>].manifest # None =>
         \/ catalog # <<>> /\ Last(catalog).generation = <<n, n>>
         \/ store[<<n, n>>].manifest.parent = ParentOf(<<n, n>>)

PubInv ==
  /\ Types /\ LocalInv /\ CatalogInv /\ SerialInv /\ CollectorInv /\ RetryInv
  /\ \A p \in Publisher : Reads(p) /\ Follows(p) /\ Uploads(p)
-----------------------------------------------------------------------------
(* Facts about the state *)

\* What p has read is a document, and what it will upload and name is well formed.
LEMMA ReadIsDocument ==
  ASSUME PubInv, NEW p \in Publisher, Begun(p)
  PROVE  /\ pub[p].raw \in Document /\ pub[p].raw \in 1 .. Len(local) /\ Len(local) \in Nat
         /\ local[pub[p].raw] \in Content
         /\ Named(pub[p].raw) \in Generation
         /\ pub[p].pc \notin {"idle", "name"} => GenerationOf(p) = Named(pub[p].raw)
         /\ Appending => Named(pub[p].raw) = <<pub[p].raw, pub[p].raw>>
  <1>1. /\ pub[p].raw \in 1 .. Len(local) /\ Len(local) \in Nat /\ Len(local) <= MaxCommits
        /\ local \in Seq(Content)
    BY DEF PubInv, Types, Reads
  <1>2. pub[p].raw \in Document /\ local[pub[p].raw] \in Content
    BY <1>1, ConstantsAssumption DEF Document
  <1>3. local[pub[p].raw] \in IF Appending THEN {pub[p].raw} ELSE Contents
    BY <1>1 DEF PubInv, LocalInv
  <1>4. Named(pub[p].raw) \in Generation
    BY <1>2, <1>3 DEF Named, Generation
  <1>5. pub[p].pc \notin {"idle", "name"} => GenerationOf(p) = Named(pub[p].raw)
    BY DEF PubInv, Reads, GenerationOf, Named
  <1> QED BY <1>1, <1>2, <1>3, <1>4, <1>5 DEF Named

LEMMA LinkedManifest ==
  ASSUME PubInv, NEW p \in Publisher, pub[p].pc \in Linked
  PROVE  /\ ManifestOf(p) \in Manifest /\ PointerOf(p) \in Pointer
         /\ pub[p].data \in Content /\ pub[p].provenance \in Document
         /\ ManifestOf(p).document = pub[p].raw /\ ManifestOf(p).data = local[pub[p].raw]
         /\ ManifestOf(p).provenance = pub[p].raw /\ ManifestOf(p).parent = pub[p].parent
         /\ PointerOf(p).generation = Named(pub[p].raw) /\ PointerOf(p).manifest = ManifestOf(p)
  <1>1. Begun(p) /\ pub[p].pc \notin {"idle", "name", "hash"}
    BY DEF Begun, Linked, Past
  <1>2. /\ pub[p].hashed = pub[p].raw /\ pub[p].data = local[pub[p].raw] /\ pub[p].provenance = pub[p].raw
        /\ pub[p].parent \in Generation \cup {None}
    BY <1>1 DEF PubInv, Reads, Types, Process
  <1>3. ManifestOf(p) = [document |-> pub[p].raw, data |-> local[pub[p].raw],
                         provenance |-> pub[p].raw, parent |-> pub[p].parent]
    BY <1>2 DEF ManifestOf
  <1>4. pub[p].raw \in Document /\ local[pub[p].raw] \in Content
    BY <1>1, ReadIsDocument
  <1>5. ManifestOf(p) \in Manifest
    BY <1>2, <1>3, <1>4 DEF Manifest
  <1>6. PointerOf(p) = [generation |-> Named(pub[p].raw), manifest |-> ManifestOf(p)]
    BY <1>1, ReadIsDocument DEF PointerOf
  <1> QED BY <1>1, <1>2, <1>3, <1>4, <1>5, <1>6, ReadIsDocument DEF Pointer

LEMMA BundleFields ==
  ASSUME Types, NEW g \in Generation
  PROVE  /\ store[g] = [data |-> store[g].data, provenance |-> store[g].provenance, manifest |-> store[g].manifest]
         /\ store[g].data \in Content \cup {None} /\ store[g].provenance \in Document \cup {None}
         /\ store[g].manifest \in Manifest \cup {None}
         /\ g \in Stored <=> \E x \in Objects : store[g][x] # None
  <1>1. store[g] \in Bundle
    BY DEF Types
  <1> QED BY <1>1 DEF Bundle, Stored, NoBundle, Objects

\* An object appears, or it was there.
LEMMA PutStep ==
  ASSUME Types, NEW g \in Generation, NEW object \in Objects, NEW value, Put(g, object, value),
         object = "data" => value \in Content, object = "provenance" => value \in Document,
         object = "manifest" => value \in Manifest
  PROVE  /\ store' \in [Generation -> Bundle] /\ later' \subseteq Generation \X Generation
         /\ \A h \in Generation : h # g => store'[h] = store[h]
         /\ store'[g][object] = value
         /\ \A x \in Objects : x # object => store'[g][x] = store[g][x]
         /\ store[g][object] # None => store'[g][object] = store[g][object]
         /\ \/ later' = later /\ store' = store
            \/ later' = LaterWithout(g) \cup ((Stored \ {g}) \X {g}) /\ store[g][object] = None
  <1>1. store \in [Generation -> Bundle] /\ later \subseteq Generation \X Generation /\ store[g] \in Bundle
    BY DEF Types
  <1>2. CASE store[g][object] = value /\ UNCHANGED <<store, later>>
    BY <1>1, <1>2
  <1>3. CASE /\ store[g][object] = None
             /\ store' = [store EXCEPT ![g][object] = value]
             /\ later' = LaterWithout(g) \cup ((Stored \ {g}) \X {g})
    <2> DEFINE b == [store[g] EXCEPT ![object] = value]
    <2>1. b \in Bundle /\ b[object] = value /\ \A x \in Objects : x # object => b[x] = store[g][x]
      <3>1. CASE object = "data"
        BY <1>1, <3>1 DEF Bundle, Objects
      <3>2. CASE object = "provenance"
        BY <1>1, <3>2 DEF Bundle, Objects
      <3>3. CASE object = "manifest"
        BY <1>1, <3>3 DEF Bundle, Objects
      <3> QED BY <3>1, <3>2, <3>3 DEF Objects
    <2>2. store' = [store EXCEPT ![g] = b]
      BY <1>3
    <2>3. later' \subseteq Generation \X Generation
      BY <1>1, <1>3 DEF LaterWithout, Stored
    <2> HIDE DEF b
    <2> QED BY <1>1, <1>3, <2>1, <2>2, <2>3
  <1> QED BY <1>2, <1>3 DEF Put

LEMMA Appended ==
  ASSUME NEW S, NEW s \in Seq(S), NEW x \in S
  PROVE  /\ Append(s, x) \in Seq(S) /\ Len(Append(s, x)) = Len(s) + 1 /\ Len(s) \in Nat
         /\ Append(s, x)[Len(s) + 1] = x /\ Last(Append(s, x)) = x /\ Append(s, x) # <<>>
         /\ \A i \in 1 .. Len(s) : Append(s, x)[i] = s[i]
  BY DEF Last

LEMMA LastOf ==
  ASSUME NEW S, NEW s \in Seq(S)
  PROVE  /\ Len(s) \in Nat /\ (s # <<>> <=> Len(s) > 0)
         /\ s # <<>> => Len(s) \in 1 .. Len(s) /\ Last(s) = s[Len(s)] /\ Last(s) \in S
  BY DEF Last

-----------------------------------------------------------------------------
LEMMA InitPub == Init => PubInv
  <1> SUFFICES ASSUME Init PROVE PubInv
    OBVIOUS
  <1>1. Idle \in Process /\ NoPlan \in Collector /\ NoBundle \in Bundle
    BY DEF Idle, Process, Pc, NoPlan, Collector, NoBundle, Bundle
  <1>2. Types
    BY <1>1, ConstantsAssumption DEF Init, Types
  <1>3. Len(local) = 0 /\ Len(catalog) = 0 /\ \A p \in Publisher : pub[p] = Idle
    BY DEF Init
  <1>4. \A p \in Publisher : pub[p].pc = "idle" /\ pub[p].named = 0 /\ pub[p].hashed = 0 /\ pub[p].etag = 0 /\ pub[p].parent = None
    BY <1>3 DEF Idle
  <1>5. \A p \in Publisher : Reads(p) /\ Follows(p) /\ Uploads(p)
    BY <1>3, <1>4 DEF Reads, Follows, Uploads, Begun, Reading, Past, Linked, Verified, Recorded
  <1>6. LocalInv /\ CatalogInv
    BY <1>3 DEF Init, LocalInv, CatalogInv, CommittedIsPublished
  <1>7. Stored = {} /\ later = {} /\ \A g \in Generation : store[g] = NoBundle
    BY DEF Init, Stored
  <1>8. SerialInv
    BY <1>4, <1>7 DEF SerialInv, Begun, Past
  <1>9. CollectorInv
    BY <1>3 DEF Init, NoPlan, CollectorInv
  <1>10. RetryInv
    <2>1. \A n \in Document : <<n, n>> \in Generation
      BY DEF Generation
    <2> QED BY <1>7, <2>1 DEF RetryInv, NoBundle
  <1> QED BY <1>2, <1>5, <1>6, <1>8, <1>9, <1>10 DEF PubInv
-----------------------------------------------------------------------------
(* Steps of a publisher that leave the stores alone *)

LEMMA QuietPub ==
  ASSUME PubInv, NEW p \in Publisher, NEW m \in Process, pub' = [pub EXCEPT ![p] = m],
         UNCHANGED <<deployment, local, store, later, catalog, gc>>,
         receipt' \in Receipt \cup {None}, CommittedIsPublished',
         \/ m.pc = "idle"
         \/ Begun(p) /\ m.raw = pub[p].raw
         \/ m.raw = Len(local) /\ (deployment.overlap \/ \A q \in Publisher : ~Begun(q)),
         ~deployment.overlap /\ m.pc \in (Past \cup {"parent"}) \ {"reconcile", "receipt"} =>
           m.etag = Len(catalog),
         Reads(p)', Follows(p)', Uploads(p)'
  PROVE  PubInv'
  <1>1. Types /\ pub \in [Publisher -> Process] /\ pub'[p] = m /\ \A q \in Publisher : q # p => pub'[q] = pub[q]
    BY DEF PubInv, Types
  <1>2. Types'
    BY <1>1 DEF Types
  <1>3. LocalInv' /\ RetryInv'
    BY DEF PubInv, LocalInv, RetryInv, ParentOf, Appending
  <1>4. CatalogInv'
    BY DEF PubInv, CatalogInv, Named, Appending
  <1>5. \A q \in Publisher : Reads(q)' /\ Follows(q)' /\ Uploads(q)'
    <2>1. ASSUME NEW q \in Publisher, q # p PROVE Reads(q)' /\ Follows(q)' /\ Uploads(q)'
      <3>1. pub'[q] = pub[q] /\ Reads(q) /\ Follows(q) /\ Uploads(q)
        BY <1>1, <2>1 DEF PubInv
      <3>2. Named(pub[q].raw)' = Named(pub[q].raw) /\ ParentOf(Named(pub[q].raw))' = ParentOf(Named(pub[q].raw))
        BY <3>1 DEF Named, ParentOf, Appending
      <3>3. ManifestOf(q)' = ManifestOf(q) /\ PointerOf(q)' = PointerOf(q)
        BY <3>1 DEF ManifestOf, PointerOf, GenerationOf, Appending
      <3>4. Reads(q)'
        BY <3>1 DEF Reads, Begun, Reading, Appending
      <3>5. Follows(q)'
        BY <3>1, <3>2, <3>3 DEF Follows, Appending
      <3> QED BY <3>1, <3>2, <3>3, <3>4, <3>5 DEF Uploads
    <2> QED BY <2>1
  <1>6. \A n \in Nat : n <= Len(local) => Len(local) \in Nat
    BY <1>1, LastOf DEF Types
  <1>7. SerialInv'
    <2>1. SUFFICES ASSUME ~deployment.overlap PROVE SerialInv'
      BY DEF SerialInv
    <2>2. \A q, r \in Publisher : Begun(q)' /\ Begun(r)' => q = r
      BY <1>1, <2>1 DEF PubInv, SerialInv, Begun
    <2>3. \A q \in Publisher : pub'[q].pc \in (Past \cup {"parent"}) \ {"reconcile", "receipt"} =>
            pub'[q].etag = Len(catalog)
      BY <1>1, <2>1 DEF PubInv, SerialInv
    <2>4. ASSUME NEW n, InOrder(n) PROVE InOrder(n)'
      BY <1>1, <2>4 DEF InOrder, Begun
    <2> QED BY <2>1, <2>2, <2>3, <2>4 DEF PubInv, SerialInv, Stored, Appending
  <1>8. CollectorInv'
    <2>1. \A item \in gc.doomed, q \in Publisher : Begun(q)' => item[1][2] < pub'[q].raw
      BY <1>1 DEF PubInv, CollectorInv, Begun
    <2> QED BY <2>1 DEF PubInv, CollectorInv
  <1> QED BY <1>2, <1>3, <1>4, <1>5, <1>7, <1>8 DEF PubInv

\* A step that changes what p remembers, but not which document it publishes.
LEMMA ProcessFields ==
  ASSUME PubInv, NEW p \in Publisher
  PROVE  /\ pub[p] \in Process
         /\ pub[p].pc \in Pc /\ pub[p].raw \in Nat /\ pub[p].named \in Nat /\ pub[p].hashed \in Nat
         /\ pub[p].etag \in Nat /\ pub[p].parent \in Generation \cup {None}
         /\ pub[p].data \in Content \cup {None} /\ pub[p].provenance \in Document \cup {None}
         /\ Reads(p) /\ Follows(p) /\ Uploads(p)
         /\ Len(local) \in Nat /\ Len(catalog) \in Nat
         /\ receipt \in Receipt \cup {None} /\ CommittedIsPublished
         /\ ~deployment.overlap /\ pub[p].pc \in (Past \cup {"parent"}) \ {"reconcile", "receipt"} =>
              pub[p].etag = Len(catalog)
  BY LastOf DEF PubInv, Types, Process, SerialInv, CatalogInv

LEMMA ReadKeeps ==
  ASSUME PubInv, CommitsApart, NEW p \in Publisher,
         ReadManifest(p) \/ NameGeneration(p) \/ HashManifest(p) \/ HeadPointer(p)
  PROVE  PubInv'
  <1>1. /\ pub \in [Publisher -> Process] /\ pub[p] \in Process
        /\ UNCHANGED <<deployment, local, store, later, catalog, gc, receipt>>
        /\ receipt' \in Receipt \cup {None} /\ CommittedIsPublished'
    BY ProcessFields DEF PubInv, Types, CommittedIsPublished, ReadManifest, NameGeneration,
       HashManifest, HeadPointer
  <1>2. CASE ReadManifest(p)
    <2> DEFINE m == [Idle EXCEPT !.pc = "name", !.raw = Len(local)]
    <2>1. /\ m \in Process /\ m.pc = "name" /\ m.raw = Len(local) /\ m.named = 0 /\ m.hashed = 0
          /\ m.etag = 0 /\ m.parent = None
      BY ProcessFields DEF Idle, Process, Pc
    <2>2. pub' = [pub EXCEPT ![p] = m]
      BY <1>2 DEF ReadManifest
    <2>3. pub'[p] = m /\ local # <<>> /\ (deployment.overlap \/ \A q \in Publisher : ~Begun(q))
      BY <1>1, <1>2, <2>2 DEF ReadManifest, Begun
    <2> HIDE DEF m
    <2>4. Len(local) \in 1 .. Len(local)
      BY <2>3, LastOf DEF PubInv, Types
    <2>5. Reads(p)' /\ Follows(p)' /\ Uploads(p)'
      BY <1>1, <2>1, <2>3, <2>4, ProcessFields
      DEF Reads, Follows, Uploads, Begun, Reading, Past, Linked, Verified, Recorded, Appending
    <2> QED BY <1>1, <2>1, <2>2, <2>3, <2>5, QuietPub DEF Past
  <1>3. CASE NameGeneration(p)
    <2> DEFINE m == [pub[p] EXCEPT !.pc = "hash", !.named = IF Appending THEN Len(local) ELSE 0]
    <2>1. /\ m \in Process /\ m.pc = "hash" /\ m.raw = pub[p].raw /\ m.hashed = pub[p].hashed
          /\ m.etag = pub[p].etag /\ m.parent = pub[p].parent
          /\ m.named = IF Appending THEN Len(local) ELSE 0
      BY <1>1, ProcessFields DEF Process, Pc
    <2>2. pub' = [pub EXCEPT ![p] = m] /\ pub[p].pc = "name"
      BY <1>1, <1>3 DEF NameGeneration, Process
    <2>3. pub'[p] = m
      BY <1>1, <2>2
    <2> HIDE DEF m
    <2>4. Reads(p)' /\ Follows(p)' /\ Uploads(p)'
      BY <1>1, <2>1, <2>2, <2>3, ProcessFields
      DEF Reads, Follows, Uploads, Begun, Reading, Past, Linked, Verified, Recorded, Appending
    <2> QED BY <1>1, <2>1, <2>2, <2>4, QuietPub DEF Past, Begun
  <1>4. CASE HashManifest(p)
    <2> DEFINE m == [pub[p] EXCEPT !.pc = "head", !.hashed = Len(local)]
    <2>1. /\ m \in Process /\ m.pc = "head" /\ m.raw = pub[p].raw /\ m.hashed = Len(local)
          /\ m.etag = pub[p].etag /\ m.parent = pub[p].parent /\ m.named = pub[p].named
      BY <1>1, ProcessFields DEF Process, Pc
    <2>2. pub' = [pub EXCEPT ![p] = m] /\ pub[p].pc = "hash"
      BY <1>1, <1>4 DEF HashManifest, Process
    <2>3. pub'[p] = m
      BY <1>1, <2>2
    <2> HIDE DEF m
    <2>4. Reads(p)' /\ Follows(p)' /\ Uploads(p)'
      BY <1>1, <2>1, <2>2, <2>3, ProcessFields
      DEF Reads, Follows, Uploads, Begun, Reading, Past, Linked, Verified, Recorded, Appending
    <2> QED BY <1>1, <2>1, <2>2, <2>4, QuietPub DEF Past, Begun
  <1>5. CASE HeadPointer(p)
    <2> DEFINE to == IF Appending /\ catalog # <<>> THEN "parent" ELSE "link"
               m == [pub[p] EXCEPT !.etag = Len(catalog), !.pc = to]
    <2>1. /\ m \in Process /\ m.pc = to /\ m.raw = pub[p].raw /\ m.hashed = pub[p].hashed
          /\ m.etag = Len(catalog) /\ m.parent = pub[p].parent /\ m.named = pub[p].named
      <3>1. to \in Pc
        BY DEF Pc, Past
      <3>2. pub[p] \in Process /\ Len(catalog) \in Nat
        BY <1>1, ProcessFields
      <3> HIDE DEF to
      <3> QED BY <3>1, <3>2 DEF Process
    <2>2. pub' = [pub EXCEPT ![p] = m] /\ pub[p].pc = "head"
      BY <1>1, <1>5 DEF HeadPointer, Process
    <2>3. pub'[p] = m
      BY <1>1, <2>2
    <2> HIDE DEF m
    <2>4. Reads(p)' /\ Uploads(p)'
      BY <1>1, <2>1, <2>2, <2>3, ProcessFields
      DEF Reads, Uploads, Begun, Reading, Past, Linked, Verified, Recorded, Appending
    <2>5. catalog # <<>> => Len(catalog) > 0
      BY LastOf DEF PubInv, Types
    <2>6. pub[p].parent = None
      BY <2>2, ProcessFields DEF Follows
    <2>7. Follows(p)'
      BY <1>1, <2>1, <2>2, <2>3, <2>5, <2>6, ProcessFields
      DEF Follows, Past, Linked, Named, ParentOf, Appending
    <2> QED BY <1>1, <2>1, <2>2, <2>4, <2>7, QuietPub DEF Past, Begun
  <1> QED BY <1>2, <1>3, <1>4, <1>5

LEMMA LinkKeeps ==
  ASSUME PubInv, CommitsApart, NEW p \in Publisher, ReadParent(p) \/ LinkParts(p) \/ LinkManifest(p)
  PROVE  PubInv'
  <1>1. /\ pub \in [Publisher -> Process] /\ pub[p] \in Process
        /\ UNCHANGED <<deployment, local, store, later, catalog, gc, receipt>>
        /\ receipt' \in Receipt \cup {None} /\ CommittedIsPublished'
    BY ProcessFields DEF PubInv, Types, CommittedIsPublished, ReadParent, LinkParts, LinkManifest
  <1>2. CASE ReadParent(p)
    <2> DEFINE latest == Last(catalog).generation
               parent == IF latest = GenerationOf(p) THEN store[latest].manifest.parent ELSE latest
               m == [pub[p] EXCEPT !.pc = "link", !.parent = parent]
    <2>1. pub[p].pc = "parent" /\ catalog # <<>> /\ Appending /\ pub' = [pub EXCEPT ![p] = m]
      <3>1. pub' = [pub EXCEPT ![p] = m] /\ pub[p].pc = "parent"
        BY <1>1, <1>2 DEF ReadParent, Process
      <3> QED BY <3>1, ProcessFields, LastOf DEF Follows, PubInv, Types
    <2>2. Last(catalog) \in Pointer /\ store[latest].manifest = Last(catalog).manifest
      BY <2>1, LastOf DEF PubInv, Types, CatalogInv
    <2>3. GenerationOf(p) = Named(pub[p].raw)
      BY <2>1, ReadIsDocument DEF Begun
    <2>4. parent = ParentOf(Named(pub[p].raw)) /\ parent \in Generation \cup {None}
      BY <2>1, <2>2, <2>3 DEF ParentOf, Pointer, Manifest
    <2> HIDE DEF parent
    <2>5. /\ m \in Process /\ m.pc = "link" /\ m.raw = pub[p].raw /\ m.hashed = pub[p].hashed
          /\ m.etag = pub[p].etag /\ m.parent = parent /\ m.named = pub[p].named
      BY <1>1, <2>4, ProcessFields DEF Process, Pc, Past
    <2>6. pub'[p] = m
      BY <1>1, <2>1
    <2> HIDE DEF m
    <2>7. Reads(p)' /\ Uploads(p)'
      BY <1>1, <2>1, <2>5, <2>6, ProcessFields
      DEF Reads, Uploads, Begun, Reading, Past, Linked, Verified, Recorded, Appending
    <2>8. ParentOf(Named(pub[p].raw))' = parent
      BY <1>1, <2>4, <2>5, <2>6 DEF ParentOf, Named, Appending
    <2>9. Follows(p)'
      BY <1>1, <2>1, <2>4, <2>5, <2>6, <2>8, ProcessFields
      DEF Follows, Past, Linked, Named, ParentOf, Appending
    <2> QED BY <1>1, <2>1, <2>5, <2>7, <2>9, QuietPub, ProcessFields DEF Past, Begun
  <1>3. CASE LinkParts(p)
    <2> DEFINE data == IF Appending THEN local[pub[p].raw] ELSE Last(local)
               m == [pub[p] EXCEPT !.pc = "linkmanifest", !.data = data]
    <2>1. pub[p].pc = "link" /\ Begun(p) /\ pub' = [pub EXCEPT ![p] = m]
      BY <1>1, <1>3 DEF LinkParts, Process, Begun
    <2>2. data \in Content /\ (Len(local) = pub[p].raw => data = local[pub[p].raw])
      <3>1. local \in Seq(Content) /\ local # <<>>
        BY <2>1, ReadIsDocument DEF PubInv, Types
      <3> QED BY <2>1, <3>1, ReadIsDocument, LastOf
    <2> HIDE DEF data
    <2>3. /\ m \in Process /\ m.pc = "linkmanifest" /\ m.raw = pub[p].raw /\ m.hashed = pub[p].hashed
          /\ m.etag = pub[p].etag /\ m.parent = pub[p].parent /\ m.named = pub[p].named /\ m.data = data
      BY <1>1, <2>2, ProcessFields DEF Process, Pc, Past
    <2>4. pub'[p] = m
      BY <1>1, <2>1
    <2> HIDE DEF m
    <2>5. Reads(p)' /\ Uploads(p)'
      BY <1>1, <2>1, <2>2, <2>3, <2>4, ProcessFields
      DEF Reads, Uploads, Begun, Reading, Past, Linked, Verified, Recorded, Appending
    <2>6. Follows(p)'
      BY <1>1, <2>1, <2>3, <2>4, ProcessFields
      DEF Follows, Past, Linked, Named, ParentOf, Appending
    <2> QED BY <1>1, <2>1, <2>3, <2>5, <2>6, QuietPub, ProcessFields DEF Past, Begun
  <1>4. CASE LinkManifest(p)
    <2> DEFINE m == [pub[p] EXCEPT !.pc = "data", !.provenance = Len(local)]
    <2>1. pub[p].pc = "linkmanifest" /\ Begun(p) /\ pub' = [pub EXCEPT ![p] = m] /\ Len(local) = pub[p].raw
      <3>1. pub' = [pub EXCEPT ![p] = m] /\ pub[p].pc = "linkmanifest" /\ Len(local) = pub[p].hashed
        BY <1>1, <1>4 DEF LinkManifest, Process
      <3> QED BY <3>1, ProcessFields DEF Reads, Begun
    <2>2. Len(local) \in Document /\ pub[p].data = local[pub[p].raw]
      BY <2>1, ReadIsDocument, ProcessFields DEF Reads
    <2>3. /\ m \in Process /\ m.pc = "data" /\ m.raw = pub[p].raw /\ m.hashed = pub[p].hashed
          /\ m.etag = pub[p].etag /\ m.parent = pub[p].parent /\ m.named = pub[p].named
          /\ m.data = pub[p].data /\ m.provenance = Len(local)
      BY <1>1, <2>2, ProcessFields DEF Process, Pc, Past
    <2>4. pub'[p] = m
      BY <1>1, <2>1
    <2> HIDE DEF m
    <2>5. Reads(p)' /\ Uploads(p)'
      BY <1>1, <2>1, <2>2, <2>3, <2>4, ProcessFields
      DEF Reads, Uploads, Begun, Reading, Past, Linked, Verified, Recorded, Appending
    <2>6. \A i \in 1 .. pub[p].etag : catalog[i].manifest.document <= pub[p].raw
      <3>1. \A i \in 1 .. Len(catalog) : catalog[i].manifest.document \in 1 .. Len(local)
        BY DEF PubInv, CatalogInv
      <3>2. pub[p].etag \in Nat /\ pub[p].etag <= Len(catalog) /\ Len(catalog) \in Nat /\ Len(local) \in Nat
        BY ProcessFields DEF Follows
      <3> QED BY <2>1, <3>1, <3>2
    <2>7. Follows(p)'
      BY <1>1, <2>1, <2>3, <2>4, <2>6, ProcessFields
      DEF Follows, Past, Linked, Named, ParentOf, Appending
    <2> QED BY <1>1, <2>1, <2>3, <2>5, <2>7, QuietPub, ProcessFields DEF Past, Begun
  <1> QED BY <1>2, <1>3, <1>4

\* A publisher that has its snapshot goes on to the step `to`.
LEMMA GoKeeps ==
  ASSUME PubInv, NEW p \in Publisher, NEW to \in Linked, pub[p].pc \in Linked,
         pub' = [pub EXCEPT ![p].pc = to],
         UNCHANGED <<deployment, local, store, later, catalog, gc, receipt>>,
         to \in {"compare", "swap", "reconcile"} => pub[p].etag > 0,
         to = "swap" /\ pub[p].etag = Len(catalog) => Last(catalog) # PointerOf(p),
         to = "receipt" => \E i \in 1 .. Len(catalog) : catalog[i].generation = Named(pub[p].raw),
         to \notin {"reconcile", "receipt"} => pub[p].pc \notin {"reconcile", "receipt"},
         to \in Verified => /\ store[Named(pub[p].raw)].data = pub[p].data
                           /\ store[Named(pub[p].raw)].provenance = pub[p].provenance,
         to \in Recorded => store[Named(pub[p].raw)].manifest = ManifestOf(p)
  PROVE  PubInv'
  <1> DEFINE m == [pub[p] EXCEPT !.pc = to]
  <1>1. /\ pub \in [Publisher -> Process] /\ pub[p] \in Process
        /\ receipt' \in Receipt \cup {None} /\ CommittedIsPublished'
    BY ProcessFields DEF PubInv, Types, CommittedIsPublished
  <1>2. /\ m \in Process /\ m.pc = to /\ m.raw = pub[p].raw /\ m.hashed = pub[p].hashed
        /\ m.etag = pub[p].etag /\ m.parent = pub[p].parent /\ m.named = pub[p].named
        /\ m.data = pub[p].data /\ m.provenance = pub[p].provenance
    BY <1>1 DEF Process, Pc, Linked
  <1>3. pub' = [pub EXCEPT ![p] = m]
    BY <1>1 DEF Process
  <1>4. pub'[p] = m /\ Begun(p)
    BY <1>1, <1>3 DEF Begun, Linked, Past
  <1> HIDE DEF m
  <1>5. ManifestOf(p)' = ManifestOf(p) /\ PointerOf(p)' = PointerOf(p)
    BY <1>2, <1>4 DEF ManifestOf, PointerOf, GenerationOf, Appending
  <1>6. Reads(p)'
    BY <1>1, <1>2, <1>4, ProcessFields DEF Reads, Begun, Reading, Past, Linked, Appending
  <1>7. Uploads(p)'
    <2>1. Uploads(p)
      BY ProcessFields
    <2>2. /\ pub'[p].raw = pub[p].raw /\ pub'[p].named = pub[p].named /\ pub'[p].hashed = pub[p].hashed
          /\ pub'[p].data = pub[p].data /\ pub'[p].provenance = pub[p].provenance /\ pub'[p].pc = to
      BY <1>2, <1>4
    <2> QED BY <1>5, <2>1, <2>2 DEF Uploads, Named, Appending
  <1>8. Follows(p)'
    <2>1. pub[p].pc \in Past /\ to \in Past /\ to # "parent" /\ to \notin {"name", "hash", "head"}
      BY DEF Linked, Past
    <2>2. Follows(p)
      BY ProcessFields
    <2>3. Named(pub[p].raw)' = Named(pub[p].raw) /\ ParentOf(Named(pub[p].raw))' = ParentOf(Named(pub[p].raw))
      BY <1>2, <1>4 DEF Named, ParentOf, Appending
    <2>4. Appending' = Appending
      BY DEF Appending
    <2> QED BY <1>2, <1>4, <1>5, <2>1, <2>2, <2>3, <2>4 DEF Follows
  <1>9. m.pc \in (Past \cup {"parent"}) \ {"reconcile", "receipt"} /\ ~deployment.overlap => m.etag = Len(catalog)
    <2>1. m.pc \in (Past \cup {"parent"}) \ {"reconcile", "receipt"} =>
            pub[p].pc \in (Past \cup {"parent"}) \ {"reconcile", "receipt"}
      BY <1>2 DEF Linked
    <2> QED BY <1>2, <2>1, ProcessFields
  <1> QED BY <1>1, <1>2, <1>3, <1>4, <1>6, <1>7, <1>8, <1>9, QuietPub

LEMMA CheckKeeps ==
  ASSUME PubInv, NEW p \in Publisher,
         \/ VerifyUploaded(p) \/ VerifyManifest(p) \/ ComparePointer(p) \/ Reconcile(p)
         \/ SwapPointer(p) /\ catalog' = catalog
  PROVE  PubInv'
  <1>1. Uploads(p) /\ Follows(p) /\ pub[p].etag \in Nat /\ Len(catalog) \in Nat
    BY ProcessFields
  <1>2. CASE VerifyUploaded(p)
    <2>1. pub[p].pc = "verify" /\ pub' = [pub EXCEPT ![p].pc = "manifest"]
      BY <1>2 DEF VerifyUploaded, Step
    <2>2. GenerationOf(p) = Named(pub[p].raw)
      BY <2>1, ReadIsDocument DEF Begun
    <2> QED BY <1>2, <2>1, <2>2, GoKeeps DEF VerifyUploaded, Past, Linked, Verified, Recorded
  <1>3. CASE VerifyManifest(p)
    <2> DEFINE to == IF pub[p].etag = 0 THEN "create" ELSE "compare"
    <2>1. pub[p].pc = "verifymanifest" /\ pub' = [pub EXCEPT ![p].pc = to]
      BY <1>3 DEF VerifyManifest, Step
    <2>2. to = "compare" => pub[p].etag > 0
      BY <1>1
    <2>3. to \in {"create", "compare"}
      OBVIOUS
    <2> HIDE DEF to
    <2> QED BY <1>1, <1>3, <2>1, <2>2, <2>3, GoKeeps DEF VerifyManifest, Uploads, Past, Linked, Verified, Recorded
  <1>4. CASE ComparePointer(p)
    <2> DEFINE to == IF Last(catalog) = PointerOf(p) THEN "receipt" ELSE "swap"
    <2>1. pub[p].pc = "compare" /\ pub' = [pub EXCEPT ![p].pc = to] /\ pub[p].etag > 0
      BY <1>1, <1>4 DEF ComparePointer, Step, Follows
    <2>2. /\ to = "swap" => Last(catalog) # PointerOf(p)
          /\ to = "receipt" => \E i \in 1 .. Len(catalog) : catalog[i].generation = Named(pub[p].raw)
      <3>1. pub[p].pc \in Linked
        BY <2>1 DEF Linked, Past
      <3>2. catalog # <<>> /\ Last(catalog) = catalog[Len(catalog)] /\ Len(catalog) \in 1 .. Len(catalog)
        BY <1>1, <2>1, LastOf DEF Follows, PubInv, Types
      <3> QED BY <3>1, <3>2, LinkedManifest
    <2>3. to \in {"receipt", "swap"}
      OBVIOUS
    <2> HIDE DEF to
    <2> QED BY <1>1, <1>4, <2>1, <2>2, <2>3, GoKeeps DEF ComparePointer, Uploads, Past, Linked, Verified, Recorded
  <1>5. CASE Reconcile(p)
    <2>1. pub[p].pc = "reconcile" /\ pub' = [pub EXCEPT ![p].pc = "receipt"] /\ pub[p].etag > 0
      BY <1>1, <1>5 DEF Reconcile, Step, Follows
    <2>2. \E i \in 1 .. Len(catalog) : catalog[i].generation = Named(pub[p].raw)
      <3>1. pub[p].pc \in Linked
        BY <2>1 DEF Linked, Past
      <3>2. catalog # <<>> /\ Last(catalog) = catalog[Len(catalog)] /\ Len(catalog) \in 1 .. Len(catalog)
        BY <1>1, <2>1, LastOf DEF Follows, PubInv, Types
      <3>3. Last(catalog) = PointerOf(p)
        BY <1>5 DEF Reconcile
      <3>4. PointerOf(p).generation = Named(pub[p].raw)
        BY <3>1, LinkedManifest
      <3> QED BY <3>2, <3>3, <3>4
    <2> QED BY <1>1, <1>5, <2>1, <2>2, GoKeeps DEF Reconcile, Uploads, Past, Linked, Verified, Recorded
  <1>6. CASE SwapPointer(p) /\ catalog' = catalog
    <2>1. Append(catalog, PointerOf(p)) # catalog
      <3>1. pub[p].pc = "swap" /\ catalog \in Seq(Pointer)
        BY <1>6 DEF SwapPointer, Step, PubInv, Types
      <3>2. PointerOf(p) \in Pointer
        BY <3>1, LinkedManifest DEF Linked, Past
      <3>3. Len(Append(catalog, PointerOf(p))) = Len(catalog) + 1
        BY <3>1, <3>2, Appended
      <3> QED BY <1>1, <3>3
    <2>2. /\ pub[p].pc = "swap" /\ pub' = [pub EXCEPT ![p].pc = "reconcile"]
          /\ UNCHANGED <<deployment, local, store, later, catalog, receipt, gc>>
      BY <1>6, <2>1 DEF SwapPointer, Step
    <2> QED BY <1>1, <2>2, GoKeeps DEF Uploads, Follows, Past, Linked, Verified, Recorded
  <1> QED BY <1>2, <1>3, <1>4, <1>5, <1>6

\* A publication that ends, in whatever way: the receipt tells of what was committed.
LEMMA EndKeeps ==
  ASSUME PubInv, NEW p \in Publisher, WriteReceipt(p) \/ PublicationFails(p) \/ Die(p)
  PROVE  PubInv'
  <1>1. /\ pub' = [pub EXCEPT ![p] = Idle] /\ Begun(p) /\ pub \in [Publisher -> Process]
        /\ UNCHANGED <<deployment, local, store, later, catalog, gc>>
    BY DEF WriteReceipt, PublicationFails, Die, Begun, PubInv, Types
  <1>2. /\ Idle \in Process /\ Idle.pc = "idle" /\ Idle.named = 0 /\ Idle.hashed = 0
        /\ Idle.etag = 0 /\ Idle.parent = None
    BY DEF Idle, Process, Pc
  <1>3. receipt' \in Receipt \cup {None} /\ CommittedIsPublished'
    <2>1. CASE WriteReceipt(p)
      <3>1. /\ pub[p].pc = "receipt" /\ receipt' = [status |-> "committed", generation |-> GenerationOf(p)]
            /\ GenerationOf(p) = Named(pub[p].raw) /\ Named(pub[p].raw) \in Generation
        BY <1>1, <2>1, ReadIsDocument DEF WriteReceipt
      <3>2. DOMAIN catalog = 1 .. Len(catalog)
        BY DEF PubInv, Types
      <3> QED BY <1>1, <3>1, <3>2, ProcessFields DEF Follows, Receipt, CommittedIsPublished
    <2>2. CASE PublicationFails(p)
      BY <1>1, <2>2 DEF PublicationFails, Receipt, CommittedIsPublished
    <2>3. CASE Die(p)
      BY <1>1, <2>3, ProcessFields DEF Die, CommittedIsPublished
    <2> QED BY <2>1, <2>2, <2>3
  <1>4. pub'[p] = Idle
    BY <1>1
  <1>5. Reads(p)' /\ Follows(p)' /\ Uploads(p)'
    BY <1>1, <1>2, <1>4, ProcessFields
    DEF Reads, Follows, Uploads, Begun, Reading, Past, Linked, Verified, Recorded, Appending
  <1> QED BY <1>1, <1>2, <1>3, <1>5, QuietPub DEF Past
-----------------------------------------------------------------------------
(* A run writes the local manifest *)

LEMMA CommitKeeps ==
  ASSUME PubInv, CommitsApart, Commit
  PROVE  PubInv'
  <1>1. PICK c \in IF Appending THEN {Len(local) + 1} ELSE Contents : local' = Append(local, c)
    BY DEF Commit
  <1>2. /\ Len(local) \in Nat /\ Len(local) < MaxCommits /\ local \in Seq(Content)
        /\ UNCHANGED <<deployment, store, later, catalog, receipt, pub, gc>> /\ Appending' = Appending
    BY LastOf DEF Commit, PubInv, Types, Appending
  <1>3. c \in Content
    BY <1>1, <1>2, ConstantsAssumption DEF Content, Document
  <1>4. /\ local' \in Seq(Content) /\ Len(local') = Len(local) + 1 /\ local'[Len(local) + 1] = c
        /\ \A n \in 1 .. Len(local) : local'[n] = local[n]
    BY <1>1, <1>2, <1>3, Appended
  <1>5. \A n \in 1 .. Len(local) : Named(n)' = Named(n)
    BY <1>2, <1>4 DEF Named
  <1>6. \A g : ParentOf(g)' = ParentOf(g)
    BY <1>2 DEF ParentOf
  <1>7. Types'
    BY <1>2, <1>4, ConstantsAssumption DEF PubInv, Types
  <1>8. LocalInv'
    BY <1>1, <1>2, <1>4 DEF PubInv, LocalInv
  <1>9. ASSUME NEW p \in Publisher PROVE Reads(p)' /\ Follows(p)' /\ Uploads(p)'
    <2>1. ~Reading(p)
      BY DEF Commit
    <2>2. Begun(p) => pub[p].raw \in 1 .. Len(local) /\ Named(pub[p].raw)' = Named(pub[p].raw)
      BY <1>2, <1>5 DEF PubInv, Reads
    <2>3. GenerationOf(p)' = GenerationOf(p) \/ pub[p].pc \in {"idle", "name"}
      BY <1>2, <1>4, <2>2 DEF GenerationOf, Begun
    <2>4. ManifestOf(p)' = ManifestOf(p)
      BY <1>2 DEF ManifestOf
    <2>5. pub[p].pc = "swap" => PointerOf(p)' = PointerOf(p)
      BY <2>3, <2>4 DEF PointerOf
    <2>6. Reads(p)'
      BY <1>2, <1>4, <2>1, <2>2, ProcessFields DEF Reads, Begun, Reading, Linked, Past
    <2>7. Follows(p)'
      BY <1>2, <1>6, <2>2, <2>5, ProcessFields DEF Follows, Begun, Linked, Past
    <2>8. Uploads(p)'
      BY <1>2, <2>2, <2>4, ProcessFields DEF Uploads, Begun, Linked, Past, Verified, Recorded
    <2> QED BY <2>6, <2>7, <2>8
  <1>10. CatalogInv'
    BY <1>2, <1>4, <1>5 DEF PubInv, CatalogInv, CommittedIsPublished
  <1>11. \A n \in Nat : InOrder(n) => InOrder(n)'
    BY <1>2, <1>4 DEF InOrder, Begun
  <1>12. Stored' = Stored /\ \A g \in Generation : g[2] \in Nat
    BY <1>2, ConstantsAssumption DEF Stored, Generation, Document
  <1>13. SerialInv'
    <2>1. SUFFICES ASSUME ~deployment.overlap PROVE SerialInv'
      BY <1>2 DEF SerialInv
    <2>2. Appending => /\ \A g \in Stored : g[1] = g[2] /\ InOrder(g[2])'
                       /\ \A pair \in later : pair[1][2] < pair[2][2] /\ InOrder(pair[2][2])'
      BY <1>11, <1>12, <2>1 DEF PubInv, SerialInv, Types, Stored
    <2> QED BY <1>2, <1>12, <2>1, <2>2 DEF PubInv, SerialInv, Begun
  <1>14. CollectorInv'
    <2>1. \A item \in gc.doomed : item[1][2] \in Nat
      BY <1>12 DEF PubInv, Types, Collector
    <2> QED BY <1>2, <1>4, <2>1 DEF PubInv, CollectorInv, Begun
  <1>15. RetryInv'
    <2>1. SUFFICES ASSUME ~deployment.overlap, Appending PROVE RetryInv'
      BY <1>2 DEF RetryInv
    <2>2. \A n \in Document : n = Len(local') => store[<<n, n>>].manifest = None
      <3>1. SUFFICES ASSUME Len(local') \in Document, store[<<Len(local'), Len(local')>>].manifest # None
                     PROVE  FALSE
        OBVIOUS
      <3>2. <<Len(local'), Len(local')>> \in Stored
        BY <3>1 DEF Stored, Generation, NoBundle
      <3> QED BY <1>2, <1>4, <2>1, <3>2 DEF PubInv, SerialInv, InOrder
    <2> QED BY <1>2, <2>1, <2>2 DEF PubInv, RetryInv
  <1> QED BY <1>7, <1>8, <1>9, <1>10, <1>13, <1>14, <1>15 DEF PubInv

-----------------------------------------------------------------------------
(* A publisher uploads *)

LEMMA UploadKeeps ==
  ASSUME PubInv, NEW p \in Publisher, NEW object \in Objects, NEW value, NEW to \in Linked,
         pub[p].pc \in {"data", "provenance", "manifest"}, Put(Named(pub[p].raw), object, value),
         pub' = [pub EXCEPT ![p].pc = to], UNCHANGED <<deployment, local, catalog, receipt, gc>>,
         object = "data" => value = pub[p].data,
         object = "provenance" => value = pub[p].provenance,
         object = "manifest" => value = ManifestOf(p) /\ pub[p].pc = "manifest" /\ to = "verifymanifest",
         object # "manifest" => to \in {"provenance", "verify"}
  PROVE  PubInv'
  <1> DEFINE m == [pub[p] EXCEPT !.pc = to]
             h == Named(pub[p].raw)
  <1>1. PICK g \in Generation : g = h
    BY ReadIsDocument DEF Begun
  <1>2. pub[p].pc \in Linked /\ Begun(p) /\ to \in {"provenance", "verify", "verifymanifest"}
    BY DEF Begun, Linked, Past, Objects
  <1>3. pub \in [Publisher -> Process] /\ pub[p] \in Process /\ Types
    BY ProcessFields DEF PubInv, Types
  <1>4. /\ m \in Process /\ m.pc = to /\ m.raw = pub[p].raw /\ m.hashed = pub[p].hashed
        /\ m.etag = pub[p].etag /\ m.parent = pub[p].parent /\ m.named = pub[p].named
        /\ m.data = pub[p].data /\ m.provenance = pub[p].provenance
    BY <1>3 DEF Process, Pc, Linked
  <1>5. pub'[p] = m /\ \A q \in Publisher : q # p => pub'[q] = pub[q]
    BY <1>3 DEF Process
  <1>6. pub' \in [Publisher -> Process]
    BY <1>3, <1>4 DEF Process
  <1> HIDE DEF m, h
  <1>7. /\ object = "data" => value \in Content
        /\ object = "provenance" => value \in Document
        /\ object = "manifest" => value \in Manifest
    BY <1>2, LinkedManifest
  <1>8. Put(g, object, value)
    BY <1>1 DEF h
  <1>9. /\ store' \in [Generation -> Bundle] /\ later' \subseteq Generation \X Generation
        /\ store'[g][object] = value
        /\ \A x \in Objects : x # object => store'[g][x] = store[g][x]
        /\ \A f \in Generation : f # g => store'[f] = store[f]
    BY <1>3, <1>7, <1>8, PutStep
  <1>10. \A f \in Generation, x \in Objects : store[f][x] # None => store'[f][x] = store[f][x]
    BY <1>3, <1>7, <1>8, <1>9, PutStep
  <1>11. later' \subseteq later \cup ((Stored \ {g}) \X {g}) /\ Stored' \subseteq Stored \cup {g}
    <2>1. later' \subseteq later \cup ((Stored \ {g}) \X {g})
      BY <1>3, <1>7, <1>8, PutStep DEF LaterWithout
    <2> QED BY <1>9, <2>1 DEF Stored
  <1>12. Appending' = Appending /\ \A n : Named(n)' = Named(n) /\ \A f : ParentOf(f)' = ParentOf(f)
    BY DEF Appending, Named, ParentOf
  <1>13. Types' /\ LocalInv'
    BY <1>6, <1>9, <1>12 DEF PubInv, Types, LocalInv
  <1>14. \A q \in Publisher : /\ pub'[q].raw = pub[q].raw /\ (Begun(q)' <=> Begun(q))
                              /\ ManifestOf(q)' = ManifestOf(q) /\ PointerOf(q)' = PointerOf(q)
    BY <1>2, <1>4, <1>5, <1>12 DEF Begun, ManifestOf, PointerOf, GenerationOf
  <1>15. ASSUME NEW q \in Publisher PROVE Reads(q)' /\ Follows(q)' /\ Uploads(q)'
    <2>1. CASE q = p
      <3>1. Reads(p)'
        BY <1>2, <1>4, <1>5, <1>12, ProcessFields DEF Reads, Begun, Reading, Past, Linked
      <3>2. Follows(p)'
        BY <1>2, <1>4, <1>5, <1>12, ProcessFields DEF Follows, Past, Linked
      <3>3. Uploads(p)'
        <4>1. SUFFICES ASSUME object = "manifest" PROVE Uploads(p)'
          BY <1>4, <1>5 DEF Uploads, Verified, Recorded, Linked, Past
        <4>2. store[g].data = pub[p].data /\ store[g].provenance = pub[p].provenance
          BY <1>1, <4>1, ProcessFields DEF Uploads, Verified, Linked, Past, h
        <4>3. store'[g].data = pub[p].data /\ store'[g].provenance = pub[p].provenance
          BY <1>9, <4>1, <4>2 DEF Objects
        <4>4. store'[g].manifest = ManifestOf(p)
          BY <1>9, <4>1
        <4>5. Named(pub[p].raw)' = g
          BY <1>1, <1>12, <1>14 DEF h
        <4> QED BY <1>4, <1>5, <1>14, <4>3, <4>4, <4>5 DEF Uploads
      <3> QED BY <2>1, <3>1, <3>2, <3>3
    <2>2. CASE q # p
      <3>1. pub'[q] = pub[q] /\ Reads(q) /\ Follows(q) /\ Uploads(q)
        BY <1>5, <2>2, ProcessFields
      <3>2. Reads(q)'
        BY <1>12, <3>1 DEF Reads, Begun, Reading
      <3>3. Follows(q)'
        BY <1>12, <1>14, <3>1 DEF Follows
      <3>4. Uploads(q)'
        <4>1. SUFFICES ASSUME pub[q].pc \in Verified PROVE Uploads(q)'
          BY <3>1 DEF Uploads, Recorded
        <4>2. /\ pub[q].data # None /\ pub[q].provenance # None /\ ManifestOf(q) # None
              /\ Named(pub[q].raw) \in Generation
          BY <4>1, LinkedManifest, ReadIsDocument, ConstantsAssumption DEF Verified, Linked, Past, Begun
        <4>3. Named(pub[q].raw)' = Named(pub[q].raw)
          BY <1>12, <1>14
        <4> QED BY <1>10, <1>14, <3>1, <4>1, <4>2, <4>3 DEF Uploads, Objects
      <3> QED BY <3>2, <3>3, <3>4
    <2> QED BY <2>1, <2>2
  <1>16. CatalogInv'
    <2>1. \A i \in 1 .. Len(catalog) :
             LET named == catalog[i].manifest IN
             /\ named.document \in 1 .. Len(local)
             /\ catalog[i].generation = Named(named.document)'
             /\ named.data = local[named.document] /\ named.provenance = named.document
             /\ ~Appending => named.parent = None
      BY <1>12 DEF PubInv, CatalogInv
    <2>2. ASSUME catalog # <<>>
          PROVE  LET latest == Last(catalog)
                     there == store'[latest.generation]
                 IN  /\ there.data = latest.manifest.data /\ there.provenance = latest.manifest.provenance
                     /\ there.manifest = latest.manifest
      <3> DEFINE latest == Last(catalog)
      <3>1. latest \in Pointer
        BY <2>2, LastOf DEF PubInv, Types
      <3>2. /\ latest.generation \in Generation /\ latest.manifest \in Manifest
            /\ latest.manifest.data \in Content /\ latest.manifest.provenance \in Document
        BY <3>1 DEF Pointer, Manifest
      <3>3. /\ store[latest.generation].data = latest.manifest.data
            /\ store[latest.generation].provenance = latest.manifest.provenance
            /\ store[latest.generation].manifest = latest.manifest
        BY <2>2 DEF PubInv, CatalogInv
      <3> HIDE DEF latest
      <3>4. \A x \in Objects : store[latest.generation][x] # None
        BY <3>2, <3>3, ConstantsAssumption DEF Objects
      <3> QED BY <1>10, <3>2, <3>3, <3>4 DEF Objects, latest
    <2> QED BY <1>12, <2>1, <2>2 DEF PubInv, CatalogInv, CommittedIsPublished
  <1>17. \A n : InOrder(n)' <=> InOrder(n)
    BY <1>14 DEF InOrder
  <1>18. SerialInv'
    <2>1. SUFFICES ASSUME ~deployment.overlap PROVE SerialInv'
      BY DEF SerialInv
    <2>2. \A q, r \in Publisher : Begun(q) /\ Begun(r) => q = r
      BY <2>1 DEF PubInv, SerialInv
    <2>3. \A q \in Publisher : pub'[q].pc \in (Past \cup {"parent"}) \ {"reconcile", "receipt"} =>
            pub'[q].etag = Len(catalog)
      BY <1>2, <1>4, <1>5, <2>1 DEF PubInv, SerialInv, Past
    <2>4. ASSUME Appending
          PROVE  /\ \A f \in Stored' : f[1] = f[2] /\ InOrder(f[2])
                 /\ \A pair \in later' : pair[1][2] < pair[2][2] /\ InOrder(pair[2][2])
      <3>1. g = <<pub[p].raw, pub[p].raw>> /\ pub[p].raw \in 1 .. Len(local)
        BY <1>1, <1>2, <2>4, ReadIsDocument DEF h
      <3>2. InOrder(pub[p].raw)
        BY <1>2, <2>2, <3>1, ReadIsDocument DEF InOrder
      <3>3. /\ \A f \in Stored : f[1] = f[2] /\ InOrder(f[2])
            /\ \A pair \in later : pair[1][2] < pair[2][2] /\ InOrder(pair[2][2])
        BY <2>1, <2>4 DEF PubInv, SerialInv
      <3>4. ASSUME NEW f \in Stored, f # g PROVE f[2] < pub[p].raw
        <4>1. f[2] \in Nat /\ f = <<f[1], f[2]>>
          BY ConstantsAssumption DEF Stored, Generation, Document
        <4>2. f[1] = f[2] /\ f[2] <= pub[p].raw
          BY <1>2, <3>3 DEF InOrder
        <4> QED BY <3>1, <3>4, <4>1, <4>2
      <3> QED BY <1>11, <3>1, <3>2, <3>3, <3>4
    <2> QED BY <1>12, <1>14, <1>17, <2>1, <2>2, <2>3, <2>4 DEF SerialInv
  <1>19. CollectorInv'
    BY <1>14 DEF PubInv, CollectorInv
  <1>20. RetryInv'
    <2>1. SUFFICES ASSUME ~deployment.overlap, Appending PROVE RetryInv'
      BY DEF RetryInv, Appending
    <2>2. /\ g = <<pub[p].raw, pub[p].raw>> /\ pub[p].raw \in Document
          /\ local[pub[p].raw] = pub[p].raw
      <3>1. pub[p].raw \in 1 .. Len(local) /\ g = <<pub[p].raw, pub[p].raw>> /\ pub[p].raw \in Document
        BY <1>1, <1>2, <2>1, ReadIsDocument DEF h
      <3> QED BY <2>1, <3>1 DEF PubInv, LocalInv
    <2>3. pub[p].data = pub[p].raw /\ pub[p].provenance = pub[p].raw
      BY <1>2, <2>2, ProcessFields DEF Reads
    <2>4. pub[p].parent = ParentOf(g)
      <3>1. pub[p].etag = Len(catalog)
        BY <2>1, ProcessFields DEF Past
      <3> QED BY <1>1, <1>2, <2>1, <3>1, ProcessFields DEF Follows, Linked, h
    <2>5. ASSUME NEW n \in Document
          PROVE  /\ store'[<<n, n>>].data \in {None, n} /\ store'[<<n, n>>].provenance \in {None, n}
                 /\ n = Len(local) /\ store'[<<n, n>>].manifest # None =>
                      \/ catalog # <<>> /\ Last(catalog).generation = <<n, n>>
                      \/ store'[<<n, n>>].manifest.parent = ParentOf(<<n, n>>)
      <3>1. <<n, n>> \in Generation
        BY DEF Generation
      <3>2. /\ store[<<n, n>>].data \in {None, n} /\ store[<<n, n>>].provenance \in {None, n}
            /\ n = Len(local) /\ store[<<n, n>>].manifest # None =>
                 \/ catalog # <<>> /\ Last(catalog).generation = <<n, n>>
                 \/ store[<<n, n>>].manifest.parent = ParentOf(<<n, n>>)
        BY <2>1 DEF PubInv, RetryInv
      <3>3. CASE <<n, n>> # g
        BY <1>9, <3>1, <3>2, <3>3
      <3>4. CASE <<n, n>> = g
        <4>1. n = pub[p].raw
          BY <2>2, <3>4
        <4>2. CASE object = "data"
          BY <1>9, <2>3, <3>2, <3>4, <4>1, <4>2 DEF Objects
        <4>3. CASE object = "provenance"
          BY <1>9, <2>3, <3>2, <3>4, <4>1, <4>3 DEF Objects
        <4>4. CASE object = "manifest"
          <5>1. store'[<<n, n>>].data = store[<<n, n>>].data /\ store'[<<n, n>>].provenance = store[<<n, n>>].provenance
            BY <1>9, <3>4, <4>4 DEF Objects
          <5>2. store'[<<n, n>>].manifest.parent = ParentOf(<<n, n>>)
            BY <1>9, <2>4, <3>4, <4>4 DEF ManifestOf
          <5> QED BY <3>2, <5>1, <5>2
        <4> QED BY <4>2, <4>3, <4>4 DEF Objects
      <3> QED BY <3>3, <3>4
    <2> QED BY <1>12, <2>5 DEF RetryInv
  <1> QED BY <1>13, <1>15, <1>16, <1>18, <1>19, <1>20 DEF PubInv
LEMMA PutKeeps ==
  ASSUME PubInv, NEW p \in Publisher, PutData(p) \/ PutProvenance(p) \/ PutManifest(p)
  PROVE  PubInv'
  <1>1. CASE PutData(p)
    <2>1. pub[p].pc = "data" /\ GenerationOf(p) = Named(pub[p].raw)
      BY <1>1, ReadIsDocument DEF PutData, Step, Begun
    <2> QED BY <1>1, <2>1, UploadKeeps DEF PutData, Step, Objects, Linked, Past
  <1>2. CASE PutProvenance(p)
    <2>1. pub[p].pc = "provenance" /\ GenerationOf(p) = Named(pub[p].raw)
      BY <1>2, ReadIsDocument DEF PutProvenance, Step, Begun
    <2> QED BY <1>2, <2>1, UploadKeeps DEF PutProvenance, Step, Objects, Linked, Past
  <1>3. CASE PutManifest(p)
    <2>1. pub[p].pc = "manifest" /\ GenerationOf(p) = Named(pub[p].raw)
      BY <1>3, ReadIsDocument DEF PutManifest, Step, Begun
    <2> QED BY <1>3, <2>1, UploadKeeps DEF PutManifest, Step, Objects, Linked, Past
  <1> QED BY <1>1, <1>2, <1>3

-----------------------------------------------------------------------------
(* A publisher moves the pointer *)

\* The pointer moves from what the publisher has read, to what it has uploaded.
Moves(p) ==
  /\ pub[p].pc \in {"create", "swap"} /\ Len(catalog) = pub[p].etag
  /\ catalog' = Append(catalog, PointerOf(p)) /\ pub' = [pub EXCEPT ![p].pc = "receipt"]
  /\ UNCHANGED <<deployment, local, store, later, receipt, gc>>

LEMMA MovesPointer ==
  ASSUME PubInv, NEW p \in Publisher, CreatePointer(p) \/ (SwapPointer(p) /\ catalog' # catalog)
  PROVE  Moves(p)
  <1>1. CASE CreatePointer(p)
    <2>1. catalog = <<>> /\ Len(catalog) = 0 /\ pub[p].etag = 0
      <3>1. catalog = <<>> /\ Len(catalog) = 0
        BY <1>1 DEF CreatePointer
      <3> QED BY <3>1, ProcessFields DEF Follows
    <2>2. Append(catalog, PointerOf(p)) = <<PointerOf(p)>>
      BY <2>1
    <2> QED BY <1>1, <2>1, <2>2 DEF CreatePointer, Step, Moves
  <1>2. CASE SwapPointer(p) /\ catalog' # catalog
    BY <1>2 DEF SwapPointer, Step, Moves
  <1> QED BY <1>1, <1>2

LEMMA MoveKeeps ==
  ASSUME PubInv, CollectsApart, NEW p \in Publisher, Moves(p)
  PROVE  PubInv'
  <1> DEFINE m == [pub[p] EXCEPT !.pc = "receipt"]
  <1>1. /\ pub[p].pc \in Recorded /\ pub[p].pc \in Linked /\ pub[p].pc \in Verified /\ Begun(p)
        /\ catalog \in Seq(Pointer) /\ Len(catalog) \in Nat
    BY ProcessFields DEF Moves, Recorded, Verified, Linked, Past, Begun, PubInv, Types
  <1>2. /\ PointerOf(p) \in Pointer /\ PointerOf(p).generation = Named(pub[p].raw)
        /\ PointerOf(p).manifest = ManifestOf(p)
        /\ ManifestOf(p).document = pub[p].raw /\ ManifestOf(p).data = local[pub[p].raw]
        /\ ManifestOf(p).provenance = pub[p].raw /\ ManifestOf(p).parent = pub[p].parent
    BY <1>1, LinkedManifest
  <1>3. /\ catalog' \in Seq(Pointer) /\ Len(catalog') = Len(catalog) + 1
        /\ catalog'[Len(catalog) + 1] = PointerOf(p) /\ Last(catalog') = PointerOf(p) /\ catalog' # <<>>
        /\ \A i \in 1 .. Len(catalog) : catalog'[i] = catalog[i]
    BY <1>1, <1>2, Appended DEF Moves
  <1>4. pub \in [Publisher -> Process] /\ pub[p] \in Process
    BY ProcessFields DEF PubInv, Types
  <1>5. /\ m \in Process /\ m.pc = "receipt" /\ m.raw = pub[p].raw /\ m.hashed = pub[p].hashed
        /\ m.etag = pub[p].etag /\ m.parent = pub[p].parent /\ m.named = pub[p].named
        /\ m.data = pub[p].data /\ m.provenance = pub[p].provenance
    BY <1>4 DEF Process, Pc, Past
  <1>6. pub'[p] = m /\ \A q \in Publisher : q # p => pub'[q] = pub[q]
    BY <1>4 DEF Process, Moves
  <1>7. pub' \in [Publisher -> Process]
    BY <1>4, <1>5 DEF Process, Moves
  <1> HIDE DEF m
  <1>8. UNCHANGED <<deployment, local, store, later, receipt, gc>> /\ Appending' = Appending
    BY DEF Moves, Appending
  <1>9. \A n : Named(n)' = Named(n)
    BY <1>8 DEF Named
  <1>10. Types' /\ LocalInv'
    BY <1>3, <1>7, <1>8 DEF PubInv, Types, LocalInv
  <1>11. \A q \in Publisher : /\ pub'[q].raw = pub[q].raw /\ (Begun(q)' <=> Begun(q))
                              /\ ManifestOf(q)' = ManifestOf(q) /\ PointerOf(q)' = PointerOf(q)
    BY <1>1, <1>5, <1>6, <1>8 DEF Begun, ManifestOf, PointerOf, GenerationOf
  <1>12. ASSUME NEW q \in Publisher PROVE Reads(q)' /\ Follows(q)' /\ Uploads(q)'
    <2>1. /\ pub'[q].etag = pub[q].etag /\ pub[q].etag \in Nat
          /\ pub'[q].etag <= Len(catalog) /\ pub'[q].etag # Len(catalog')
      BY <1>1, <1>3, <1>5, <1>6, ProcessFields DEF Follows
    <2>2. CASE q = p
      <3>1. Reads(p)'
        BY <1>1, <1>5, <1>6, <1>8, ProcessFields DEF Reads, Begun, Reading, Past, Linked
      <3>2. \A i \in 1 .. pub[p].etag : catalog'[i].manifest.document <= pub[p].raw
        BY <1>1, <1>3, <2>1, <2>2, ProcessFields DEF Follows
      <3>3. \E i \in 1 .. Len(catalog') : catalog'[i].generation = Named(pub[p].raw)'
        BY <1>1, <1>2, <1>3, <1>9, <1>11
      <3>4. pub[p].parent = None \/ Appending
        BY <1>1, ProcessFields DEF Follows
      <3>5. Follows(p)'
        BY <1>1, <1>3, <1>5, <1>6, <1>8, <2>1, <2>2, <3>2, <3>3, <3>4 DEF Follows
      <3>6. Uploads(p)'
        BY <1>1, <1>5, <1>6, <1>8, <1>9, <1>11, ProcessFields DEF Uploads
      <3> QED BY <2>2, <3>1, <3>5, <3>6
    <2>3. CASE q # p
      <3>1. pub'[q] = pub[q] /\ Reads(q) /\ Follows(q) /\ Uploads(q)
        BY <1>6, <2>3, ProcessFields
      <3>2. Reads(q)'
        BY <1>8, <3>1 DEF Reads, Begun, Reading
      <3>3. pub[q].pc \in Linked => \A i \in 1 .. pub[q].etag : catalog'[i].manifest.document <= pub[q].raw
        BY <1>1, <1>3, <2>1, <3>1 DEF Follows
      <3>4. pub[q].pc = "receipt" => \E i \in 1 .. Len(catalog') : catalog'[i].generation = Named(pub[q].raw)'
        BY <1>1, <1>3, <1>9, <1>11, <3>1 DEF Follows
      <3>5. Follows(q)'
        BY <1>1, <1>3, <1>8, <2>1, <3>1, <3>3, <3>4 DEF Follows
      <3>6. Uploads(q)'
        BY <1>8, <1>9, <1>11, <3>1 DEF Uploads
      <3> QED BY <3>2, <3>5, <3>6
    <2> QED BY <2>2, <2>3
  <1>13. CatalogInv'
    <2>1. ASSUME NEW i \in 1 .. Len(catalog')
          PROVE  LET named == catalog'[i].manifest IN
                 /\ named.document \in 1 .. Len(local)
                 /\ catalog'[i].generation = Named(named.document)
                 /\ named.data = local[named.document] /\ named.provenance = named.document
                 /\ ~Appending => named.parent = None
      <3>1. CASE i \in 1 .. Len(catalog)
        BY <1>3, <3>1 DEF PubInv, CatalogInv
      <3>2. CASE i = Len(catalog) + 1
        <4>1. catalog'[i].manifest = ManifestOf(p) /\ catalog'[i].generation = Named(pub[p].raw)
          BY <1>2, <1>3, <3>2
        <4>2. pub[p].raw \in 1 .. Len(local) /\ (~Appending => pub[p].parent = None)
          BY <1>1, ProcessFields, ReadIsDocument DEF Follows
        <4> QED BY <1>2, <4>1, <4>2
      <3> QED BY <1>1, <1>3, <3>1, <3>2
    <2>2. LET latest == Last(catalog')
              there == store[latest.generation]
          IN  /\ there.data = latest.manifest.data /\ there.provenance = latest.manifest.provenance
              /\ there.manifest = latest.manifest
      <3>1. /\ store[Named(pub[p].raw)].data = pub[p].data
            /\ store[Named(pub[p].raw)].provenance = pub[p].provenance
            /\ store[Named(pub[p].raw)].manifest = ManifestOf(p)
        BY <1>1, ProcessFields DEF Uploads
      <3>2. ManifestOf(p).data = pub[p].data /\ ManifestOf(p).provenance = pub[p].provenance
        BY DEF ManifestOf
      <3> QED BY <1>2, <1>3, <3>1, <3>2
    <2>3. CommittedIsPublished'
      <3>1. DOMAIN catalog = 1 .. Len(catalog) /\ DOMAIN catalog' = 1 .. Len(catalog')
        BY <1>1, <1>3
      <3> QED BY <1>1, <1>3, <1>8, <3>1, ProcessFields DEF CommittedIsPublished
    <2> QED BY <1>8, <2>1, <2>2, <2>3 DEF CatalogInv, Named
  <1>14. \A n : InOrder(n)' <=> InOrder(n)
    BY <1>8, <1>11 DEF InOrder
  <1>15. SerialInv'
    <2>1. SUFFICES ASSUME ~deployment.overlap PROVE SerialInv'
      BY <1>8 DEF SerialInv
    <2>2. \A q \in Publisher : q # p => pub'[q].pc = "idle"
      BY <1>1, <1>6, <2>1 DEF PubInv, SerialInv, Begun
    <2>3. \A q \in Publisher : pub'[q].pc \notin (Past \cup {"parent"}) \ {"reconcile", "receipt"}
      BY <1>5, <1>6, <2>2 DEF Past
    <2>4. Stored' = Stored
      BY <1>8 DEF Stored
    <2> QED BY <1>8, <1>11, <1>14, <2>1, <2>3, <2>4 DEF PubInv, SerialInv
  <1>16. CollectorInv'
    <2>1. gc.etag \in Nat /\ gc.etag <= Len(catalog) /\ (gc.pc # "idle" => gc.etag > 0)
      BY DEF PubInv, CollectorInv, Types, Collector
    <2>2. gc.pc # "idle" => gc.current = catalog'[gc.etag].generation
      BY <1>1, <1>3, <2>1 DEF PubInv, CollectorInv
    <2>3. ASSUME NEW item \in gc.doomed, gc.pc = "delete" PROVE item[1] # Last(catalog').generation
      <3>1. item[1][2] < pub[p].raw /\ deployment.collecting /\ deployment \in Deployments
        BY <1>1, <2>3 DEF PubInv, CollectorInv, Types
      <3>2. Appending
        BY <3>1 DEF CollectsApart, Appending
      <3>3. Last(catalog').generation = <<pub[p].raw, pub[p].raw>> /\ pub[p].raw \in Nat
        BY <1>1, <1>2, <1>3, <3>2, ReadIsDocument, ProcessFields
      <3> QED BY <3>1, <3>3
    <2> QED BY <1>1, <1>3, <1>8, <1>11, <2>1, <2>2, <2>3 DEF PubInv, CollectorInv
  <1>17. RetryInv'
    <2>1. SUFFICES ASSUME ~deployment.overlap, Appending PROVE RetryInv'
      BY <1>8 DEF RetryInv
    <2>2. ASSUME NEW n \in Document, n = Len(local), store[<<n, n>>].manifest # None
          PROVE  Last(catalog').generation = <<n, n>>
      <3>1. <<n, n>> \in Stored
        BY <2>2 DEF Stored, Generation, NoBundle
      <3>2. n <= pub[p].raw
        BY <1>1, <2>1, <3>1 DEF PubInv, SerialInv, InOrder
      <3>3. pub[p].raw \in 1 .. Len(local) /\ Len(local) \in Nat
        BY <1>1, ReadIsDocument
      <3> QED BY <1>1, <1>2, <1>3, <2>1, <2>2, <3>2, <3>3, ReadIsDocument
    <2> QED BY <1>3, <1>8, <2>1, <2>2 DEF PubInv, RetryInv
  <1> QED BY <1>10, <1>12, <1>13, <1>15, <1>16, <1>17 DEF PubInv

-----------------------------------------------------------------------------
(* The collector *)

\* What the collector may do touches no publisher and not the pointer.
LEMMA CollectorAlone ==
  ASSUME PubInv, gc' \in Collector, UNCHANGED <<deployment, local, store, later, catalog, receipt, pub>>,
         CollectorInv'
  PROVE  PubInv'
  <1>1. Appending' = Appending /\ Stored' = Stored /\ (\A n : Named(n)' = Named(n)) /\ \A g : ParentOf(g)' = ParentOf(g)
    BY DEF Appending, Stored, Named, ParentOf
  <1>2. Types' /\ LocalInv'
    BY <1>1 DEF PubInv, Types, LocalInv
  <1>3. \A p \in Publisher : /\ ManifestOf(p)' = ManifestOf(p) /\ PointerOf(p)' = PointerOf(p)
                             /\ (Begun(p)' <=> Begun(p))
    BY <1>1 DEF ManifestOf, PointerOf, GenerationOf, Begun
  <1>4. ASSUME NEW p \in Publisher PROVE Reads(p)' /\ Follows(p)' /\ Uploads(p)'
    <2>1. Reads(p) /\ Follows(p) /\ Uploads(p)
      BY DEF PubInv
    <2>2. Reads(p)'
      BY <1>1, <2>1 DEF Reads, Begun, Reading
    <2>3. Follows(p)'
      BY <1>1, <1>3, <2>1 DEF Follows
    <2>4. Uploads(p)'
      BY <1>1, <1>3, <2>1 DEF Uploads
    <2> QED BY <2>2, <2>3, <2>4
  <1>5. CatalogInv'
    BY <1>1 DEF PubInv, CatalogInv, CommittedIsPublished
  <1>6. \A n : InOrder(n)' <=> InOrder(n)
    BY <1>3 DEF InOrder
  <1>7. SerialInv'
    BY <1>1, <1>3, <1>6 DEF PubInv, SerialInv
  <1>8. RetryInv'
    BY <1>1 DEF PubInv, RetryInv
  <1> QED BY <1>2, <1>4, <1>5, <1>7, <1>8 DEF PubInv

LEMMA PlanKeeps ==
  ASSUME PubInv, CollectsApart, PlanCollection \/ ListCandidates \/ ConfirmPlan \/ CollectionEnds
  PROVE  PubInv'
  <1>1. /\ UNCHANGED <<deployment, local, store, later, catalog, receipt, pub>>
        /\ gc \in Collector /\ catalog \in Seq(Pointer) /\ Len(catalog) \in Nat
    BY LastOf DEF PlanCollection, ListCandidates, ConfirmPlan, CollectionEnds, PubInv, Types
  <1>2. NoPlan \in Collector /\ NoPlan.pc = "idle" /\ NoPlan.etag = 0 /\ NoPlan.doomed = {}
    BY DEF NoPlan, Collector
  <1>3. ASSUME gc' = NoPlan PROVE PubInv'
    <2>1. CollectorInv'
      BY <1>1, <1>2, <1>3 DEF CollectorInv
    <2> QED BY <1>1, <1>2, <1>3, <2>1, CollectorAlone
  <1>4. CASE PlanCollection
    <2>1. catalog # <<>> /\ Last(catalog) = catalog[Len(catalog)] /\ Last(catalog) \in Pointer
          /\ Len(catalog) > 0
      BY <1>1, <1>4, LastOf DEF PlanCollection
    <2>2. Last(catalog).generation \in Generation
      BY <2>1 DEF Pointer
    <2>3. /\ gc' \in Collector /\ gc'.pc = "list" /\ gc'.current = Last(catalog).generation
          /\ gc'.etag = Len(catalog) /\ gc'.doomed = gc.doomed /\ gc.pc = "idle" /\ deployment.collecting
      BY <1>1, <1>4, <2>2 DEF PlanCollection, Collector
    <2>4. gc.doomed = {}
      BY <2>3 DEF PubInv, CollectorInv
    <2>5. CollectorInv'
      BY <1>1, <2>1, <2>3, <2>4 DEF CollectorInv
    <2> QED BY <1>1, <2>3, <2>5, CollectorAlone
  <1>5. CASE ListCandidates
    <2> DEFINE doomed == {item \in Listed : item[1] \notin Newest(Retain) \cup {gc.current}}
    <2>1. doomed \subseteq Generation \X Objects
      BY DEF Listed
    <2>2. /\ gc' \in Collector /\ gc'.pc = "confirm" /\ gc'.current = gc.current /\ gc'.etag = gc.etag
          /\ gc'.doomed = doomed /\ gc.pc = "list"
      BY <1>1, <1>5, <2>1 DEF ListCandidates, Collector
    <2>3. deployment.collecting /\ deployment \in Deployments
      BY <2>2 DEF PubInv, CollectorInv, Types
    <2>4. Appending /\ ~deployment.overlap
      BY <2>3 DEF CollectsApart, Appending
    <2>5. ASSUME NEW item \in doomed
          PROVE  /\ item[1] # gc.current /\ item[1][2] < Len(local)
                 /\ \A p \in Publisher : Begun(p) => item[1][2] < pub[p].raw
      <3> DEFINE g == item[1]
                 since == {pair \in later : pair[1] = g}
      <3>1. g \in Generation /\ item[2] \in Objects /\ store[g][item[2]] # None /\ g \notin Newest(Retain)
            /\ g # gc.current
        BY DEF Listed
      <3>2. g \in Stored
        BY <3>1, BundleFields DEF PubInv
      <3>3. since # {}
        <4>1. SUFFICES ASSUME since = {} PROVE FALSE
          OBVIOUS
        <4>2. Cardinality(since) = 0
          BY <4>1, FS_EmptySet
        <4>3. Retain \in Nat \ {0}
          BY ConstantsAssumption
        <4> HIDE DEF g
        <4> QED BY <3>1, <3>2, <4>2, <4>3 DEF Newest
      <3>4. PICK pair \in later : pair[1] = g
        BY <3>3
      <3>5. g[2] < pair[2][2] /\ InOrder(pair[2][2]) /\ pair[2] \in Generation
        BY <2>4, <3>4 DEF PubInv, SerialInv, Types
      <3>6. g[2] \in Nat /\ pair[2][2] \in Nat
        BY <3>1, <3>5, ConstantsAssumption DEF Generation, Document
      <3>7. Len(local) \in Nat /\ \A p \in Publisher : pub[p].raw \in Nat
        BY LastOf DEF PubInv, Types, Process
      <3> QED BY <3>1, <3>5, <3>6, <3>7 DEF InOrder
    <2> HIDE DEF doomed
    <2>6. CollectorInv'
      BY <1>1, <2>2, <2>3, <2>5 DEF PubInv, CollectorInv, Begun
    <2> QED BY <1>1, <2>2, <2>6, CollectorAlone
  <1>6. CASE ConfirmPlan
    <2>1. SUFFICES ASSUME gc' # NoPlan PROVE PubInv'
      BY <1>3
    <2>2. /\ gc.pc = "confirm" /\ Len(catalog) = gc.etag /\ gc' \in Collector /\ gc'.pc = "delete"
          /\ gc'.current = gc.current /\ gc'.etag = gc.etag /\ gc'.doomed = gc.doomed
      BY <1>1, <1>6, <2>1 DEF ConfirmPlan, Collector
    <2>3. gc.current = Last(catalog).generation
      <3>1. gc.etag > 0 /\ gc.current = catalog[gc.etag].generation
        BY <2>2 DEF PubInv, CollectorInv
      <3> QED BY <1>1, <2>2, <3>1, LastOf
    <2>4. CollectorInv'
      BY <1>1, <2>2, <2>3 DEF PubInv, CollectorInv, Begun
    <2> QED BY <1>1, <2>2, <2>4, CollectorAlone
  <1>7. CASE CollectionEnds
    BY <1>3, <1>7 DEF CollectionEnds
  <1> QED BY <1>4, <1>5, <1>6, <1>7

LEMMA DeleteKeeps ==
  ASSUME PubInv, CollectsApart, DeleteObject
  PROVE  PubInv'
  <1>1. PICK item \in gc.doomed :
          LET g == item[1]
              rest == [store[g] EXCEPT ![item[2]] = None]
          IN  /\ store' = [store EXCEPT ![g] = rest]
              /\ later' = IF rest = NoBundle THEN LaterWithout(g) ELSE later
              /\ gc' = IF gc.doomed = {item} THEN NoPlan ELSE [gc EXCEPT !.doomed = @ \ {item}]
    BY DEF DeleteObject
  <1>2. item \in Generation \X Objects /\ gc.pc = "delete" /\ gc \in Collector
    BY DEF DeleteObject, PubInv, Types, Collector
  <1>3. PICK g \in Generation, x \in Objects : item = <<g, x>>
    BY <1>2
  <1>4. /\ g # Last(catalog).generation /\ g[2] < Len(local)
        /\ \A p \in Publisher : Begun(p) => g[2] < pub[p].raw
        /\ deployment.collecting /\ deployment \in Deployments
    BY <1>2, <1>3 DEF PubInv, CollectorInv, Types
  <1>5. Appending /\ ~deployment.overlap
    BY <1>4 DEF CollectsApart, Appending
  <1>6. /\ store' \in [Generation -> Bundle] /\ \A f \in Generation : f # g => store'[f] = store[f]
        /\ \A y \in Objects : store'[g][y] \in {None, store[g][y]}
    <2> DEFINE rest == [store[g] EXCEPT ![x] = None]
    <2>1. store \in [Generation -> Bundle] /\ store[g] \in Bundle
      BY DEF PubInv, Types
    <2>2. rest \in Bundle /\ \A y \in Objects : rest[y] \in {None, store[g][y]}
      BY <2>1 DEF Bundle, Objects
    <2>3. store' = [store EXCEPT ![g] = rest]
      BY <1>1, <1>3
    <2> HIDE DEF rest
    <2> QED BY <2>1, <2>2, <2>3
  <1>7. later' \subseteq later
    BY <1>1 DEF LaterWithout
  <1>8. Appending' = Appending /\ (\A n : Named(n)' = Named(n)) /\ \A f : ParentOf(f)' = ParentOf(f)
    BY DEF DeleteObject, Appending, Named, ParentOf
  <1>9. UNCHANGED <<deployment, local, catalog, receipt, pub>>
    BY DEF DeleteObject
  <1>10. /\ gc' \in Collector /\ gc'.doomed \subseteq gc.doomed
         /\ \/ gc' = NoPlan
            \/ gc'.pc = "delete" /\ gc'.current = gc.current /\ gc'.etag = gc.etag
    <2>1. CASE gc.doomed = {item}
      BY <1>1, <2>1 DEF NoPlan, Collector
    <2>2. CASE gc.doomed # {item}
      BY <1>1, <1>2, <2>2 DEF Collector
    <2> QED BY <2>1, <2>2
  <1>11. Types' /\ LocalInv'
    BY <1>6, <1>7, <1>8, <1>9, <1>10 DEF PubInv, Types, LocalInv
  <1>12. Stored' \subseteq Stored
    <2>1. ASSUME NEW f \in Generation, f \notin Stored PROVE store'[f] = NoBundle
      <3>1. \A y \in Objects : store[f][y] = None
        BY <2>1 DEF Stored, NoBundle, Objects
      <3>2. \A y \in Objects : store'[f][y] = None
        BY <1>6, <3>1
      <3>3. store'[f] = [data |-> store'[f].data, provenance |-> store'[f].provenance, manifest |-> store'[f].manifest]
        BY <1>6 DEF Bundle
      <3> QED BY <3>2, <3>3 DEF NoBundle, Objects
    <2> QED BY <2>1 DEF Stored
  <1>13. \A p \in Publisher : /\ ManifestOf(p)' = ManifestOf(p) /\ PointerOf(p)' = PointerOf(p)
                              /\ (Begun(p)' <=> Begun(p))
    BY <1>8, <1>9 DEF ManifestOf, PointerOf, GenerationOf, Begun
  <1>14. ASSUME NEW p \in Publisher PROVE Reads(p)' /\ Follows(p)' /\ Uploads(p)'
    <2>1. Reads(p) /\ Follows(p) /\ Uploads(p)
      BY DEF PubInv
    <2>2. Reads(p)'
      BY <1>8, <1>9, <2>1 DEF Reads, Begun, Reading
    <2>3. Follows(p)'
      BY <1>8, <1>9, <1>13, <2>1 DEF Follows
    <2>4. pub[p].pc \in Verified => store'[Named(pub[p].raw)] = store[Named(pub[p].raw)]
      <3>1. SUFFICES ASSUME pub[p].pc \in Verified
                     PROVE  Named(pub[p].raw) \in Generation /\ Named(pub[p].raw) # g
        BY <1>6
      <3>2. Begun(p)
        BY <3>1 DEF Begun, Verified, Linked, Past
      <3>3. Named(pub[p].raw) = <<pub[p].raw, pub[p].raw>> /\ pub[p].raw \in Nat /\ g[2] < pub[p].raw
        BY <1>4, <1>5, <3>2, ReadIsDocument, ProcessFields
      <3> QED BY <3>2, <3>3, ReadIsDocument
    <2>5. Uploads(p)'
      BY <1>8, <1>9, <1>13, <2>1, <2>4 DEF Uploads, Recorded
    <2> QED BY <2>2, <2>3, <2>5
  <1>15. CatalogInv'
    <2>1. ASSUME catalog # <<>> PROVE store'[Last(catalog).generation] = store[Last(catalog).generation]
      <3>1. Last(catalog) \in Pointer
        BY <2>1, LastOf DEF PubInv, Types
      <3> QED BY <1>4, <1>6, <3>1 DEF Pointer
    <2> QED BY <1>8, <1>9, <2>1 DEF PubInv, CatalogInv, CommittedIsPublished
  <1>16. SerialInv'
    <2>1. \A n : InOrder(n)' <=> InOrder(n)
      BY <1>9, <1>13 DEF InOrder
    <2> QED BY <1>7, <1>8, <1>9, <1>12, <1>13, <2>1 DEF PubInv, SerialInv
  <1>17. CollectorInv'
    BY <1>2, <1>9, <1>10, <1>13, ProcessFields, LastOf DEF PubInv, CollectorInv, NoPlan, Types, Begun
  <1>18. RetryInv'
    <2>1. SUFFICES ASSUME NEW n \in Document
                   PROVE  /\ store'[<<n, n>>].data \in {None, n} /\ store'[<<n, n>>].provenance \in {None, n}
                          /\ n = Len(local) /\ store'[<<n, n>>].manifest # None =>
                               \/ catalog # <<>> /\ Last(catalog).generation = <<n, n>>
                               \/ store'[<<n, n>>].manifest.parent = ParentOf(<<n, n>>)
      BY <1>8, <1>9 DEF RetryInv
    <2>2. <<n, n>> \in Generation
      BY DEF Generation
    <2>3. /\ store[<<n, n>>].data \in {None, n} /\ store[<<n, n>>].provenance \in {None, n}
          /\ n = Len(local) /\ store[<<n, n>>].manifest # None =>
               \/ catalog # <<>> /\ Last(catalog).generation = <<n, n>>
               \/ store[<<n, n>>].manifest.parent = ParentOf(<<n, n>>)
      BY <1>5 DEF PubInv, RetryInv
    <2>4. CASE <<n, n>> # g
      BY <1>6, <2>2, <2>3, <2>4
    <2>5. CASE <<n, n>> = g
      <3>1. n # Len(local)
        BY <1>4, <2>5, ConstantsAssumption DEF Document
      <3> QED BY <1>6, <2>3, <2>5, <3>1 DEF Objects
    <2> QED BY <2>4, <2>5
  <1> QED BY <1>11, <1>14, <1>15, <1>16, <1>17, <1>18 DEF PubInv

-----------------------------------------------------------------------------
LEMMA NextPub ==
  ASSUME PubInv, CommitsApart, CollectsApart, [Next]_vars
  PROVE  PubInv'
  <1>1. CASE Commit
    BY <1>1, CommitKeeps
  <1>2. ASSUME NEW p \in Publisher, Publish(p) PROVE PubInv'
    <2>1. CASE ReadManifest(p) \/ NameGeneration(p) \/ HashManifest(p) \/ HeadPointer(p)
      BY <2>1, ReadKeeps
    <2>2. CASE ReadParent(p) \/ LinkParts(p) \/ LinkManifest(p)
      BY <2>2, LinkKeeps
    <2>3. CASE PutData(p) \/ PutProvenance(p) \/ PutManifest(p)
      BY <2>3, PutKeeps
    <2>4. CASE VerifyUploaded(p) \/ VerifyManifest(p) \/ ComparePointer(p) \/ Reconcile(p)
      BY <2>4, CheckKeeps
    <2>5. CASE CreatePointer(p) \/ (SwapPointer(p) /\ catalog' # catalog)
      BY <2>5, MovesPointer, MoveKeeps
    <2>6. CASE SwapPointer(p) /\ catalog' = catalog
      BY <2>6, CheckKeeps
    <2>7. CASE WriteReceipt(p)
      BY <2>7, EndKeeps
    <2> QED BY <1>2, <2>1, <2>2, <2>3, <2>4, <2>5, <2>6, <2>7 DEF Publish
  <1>3. ASSUME NEW p \in Publisher, PublicationFails(p) \/ Die(p) PROVE PubInv'
    BY <1>3, EndKeeps
  <1>4. CASE PlanCollection \/ ListCandidates \/ ConfirmPlan \/ CollectionEnds
    BY <1>4, PlanKeeps
  <1>5. CASE DeleteObject
    BY <1>5, DeleteKeeps
  <1>6. CASE UNCHANGED vars
    <2>1. gc \in Collector /\ UNCHANGED <<deployment, local, store, later, catalog, receipt, pub, gc>>
      BY <1>6 DEF vars, PubInv, Types
    <2>2. CollectorInv'
      BY <2>1 DEF PubInv, CollectorInv, Begun
    <2> QED BY <2>1, <2>2, CollectorAlone
  <1> QED BY <1>1, <1>2, <1>3, <1>4, <1>5, <1>6 DEF Next, Collect

LEMMA AlwaysPub ==
  ASSUME CommitsApart, CollectsApart
  PROVE  Spec => []PubInv
  <1>1. PubInv /\ [Next]_vars => PubInv'
    BY NextPub
  <1> QED BY <1>1, InitPub, PTL DEF Spec
-----------------------------------------------------------------------------
\* Every variable keeps its type, and what publishers and the collector
\* remember stays within what has been written.
THEOREM PublicationTypeCorrect == ASSUME CommitsApart, CollectsApart PROVE Spec => []TypeOK
  <1>1. ASSUME PubInv PROVE TypeOK
    <2>1. Types /\ DOMAIN catalog = 1 .. Len(catalog) /\ Len(local) \in Nat /\ Len(catalog) \in Nat
      BY <1>1, LastOf DEF PubInv, Types
    <2>2. \A i \in DOMAIN catalog : catalog[i].generation \in Generation /\ catalog[i].manifest \in Manifest
      <3>1. \A i \in DOMAIN catalog : catalog[i] \in Pointer
        BY <2>1 DEF Types
      <3> QED BY <3>1 DEF Pointer
    <2>3. ASSUME NEW p \in Publisher
          PROVE  /\ pub[p].raw \in 0 .. Len(local) /\ pub[p].named \in 0 .. Len(local)
                 /\ pub[p].hashed \in 0 .. Len(local) /\ pub[p].etag \in 0 .. Len(catalog)
                 /\ pub[p].parent \in Generation \cup {None}
                 /\ pub[p].data \in Content \cup {None} /\ pub[p].provenance \in Document \cup {None}
      BY <1>1, ProcessFields DEF Reads, Follows, Begun, Idle
    <2>4. gc.etag \in 0 .. Len(catalog) /\ gc.doomed \subseteq Generation \X Objects
      BY <1>1, <2>1 DEF PubInv, CollectorInv, Types, Collector
    <2> QED BY <2>1, <2>2, <2>3, <2>4 DEF Types, TypeOK
  <1> QED BY <1>1, AlwaysPub, PTL

\* Whatever the pointer has named holds the parts its identity stands for, with
\* the local manifest that describes them, and a receipt that says committed
\* names one of these, for any number of publishers, commits and contents.
THEOREM PublicationsAreWhole == ASSUME CommitsApart, CollectsApart PROVE Spec => []PublishedIsWhole
  <1>1. ASSUME PubInv PROVE PublishedIsWhole
    <2>1. DOMAIN catalog = 1 .. Len(catalog)
      BY <1>1 DEF PubInv, Types
    <2>2. ASSUME NEW i \in DOMAIN catalog
          PROVE  /\ catalog[i].manifest.data = catalog[i].generation[1]
                 /\ local[catalog[i].manifest.provenance] = catalog[i].generation[1]
      <3>1. /\ catalog[i].generation = Named(catalog[i].manifest.document)
            /\ catalog[i].manifest.data = local[catalog[i].manifest.document]
            /\ catalog[i].manifest.provenance = catalog[i].manifest.document
        BY <1>1, <2>1 DEF PubInv, CatalogInv
      <3>2. catalog[i].generation[1] = local[catalog[i].manifest.document]
        BY <3>1 DEF Named
      <3> QED BY <3>1, <3>2
    <2>3. GenerationHoldsItsContent
      BY <2>2 DEF GenerationHoldsItsContent
    <2> QED BY <1>1, <2>3 DEF PubInv, CatalogInv, PublishedIsWhole
  <1> QED BY <1>1, AlwaysPub, PTL

\* Publications that do not overlap are those of appends.
ApartAppends == \A d \in Deployments : ~d.overlap => d.appending

\* An append published again, by one publisher at a time, meets only its own
\* objects and the parent it would name, however often the attempts before it
\* failed and whatever the collector has taken: put_immutable never refuses it
\* for good.
THEOREM RetriesReproduce ==
  ASSUME CommitsApart, CollectsApart, ApartAppends PROVE Spec => []RetryReproduces
  <1>1. ASSUME PubInv PROVE RetryReproduces
    <2>1. SUFFICES ASSUME ~deployment.overlap, local # <<>> PROVE RetryReproduces
      BY DEF RetryReproduces
    <2>2. Appending
      BY <1>1, <2>1 DEF ApartAppends, PubInv, Types, Appending
    <2> DEFINE n == Len(local)
    <2>3. n \in Document /\ n \in 1 .. n /\ Last(local) = local[n]
      BY <1>1, <2>1, LastOf, ConstantsAssumption DEF PubInv, Types, Document
    <2>4. Last(local) = n
      BY <1>1, <2>2, <2>3 DEF PubInv, LocalInv
    <2>5. /\ store[<<n, n>>].data \in {None, n} /\ store[<<n, n>>].provenance \in {None, n}
          /\ store[<<n, n>>].manifest # None =>
               \/ catalog # <<>> /\ Last(catalog).generation = <<n, n>>
               \/ store[<<n, n>>].manifest.parent = ParentOf(<<n, n>>)
      BY <1>1, <2>1, <2>2, <2>3 DEF PubInv, RetryInv
    <2> HIDE DEF n
    <2> QED BY <2>2, <2>4, <2>5 DEF RetryReproduces, ParentOf, n
  <1> QED BY <1>1, AlwaysPub, PTL

\* The pointer moves to a later commit of the local dataset only, whatever
\* order the publishers of older and newer commits finish in: the conditional
\* put and the comparison before it leave no other move.
THEOREM PointerNeverGoesBack == ASSUME CommitsApart, CollectsApart PROVE Spec => LatestNeverGoesBack
  <1>1. ASSUME PubInv, [Next]_vars, catalog' # catalog, catalog # <<>>
        PROVE  Last(catalog').manifest.document > Last(catalog).manifest.document
    <2>1. PICK p \in Publisher : SwapPointer(p)
      BY <1>1 DEF Next, vars, Commit, Publish, PublicationFails, Die, Collect, PlanCollection,
         ListCandidates, ConfirmPlan, DeleteObject, CollectionEnds, ReadManifest, NameGeneration,
         HashManifest, HeadPointer, ReadParent, LinkParts, LinkManifest, PutData, PutProvenance,
         VerifyUploaded, PutManifest, VerifyManifest, CreatePointer, ComparePointer, Reconcile,
         WriteReceipt
    <2>2. Moves(p) /\ pub[p].pc = "swap"
      BY <1>1, <2>1, MovesPointer DEF SwapPointer, Step
    <2>3. /\ pub[p].pc \in Linked /\ pub[p].pc \in Past /\ Begun(p)
          /\ pub[p].etag = Len(catalog) /\ Len(catalog) \in 1 .. Len(catalog)
          /\ Last(catalog) = catalog[Len(catalog)] /\ Last(catalog) \in Pointer
          /\ catalog \in Seq(Pointer) /\ catalog' = Append(catalog, PointerOf(p))
      BY <1>1, <2>2, LastOf DEF Linked, Past, Begun, Moves, PubInv, Types
    <2>4. /\ PointerOf(p) \in Pointer /\ PointerOf(p).generation = Named(pub[p].raw)
          /\ PointerOf(p).manifest = ManifestOf(p) /\ ManifestOf(p) \in Manifest
          /\ ManifestOf(p).document = pub[p].raw /\ ManifestOf(p).data = local[pub[p].raw]
          /\ ManifestOf(p).provenance = pub[p].raw /\ ManifestOf(p).parent = pub[p].parent
      BY <1>1, <2>3, LinkedManifest
    <2>5. Last(catalog').manifest.document = pub[p].raw
      BY <2>3, <2>4, Appended
    <2>6. /\ Last(catalog).manifest.document <= pub[p].raw /\ Last(catalog) # PointerOf(p)
          /\ ~Appending => pub[p].parent = None
          /\ Appending => pub[p].parent = ParentOf(Named(pub[p].raw))
          /\ pub[p].raw \in Nat
      BY <1>1, <2>2, <2>3, ProcessFields DEF Follows
    <2>7. Last(catalog).manifest.document # pub[p].raw
      <3>1. SUFFICES ASSUME Last(catalog).manifest.document = pub[p].raw PROVE Last(catalog) = PointerOf(p)
        BY <2>6
      <3>2. /\ Last(catalog).generation = Named(pub[p].raw)
            /\ Last(catalog).manifest.data = local[pub[p].raw]
            /\ Last(catalog).manifest.provenance = pub[p].raw
            /\ ~Appending => Last(catalog).manifest.parent = None
        BY <1>1, <2>3, <3>1 DEF PubInv, CatalogInv
      <3>3. pub[p].parent = Last(catalog).manifest.parent
        BY <1>1, <2>6, <3>2 DEF ParentOf
      <3>4. Last(catalog).manifest = ManifestOf(p)
        <4>1. Last(catalog).manifest \in Manifest
          BY <2>3 DEF Pointer
        <4>2. \A m, n \in Manifest :
                /\ m.document = n.document /\ m.data = n.data
                /\ m.provenance = n.provenance /\ m.parent = n.parent
                => m = n
          BY DEF Manifest
        <4> QED BY <2>4, <3>1, <3>2, <3>3, <4>1, <4>2
      <3> QED BY <2>3, <2>4, <3>2, <3>4 DEF Pointer
    <2>8. Last(catalog).manifest.document \in Nat
      BY <2>3 DEF Pointer, Manifest, Document
    <2> QED BY <2>5, <2>6, <2>7, <2>8
  <1>2. PubInv /\ [Next]_vars => [catalog' # catalog /\ catalog # <<>> =>
             Last(catalog').manifest.document > Last(catalog).manifest.document]_vars
    <2> SUFFICES ASSUME PubInv, [Next]_vars, catalog' # catalog, catalog # <<>>
                 PROVE  Last(catalog').manifest.document > Last(catalog).manifest.document
      OBVIOUS
    <2> QED BY <1>1
  <1> QED BY <1>2, AlwaysPub, PTL DEF Spec, LatestNeverGoesBack

-----------------------------------------------------------------------------
(* Publishers and collector keep what RemoteDataset promises *)

\* What a reader sees of the pointer c.
Seen(c) == [generation |-> c.generation,
            lists |-> [data |-> c.manifest.data, provenance |-> c.manifest.provenance, manifest |-> c.manifest]]

LEMMA SeenIsListing ==
  ASSUME NEW c \in Pointer
  PROVE  /\ Seen(c) # None /\ Seen(c).generation = c.generation /\ DOMAIN Seen(c).lists = Objects
         /\ Seen(c).lists.data = c.manifest.data /\ Seen(c).lists.provenance = c.manifest.provenance
         /\ Seen(c).lists.manifest = c.manifest
  <1>1. c.generation \in Generation /\ c.manifest \in Manifest
    BY DEF Pointer
  <1>2. c.manifest.data \in Content /\ c.manifest.provenance \in Document
    BY <1>1 DEF Manifest
  <1>3. Seen(c) \in Listing
    BY <1>1, <1>2 DEF Seen, Listing, Bundle
  <1>4. Seen(c) # None
    BY <1>3, ConstantsAssumption
  <1>5. DOMAIN Seen(c).lists = Objects
    BY DEF Seen, Objects
  <1> QED BY <1>4, <1>5 DEF Seen

LEMMA UploadRefines ==
  ASSUME PubInv, NEW p \in Publisher, PutData(p) \/ PutProvenance(p) \/ PutManifest(p)
  PROVE  Remote!Next \/ UNCHANGED <<Latest, store>>
  <1>1. PICK object \in Objects : \E value : Put(GenerationOf(p), object, value)
    BY DEF PutData, PutProvenance, PutManifest, Objects
  <1>2. Begun(p) /\ pub[p].pc \notin {"idle", "name"} /\ Latest' = Latest
    BY DEF PutData, PutProvenance, PutManifest, Step, Begun, Latest
  <1>3. PICK g \in Generation : g = GenerationOf(p)
    BY <1>2, ReadIsDocument
  <1>4. ASSUME NEW value, store[g][object] = None, store' = [store EXCEPT ![g][object] = value]
        PROVE  Remote!Next
    <2>1. store \in [Generation -> Bundle] /\ store[g] \in Bundle
      BY DEF PubInv, Types
    <2>2. store'[g] = [store[g] EXCEPT ![object] = value]
      BY <1>4, <2>1
    <2>3. store'[g][object] = value
      BY <2>1, <2>2 DEF Bundle, Objects
    <2>4. Remote!Upload(g, object)
      BY <1>2, <1>4, <2>3 DEF Remote!Upload
    <2> QED BY <2>4 DEF Remote!Next
  <1>5. CASE store' = store
    BY <1>2, <1>5
  <1> QED BY <1>1, <1>3, <1>4, <1>5 DEF Put

LEMMA MoveRefines ==
  ASSUME PubInv, PubInv', NEW p \in Publisher, Moves(p)
  PROVE  Remote!Point
  <1>1. catalog' # <<>> /\ store' = store
    <2>1. pub[p].pc \in Linked
      BY DEF Moves, Linked, Past
    <2> QED BY <2>1, LinkedManifest, Appended DEF Moves, PubInv, Types
  <1>2. Last(catalog') \in Pointer
    BY <1>1, LastOf DEF PubInv, Types
  <1>3. Latest' = Seen(Last(catalog'))
    BY <1>1 DEF Latest, Seen
  <1>4. /\ store[Last(catalog').generation].data = Last(catalog').manifest.data
        /\ store[Last(catalog').generation].provenance = Last(catalog').manifest.provenance
        /\ store[Last(catalog').generation].manifest = Last(catalog').manifest
    BY <1>1 DEF PubInv, CatalogInv
  <1>5. \A o \in DOMAIN Latest'.lists : store[Latest'.generation][o] = Latest'.lists[o]
    BY <1>2, <1>3, <1>4, SeenIsListing DEF Objects
  <1> QED BY <1>1, <1>2, <1>3, <1>5, SeenIsListing DEF Remote!Point, Remote!Whole

LEMMA DeleteRefines ==
  ASSUME PubInv, DeleteObject
  PROVE  Remote!Next
  <1>1. PICK item \in gc.doomed :
          store' = [store EXCEPT ![item[1]] = [store[item[1]] EXCEPT ![item[2]] = None]]
    BY DEF DeleteObject
  <1>2. PICK g \in Generation, x \in Objects : item = <<g, x>>
    BY DEF PubInv, Types, Collector
  <1>3. gc.pc = "delete" /\ Latest' = Latest
    BY DEF DeleteObject, Latest
  <1>4. g # Last(catalog).generation /\ catalog # <<>> /\ Last(catalog) \in Pointer
    BY <1>2, <1>3, LastOf DEF PubInv, Types, Collector, CollectorInv
  <1>5. Latest = Seen(Last(catalog))
    BY <1>4 DEF Latest, Seen
  <1>6. Latest # None /\ Latest.generation # g
    BY <1>4, <1>5, SeenIsListing
  <1>7. store' = [store EXCEPT ![g][x] = None]
    BY <1>1, <1>2
  <1>8. Remote!Remove(g, x)
    BY <1>3, <1>6, <1>7 DEF Remote!Remove
  <1> QED BY <1>8 DEF Remote!Next

\* Seen by a reader that starts at the pointer, publishers that overlap, fail
\* and die, and the collector, only ever add a new object, point at a
\* generation that is whole, or take an object of a generation the pointer
\* does not name.
THEOREM PublicationIsRemoteDataset ==
  ASSUME CommitsApart, CollectsApart PROVE Spec => ImplementsRemoteDataset
  <1>1. Init => Remote!Init
    <2> SUFFICES ASSUME Init PROVE Remote!Init
      OBVIOUS
    <2>1. NoBundle = [o \in Objects |-> None]
      BY DEF NoBundle, Objects
    <2> QED BY <2>1 DEF Init, Remote!Init, Latest
  <1>2. PubInv /\ PubInv' /\ [Next]_vars => [Remote!Next]_<<Latest, store>>
    <2> SUFFICES ASSUME PubInv, PubInv', [Next]_vars
                 PROVE  Remote!Next \/ UNCHANGED <<Latest, store>>
      OBVIOUS
    <2>1. CASE \E p \in Publisher : PutData(p) \/ PutProvenance(p) \/ PutManifest(p)
      BY <2>1, UploadRefines
    <2>2. CASE \E p \in Publisher : CreatePointer(p) \/ (SwapPointer(p) /\ catalog' # catalog)
      BY <2>2, MovesPointer, MoveRefines DEF Remote!Next
    <2>3. CASE DeleteObject
      BY <2>3, DeleteRefines
    <2>4. CASE UNCHANGED <<catalog, store>>
      BY <2>4 DEF Latest
    <2>5. \/ \E p \in Publisher : PutData(p) \/ PutProvenance(p) \/ PutManifest(p)
          \/ \E p \in Publisher : CreatePointer(p) \/ (SwapPointer(p) /\ catalog' # catalog)
          \/ DeleteObject
          \/ UNCHANGED <<catalog, store>>
      <3>1. CASE UNCHANGED vars
        BY <3>1 DEF vars
      <3>2. CASE Commit \/ Collect
        BY <3>2 DEF Commit, Collect, PlanCollection, ListCandidates, ConfirmPlan, CollectionEnds
      <3>3. ASSUME NEW p \in Publisher,
                   \/ ReadManifest(p) \/ NameGeneration(p) \/ HashManifest(p) \/ HeadPointer(p)
                   \/ ReadParent(p) \/ LinkParts(p) \/ LinkManifest(p)
            PROVE  UNCHANGED <<catalog, store>>
        BY <3>3 DEF ReadManifest, NameGeneration, HashManifest, HeadPointer, ReadParent, LinkParts, LinkManifest
      <3>4. ASSUME NEW p \in Publisher,
                   \/ VerifyUploaded(p) \/ VerifyManifest(p) \/ ComparePointer(p) \/ Reconcile(p)
                   \/ WriteReceipt(p) \/ PublicationFails(p) \/ Die(p)
            PROVE  UNCHANGED <<catalog, store>>
        BY <3>4 DEF VerifyUploaded, VerifyManifest, ComparePointer, Reconcile, WriteReceipt,
                    PublicationFails, Die
      <3>5. ASSUME NEW p \in Publisher, SwapPointer(p), catalog' = catalog
            PROVE  UNCHANGED <<catalog, store>>
        BY <3>5 DEF SwapPointer
      <3> QED BY <3>1, <3>2, <3>3, <3>4, <3>5 DEF Next, Publish
    <2> QED BY <2>1, <2>2, <2>3, <2>4, <2>5
  <1> QED BY <1>1, <1>2, AlwaysPub, PTL DEF Spec, ImplementsRemoteDataset, Remote!Spec
=============================================================================
