------------------------------ MODULE StoresProofs ------------------------------
(* Proofs about what is kept between runs: what a calculated fact says of the  *)
(* calculations it skipped, for any expressions, parts, columns and number of  *)
(* changes; what a reader of a published dataset gets, for any readers, parts, *)
(* generations and indexes; and what is in a joined dataset that counts as up  *)
(* to date, for any files, keys, definitions, parts and contents.              *)
EXTENDS MCStores, FiniteSetTheorems, TLAPS

-----------------------------------------------------------------------------
(* The status of calculations.  Between Record and WriteStatus the status is   *)
(* behind for what the run has processed, and between WriteStatus and          *)
(* AppendEvents the events are behind for what the run is about to tell.       *)

Agrees(k) ==
  /\ Calculated!Blocked(k) <=> k \in DOMAIN attempt /\ attempt[k] = "skipped"
  /\ Calculated!Recovered(k) => k \in DOMAIN attempt /\ attempt[k] = "calculated"

Said(k) ==
  /\ k \in DOMAIN told <=> k \in DOMAIN status
  /\ k \in DOMAIN told => told[k] = status[k]

Behind == IF factRun.pc = "status" THEN Calculated!Processed(factRun) ELSE {}
Pending == IF factRun.pc = "events" THEN factRun.events ELSE {}

Attempted(k) ==
  k \in DOMAIN attempt /\ attempt[k] = IF k \in factRun.skipped THEN "skipped" ELSE "calculated"

StatusInv ==
  /\ Calculated!TypeOK
  /\ factRun.skipped \subseteq Calculated!Processed(factRun)
  /\ factRun.pc \in {"record", "status"} => Calculated!SkippedEverywhere(factRun) \subseteq factRun.skipped
  /\ \A k \in Calculated!Key \ (guessed \cup Behind) : Agrees(k)
  /\ \A k \in Behind : Attempted(k)
  /\ \A k \in Calculated!Key \ (lost \cup Pending) : Said(k)
  /\ factRun.pc = "events" => factRun.events \subseteq DOMAIN status

RunType ==
  [pc : {"idle", "process", "record", "status", "events", "metadata"},
   columns : [Path -> SUBSET Column], needs : [Expression -> SUBSET Column],
   current : SUBSET Calculated!Segment, selected : SUBSET Calculated!Segment,
   skipped : SUBSET Calculated!Key, events : SUBSET Calculated!Key]

\* What a run processes is decided when it plans.
LEMMA SamePlan ==
  ASSUME NEW r, NEW q, q.columns = r.columns, q.needs = r.needs, q.current = r.current,
         q.selected = r.selected
  PROVE  /\ Calculated!Planned(q) = Calculated!Planned(r)
         /\ Calculated!Processed(q) = Calculated!Processed(r)
         /\ Calculated!SkippedEverywhere(q) = Calculated!SkippedEverywhere(r)
  BY DEF Calculated!Planned, Calculated!Processed, Calculated!SkippedEverywhere, Calculated!Dataset

LEMMA ProcessedTypes ==
  ASSUME NEW r \in RunType, r.selected \subseteq r.current
  PROVE  /\ Calculated!Planned(r) \subseteq Expression
         /\ Calculated!Processed(r) \subseteq Calculated!Key
         /\ Calculated!SkippedEverywhere(r) \cup Calculated!SkippedInSegments(r)
              \subseteq Calculated!Processed(r)
         /\ Calculated!Processed(r) \ Calculated!SkippedEverywhere(r)
              \subseteq Calculated!Planned(r) \X r.current
  <1>1. Calculated!Planned(r) \subseteq Expression
    BY DEF Calculated!Planned
  <1>2. r.current \subseteq Calculated!Segment /\ r.selected \subseteq Calculated!Segment
    BY DEF RunType
  <1>3. Calculated!SkippedEverywhere(r) \subseteq Calculated!Key
    BY <1>2 DEF Calculated!SkippedEverywhere, Calculated!Key
  <1>4. Calculated!Planned(r) \X r.selected \subseteq Calculated!Key
    BY <1>1, <1>2 DEF Calculated!Key
  <1>5. Calculated!SkippedInSegments(r) \subseteq Calculated!Planned(r) \X r.selected
    BY DEF Calculated!SkippedInSegments
  <1>6. Calculated!Planned(r) \X r.selected \subseteq Calculated!Planned(r) \X r.current
    OBVIOUS
  <1> QED BY <1>1, <1>3, <1>4, <1>5, <1>6 DEF Calculated!Processed

LEMMA IdleRun ==
  /\ Calculated!Idle \in RunType /\ Calculated!Idle.selected \subseteq Calculated!Idle.current
  /\ Calculated!Idle.pc = "idle" /\ Calculated!Idle.skipped = {}
  BY DEF Calculated!Idle, RunType

LEMMA StatusInit == Calculated!Init => StatusInv
  <1> SUFFICES ASSUME Calculated!Init PROVE StatusInv
    OBVIOUS
  <1>1. factRun \in RunType /\ factRun.selected \subseteq factRun.current /\ factRun.pc = "idle"
        /\ factRun.skipped = {}
    BY IdleRun DEF Calculated!Init
  <1>2. DOMAIN status = {} /\ DOMAIN told = {} /\ DOMAIN attempt = {}
    BY DEF Calculated!Init
  <1>3. upstream \in [Path -> [version : Calculated!Version, columns : SUBSET Column]]
    <2>1. {1} \subseteq Calculated!Version
      BY StatusConstants DEF Calculated!Version, Calculated!StatusAssumption
    <2>2. \A p \in Path : upstream[p] \in [version : Calculated!Version, columns : SUBSET Column]
      BY <2>1 DEF Calculated!Init
    <2> QED BY <2>2 DEF Calculated!Init
  <1>4. Calculated!TypeOK
    <2>1. factChanges \in 0 .. MaxFactChanges
      BY StatusConstants DEF Calculated!Init, Calculated!StatusAssumption
    <2> QED BY <1>1, <1>2, <1>3, <2>1 DEF Calculated!Init, Calculated!TypeOK, RunType
  <1>5. \A k \in Calculated!Key : Agrees(k) /\ Said(k)
    BY <1>2 DEF Agrees, Said, Calculated!Blocked, Calculated!Recovered
  <1> QED BY <1>1, <1>4, <1>5 DEF StatusInv, Behind

LEMMA StatusTypes ==
  ASSUME StatusInv
  PROVE  /\ factRun \in RunType /\ factRun.selected \subseteq factRun.current
         /\ \A k \in DOMAIN status : k \in Calculated!Key /\ status[k] \in Calculated!Status
         /\ \A k \in DOMAIN told : k \in Calculated!Key /\ told[k] \in Calculated!Status
  BY DEF StatusInv, Calculated!TypeOK, RunType

(* Changes of the upstream and of the definition, the plan, and what a run     *)
(* does before it records anything.                                            *)
LEMMA ChangesKeep ==
  ASSUME StatusInv,
         \/ \E p \in Path : Calculated!RewritePart(p)
         \/ \E e \in Expression : Calculated!EditExpression(e)
  PROVE  StatusInv'
  <1>1. UNCHANGED <<calculations, status, told, noted, factRun, attempt, guessed, lost>>
    BY DEF Calculated!RewritePart, Calculated!EditExpression, Calculated!files, Calculated!history
  <1>2. factChanges' \in 0 .. MaxFactChanges
    BY StatusConstants
       DEF StatusInv, Calculated!TypeOK, Calculated!RewritePart, Calculated!EditExpression,
           Calculated!StatusAssumption
  <1>3. upstream' \in [Path -> [version : Calculated!Version, columns : SUBSET Column]]
    <2>1. factChanges < MaxFactChanges => factChanges + 2 \in Calculated!Version
      BY StatusConstants DEF StatusInv, Calculated!TypeOK, Calculated!Version, Calculated!StatusAssumption
    <2> QED BY <2>1 DEF StatusInv, Calculated!TypeOK, Calculated!RewritePart, Calculated!EditExpression
  <1>4. needs' \in [Expression -> SUBSET Column] /\ \A e \in Expression : needs'[e] \in Needs[e]
    <2>1. CASE needs' = needs
      BY <2>1 DEF StatusInv, Calculated!TypeOK
    <2>2. CASE \E e \in Expression : Calculated!EditExpression(e)
      <3>1. PICK e \in Expression : \E n \in Needs[e] : needs' = [needs EXCEPT ![e] = n]
        BY <2>2 DEF Calculated!EditExpression
      <3>2. PICK n \in Needs[e] : needs' = [needs EXCEPT ![e] = n]
        BY <3>1
      <3>3. n \in SUBSET Column
        BY StatusConstants DEF Calculated!StatusAssumption
      <3> QED BY <3>2, <3>3 DEF StatusInv, Calculated!TypeOK
    <2> QED BY <2>1, <2>2 DEF Calculated!RewritePart
  <1>5. Calculated!TypeOK'
    BY <1>1, <1>2, <1>3, <1>4 DEF StatusInv, Calculated!TypeOK
  <1>6. /\ Behind' = Behind /\ Pending' = Pending
        /\ Calculated!Processed(factRun)' = Calculated!Processed(factRun)
        /\ Calculated!SkippedEverywhere(factRun)' = Calculated!SkippedEverywhere(factRun)
    BY <1>1 DEF Behind, Pending, Calculated!Processed, Calculated!SkippedEverywhere, Calculated!Planned, Calculated!Dataset
  <1>7. \A k : (Agrees(k)' <=> Agrees(k)) /\ (Said(k)' <=> Said(k)) /\ (Attempted(k)' <=> Attempted(k))
    BY <1>1 DEF Agrees, Said, Attempted, Calculated!Blocked, Calculated!Recovered
  <1> QED BY <1>1, <1>5, <1>6, <1>7 DEF StatusInv

(* What is said stays as true as it was, if neither it nor the attempts change. *)
LEMMA QuietStatus ==
  ASSUME StatusInv, UNCHANGED <<status, told, attempt, guessed, lost>>,
         Calculated!TypeOK', Behind = {}, Behind' = {}, Pending = {}, Pending' = {}, factRun'.pc # "events",
         factRun'.skipped \subseteq Calculated!Processed(factRun)',
         factRun'.pc # "status",
         factRun'.pc = "record" => Calculated!SkippedEverywhere(factRun)' \subseteq factRun'.skipped
  PROVE  StatusInv'
  <1>1. \A k : (Agrees(k)' <=> Agrees(k)) /\ (Said(k)' <=> Said(k))
    BY DEF Agrees, Said, Calculated!Blocked, Calculated!Recovered
  <1> QED BY <1>1 DEF StatusInv

LEMMA PlanKeeps == ASSUME StatusInv, Calculated!Plan PROVE StatusInv'
  <1> DEFINE r == [Calculated!Idle EXCEPT !.pc = "process",
                     !.columns = [p \in Path |-> upstream[p].columns], !.needs = needs,
                     !.current = {Calculated!SegmentOf(p) : p \in Path}]
             selected == Calculated!Selected(r.current, Calculated!Contract(r))
  <1>1. /\ factRun.pc = "idle" /\ factRun' = [r EXCEPT !.selected = selected]
        /\ UNCHANGED <<needs, upstream, calculations, status, told, noted, factChanges, attempt, guessed, lost>>
    BY DEF Calculated!Plan, Calculated!definition, Calculated!files, Calculated!history
  <1>2. Calculated!TypeOK
    BY DEF StatusInv
  <1>3. r.current \subseteq Calculated!Segment
    BY <1>2 DEF Calculated!Idle, Calculated!SegmentOf, Calculated!Segment, Calculated!TypeOK
  <1>4. r \in RunType /\ r.skipped = {}
    BY <1>2, <1>3, IdleRun DEF RunType, Calculated!Idle, Calculated!TypeOK
  <1>5. selected \subseteq r.current
    BY DEF Calculated!Selected
  <1>6. /\ factRun' \in RunType /\ factRun'.selected \subseteq factRun'.current
        /\ factRun'.pc = "process" /\ factRun'.skipped = {}
    <2> HIDE DEF selected
    <2>1. r.pc = "process"
      BY DEF Calculated!Idle
    <2> HIDE DEF r
    <2> QED BY <1>1, <1>3, <1>4, <1>5, <2>1 DEF RunType
  <1>7. Calculated!TypeOK'
    BY <1>1, <1>2, <1>6 DEF Calculated!TypeOK, RunType
  <1> QED BY <1>1, <1>6, <1>7, QuietStatus DEF Behind, Pending

LEMMA ProcessKeeps == ASSUME StatusInv, Calculated!Process PROVE StatusInv'
  <1> DEFINE skipped == Calculated!SkippedEverywhere(factRun) \cup Calculated!SkippedInSegments(factRun)
  <1>1. /\ factRun.pc = "process" /\ factRun' = [factRun EXCEPT !.pc = "record", !.skipped = skipped]
        /\ UNCHANGED <<needs, upstream, calculations, status, told, noted, factChanges, attempt, guessed, lost>>
    BY DEF Calculated!Process, Calculated!definition, Calculated!files, Calculated!history
  <1>2. factRun \in RunType /\ factRun.selected \subseteq factRun.current
    BY StatusTypes
  <1>3. /\ skipped \subseteq Calculated!Processed(factRun) /\ skipped \subseteq Calculated!Key
        /\ Calculated!SkippedEverywhere(factRun) \subseteq skipped
    BY <1>2, ProcessedTypes
  <1> HIDE DEF skipped
  <1>4. /\ factRun' \in RunType /\ factRun'.pc = "record" /\ factRun'.skipped = skipped
        /\ factRun'.columns = factRun.columns /\ factRun'.needs = factRun.needs
        /\ factRun'.current = factRun.current /\ factRun'.selected = factRun.selected
    BY <1>1, <1>2, <1>3 DEF RunType
  <1>5. /\ Calculated!Processed(factRun)' = Calculated!Processed(factRun)
        /\ Calculated!SkippedEverywhere(factRun)' = Calculated!SkippedEverywhere(factRun)
    BY <1>1, <1>4, SamePlan
  <1>6. Calculated!TypeOK'
    BY <1>1, <1>2, <1>4 DEF StatusInv, Calculated!TypeOK, RunType
  <1> QED BY <1>1, <1>3, <1>4, <1>5, <1>6, QuietStatus DEF Behind, Pending

(* Only the calling of a run to its end changes what it knows of itself.       *)
LEMMA MovesOn ==
  ASSUME StatusInv, NEW l \in {"status", "metadata"}, factRun' = [factRun EXCEPT !.pc = l]
  PROVE  /\ factRun' \in RunType /\ factRun'.pc = l /\ factRun'.skipped = factRun.skipped
         /\ factRun'.events = factRun.events
         /\ factRun'.selected \subseteq factRun'.current
         /\ Calculated!Processed(factRun') = Calculated!Processed(factRun)
         /\ Calculated!SkippedEverywhere(factRun') = Calculated!SkippedEverywhere(factRun)
  <1>1. factRun \in RunType /\ factRun.selected \subseteq factRun.current
    BY StatusTypes
  <1>2. /\ factRun' \in RunType /\ factRun'.pc = l /\ factRun'.skipped = factRun.skipped
        /\ factRun'.columns = factRun.columns /\ factRun'.needs = factRun.needs
        /\ factRun'.current = factRun.current /\ factRun'.selected = factRun.selected
        /\ factRun'.events = factRun.events
    BY <1>1 DEF RunType
  <1>3. /\ Calculated!Processed(factRun') = Calculated!Processed(factRun)
        /\ Calculated!SkippedEverywhere(factRun') = Calculated!SkippedEverywhere(factRun)
    BY <1>2, SamePlan
  <1> QED BY <1>1, <1>2, <1>3

LEMMA RecordKeeps == ASSUME StatusInv, Calculated!Record PROVE StatusInv'
  <1> DEFINE P == Calculated!Processed(factRun)
  <1>1. /\ factRun.pc = "record" /\ factRun' = [factRun EXCEPT !.pc = "status"]
        /\ UNCHANGED <<needs, upstream, status, told, noted, factChanges, guessed, lost>>
        /\ calculations' = [contract |-> Calculated!Contract(factRun), segments |-> factRun.current]
        /\ attempt' = [k \in DOMAIN attempt \cup P |->
                        IF k \in factRun.skipped THEN "skipped"
                        ELSE IF k \in P THEN "calculated" ELSE attempt[k]]
    BY DEF Calculated!Record, Calculated!definition
  <1>2. /\ factRun' \in RunType /\ factRun'.pc = "status" /\ factRun'.skipped = factRun.skipped
        /\ factRun'.selected \subseteq factRun'.current
        /\ Calculated!Processed(factRun') = P
        /\ Calculated!SkippedEverywhere(factRun') = Calculated!SkippedEverywhere(factRun)
    BY <1>1, MovesOn
  <1>3. Calculated!TypeOK /\ factRun \in RunType /\ factRun.skipped \subseteq P /\ P \subseteq Calculated!Key
    BY StatusTypes, ProcessedTypes DEF StatusInv
  <1> HIDE DEF P
  <1>4. /\ DOMAIN attempt' = DOMAIN attempt \cup P
        /\ \A k \in P : attempt'[k] = IF k \in factRun.skipped THEN "skipped" ELSE "calculated"
        /\ \A k \in DOMAIN attempt \ P : attempt'[k] = attempt[k]
    BY <1>1, <1>3
  <1>5. Calculated!TypeOK'
    <2>1. /\ DOMAIN attempt' \subseteq Calculated!Key
          /\ \A k \in DOMAIN attempt' : attempt'[k] \in {"skipped", "calculated"}
      BY <1>3, <1>4 DEF Calculated!TypeOK
    <2>2. calculations'.segments \subseteq Calculated!Segment
      BY <1>1, <1>3 DEF RunType
    <2> QED BY <1>1, <1>2, <1>3, <2>1, <2>2 DEF Calculated!TypeOK, RunType
  <1>6. Behind' = P /\ Behind = {} /\ Pending' = {} /\ Pending = {}
    BY <1>1, <1>2 DEF Behind, Pending, P
  <1>7. \A k \in P : Attempted(k)'
    BY <1>2, <1>4 DEF Attempted
  <1>8. ASSUME NEW k \in Calculated!Key \ (guessed \cup P) PROVE Agrees(k)'
    <2>1. Agrees(k)
      BY <1>6, <1>8 DEF StatusInv
    <2>2. k \in DOMAIN attempt' <=> k \in DOMAIN attempt
      BY <1>4, <1>8
    <2>3. k \in DOMAIN attempt => attempt'[k] = attempt[k]
      BY <1>4, <1>8
    <2> QED BY <1>1, <2>1, <2>2, <2>3 DEF Agrees, Calculated!Blocked, Calculated!Recovered
  <1>9. \A k : Said(k)' <=> Said(k)
    BY <1>1 DEF Said
  <1>10. /\ Calculated!Processed(factRun)' = P
         /\ Calculated!SkippedEverywhere(factRun)' \subseteq factRun'.skipped
    BY <1>1, <1>2 DEF StatusInv
  <1> QED BY <1>1, <1>2, <1>3, <1>5, <1>6, <1>7, <1>8, <1>9, <1>10 DEF StatusInv

LEMMA AppendsEvents == ASSUME StatusInv, Calculated!AppendEvents PROVE StatusInv'
  <1>1. /\ factRun.pc = "events" /\ factRun' = [factRun EXCEPT !.pc = "metadata"]
        /\ UNCHANGED <<needs, upstream, calculations, status, noted, factChanges, attempt, guessed>>
        /\ told' = [k \in DOMAIN told \cup factRun.events |->
                     IF k \in factRun.events THEN status[k] ELSE told[k]]
        /\ lost' = lost \ factRun.events
    BY DEF Calculated!AppendEvents, Calculated!definition
  <1>2. /\ factRun' \in RunType /\ factRun'.pc = "metadata" /\ factRun'.skipped = factRun.skipped
        /\ factRun'.selected \subseteq factRun'.current
        /\ Calculated!Processed(factRun') = Calculated!Processed(factRun)
    BY <1>1, MovesOn
  <1>3. Calculated!TypeOK /\ factRun \in RunType /\ factRun.events \subseteq DOMAIN status
    BY <1>1, StatusTypes DEF StatusInv
  <1>4. /\ DOMAIN told' = DOMAIN told \cup factRun.events
        /\ \A k \in factRun.events : told'[k] = status[k]
        /\ \A k \in DOMAIN told \ factRun.events : told'[k] = told[k]
    BY <1>1
  <1>5. Calculated!TypeOK'
    <2>1. DOMAIN told' \subseteq Calculated!Key /\ \A k \in DOMAIN told' : told'[k] \in Calculated!Status
      BY <1>3, <1>4, StatusTypes
    <2>2. lost' \subseteq Calculated!Key
      BY <1>1, <1>3 DEF Calculated!TypeOK
    <2> QED BY <1>1, <1>2, <1>3, <2>1, <2>2 DEF Calculated!TypeOK, RunType
  <1>6. Behind' = {} /\ Behind = {} /\ Pending' = {} /\ Pending = factRun.events
    BY <1>1, <1>2 DEF Behind, Pending
  <1>7. \A k : Agrees(k)' <=> Agrees(k)
    BY <1>1 DEF Agrees, Calculated!Blocked, Calculated!Recovered
  <1>8. ASSUME NEW k \in Calculated!Key \ lost' PROVE Said(k)'
    <2>1. CASE k \in factRun.events
      BY <1>1, <1>3, <1>4, <2>1 DEF Said
    <2>2. CASE k \notin factRun.events
      <3>1. Said(k)
        BY <1>1, <1>6, <1>8, <2>2 DEF StatusInv
      <3>2. k \in DOMAIN told' <=> k \in DOMAIN told
        BY <1>4, <2>2
      <3>3. k \in DOMAIN told => told'[k] = told[k]
        BY <1>4, <2>2
      <3> QED BY <1>1, <3>1, <3>2, <3>3 DEF Said
    <2> QED BY <2>1, <2>2
  <1>9. factRun'.skipped \subseteq Calculated!Processed(factRun)'
    BY <1>2 DEF StatusInv
  <1> QED BY <1>1, <1>2, <1>5, <1>6, <1>7, <1>8, <1>9 DEF StatusInv

(* The end of a run, by itself or by its death.                                *)
LEMMA EndKeeps == ASSUME StatusInv, Calculated!WriteMetadata \/ Calculated!Die PROVE StatusInv'
  <1>1. /\ factRun' = Calculated!Idle
        /\ UNCHANGED <<needs, upstream, calculations, status, told, factChanges, attempt>>
    BY DEF Calculated!WriteMetadata, Calculated!Die, Calculated!definition, Calculated!files,
           Calculated!history
  <1>2. guessed' = guessed \cup Behind /\ lost' = lost \cup Pending
    BY DEF Calculated!WriteMetadata, Calculated!Die, Calculated!history, Behind, Pending
  <1>3. /\ factRun' \in RunType /\ factRun'.selected \subseteq factRun'.current
        /\ factRun'.pc = "idle" /\ factRun'.skipped = {}
    BY <1>1, IdleRun
  <1>4. Behind \subseteq Calculated!Key /\ Pending \subseteq Calculated!Key
    BY StatusTypes, ProcessedTypes DEF Behind, Pending, RunType
  <1>5. Calculated!TypeOK'
    <2>1. noted' \subseteq Expression
      BY DEF StatusInv, Calculated!TypeOK, Calculated!WriteMetadata, Calculated!Die, Calculated!files
    <2>2. guessed' \subseteq Calculated!Key /\ lost' \subseteq Calculated!Key
      BY <1>2, <1>4 DEF StatusInv, Calculated!TypeOK
    <2> QED BY <1>1, <1>3, <2>1, <2>2 DEF StatusInv, Calculated!TypeOK, RunType
  <1>6. \A k : (Agrees(k)' <=> Agrees(k)) /\ (Said(k)' <=> Said(k))
    BY <1>1 DEF Agrees, Said, Calculated!Blocked, Calculated!Recovered
  <1>7. Behind' = {} /\ Pending' = {}
    BY <1>3 DEF Behind, Pending
  <1> QED BY <1>2, <1>3, <1>5, <1>6, <1>7 DEF StatusInv

(* The status is written: what was skipped is blocked, what was blocked and is *)
(* not skipped any more has recovered, and all else stays.                     *)
LEMMA WritesStatus == ASSUME StatusInv, Calculated!WriteStatus PROVE StatusInv'
  <1> DEFINE P == Calculated!Processed(factRun)
             recovered == {k \in DOMAIN status : Calculated!Recovers(factRun, k)}
             blocked == factRun.skipped \ recovered
             events == recovered \cup
                         {k \in blocked : Calculated!NewlyBlocked(k, Calculated!Observation(factRun, k))}
             told1(k) == IF k \in blocked THEN Calculated!Observation(factRun, k)
                         ELSE IF k \in recovered
                              THEN [state |-> "recovered", missing |-> status[k].missing,
                                    schema |-> Calculated!Dataset(factRun)]
                              ELSE status[k]
  <1>1. /\ factRun.pc = "status" /\ factRun' = [factRun EXCEPT !.pc = "events", !.events = events]
        /\ UNCHANGED <<needs, upstream, calculations, told, noted, factChanges, attempt, lost>>
        /\ status' = [k \in DOMAIN status \cup blocked |-> told1(k)]
        /\ guessed' = (guessed \ P) \cup (recovered \ P)
    BY DEF Calculated!WriteStatus, Calculated!definition
  <1>2. Calculated!TypeOK /\ factRun \in RunType /\ factRun.skipped \subseteq P /\ P \subseteq Calculated!Key
        /\ factRun.selected \subseteq factRun.current
    BY StatusTypes, ProcessedTypes DEF StatusInv
  <1>3. /\ blocked \subseteq factRun.skipped /\ recovered \subseteq DOMAIN status
        /\ recovered \cap factRun.skipped = {} /\ blocked = factRun.skipped
        /\ \A k \in recovered : Calculated!Blocked(k)
    BY DEF Calculated!Recovers
  <1>4. \A k \in P \ factRun.skipped : Calculated!Blocked(k) => k \in recovered
    <2> SUFFICES ASSUME NEW k \in P \ factRun.skipped, Calculated!Blocked(k) PROVE k \in recovered
      OBVIOUS
    <2>1. k \notin Calculated!SkippedEverywhere(factRun) => k \in Calculated!Planned(factRun) \X factRun.current
      BY <1>2, ProcessedTypes
    <2>2. k \notin Calculated!SkippedEverywhere(factRun)
      BY <1>1 DEF StatusInv
    <2> QED BY <2>1, <2>2 DEF Calculated!Recovers, Calculated!Blocked
  <1>5. ASSUME NEW k \in factRun.skipped
        PROVE  /\ Calculated!Observation(factRun, k) \in Calculated!Status
               /\ Calculated!Observation(factRun, k).state = "blocked"
    <2>1. PICK e \in Expression, p \in Path, v \in Calculated!Version : k = <<e, <<p, v>>>>
      BY <1>2, <1>5 DEF Calculated!Key, Calculated!Segment
    <2>2. factRun.needs[k[1]] \subseteq Column /\ factRun.columns[k[2][1]] \subseteq Column
      BY <1>2, <2>1 DEF RunType
    <2>3. Calculated!Dataset(factRun) \subseteq Column
      BY <1>2 DEF RunType, Calculated!Dataset
    <2> QED BY <2>2, <2>3 DEF Calculated!Observation, Calculated!Status
  <1>6. ASSUME NEW k \in DOMAIN status \cup blocked
        PROVE  k \in Calculated!Key /\ told1(k) \in Calculated!Status
    <2>1. k \in Calculated!Key /\ (k \in DOMAIN status => status[k] \in Calculated!Status)
      BY <1>2, <1>3, <1>6, StatusTypes
    <2>2. CASE k \in blocked
      BY <1>3, <1>5, <2>1, <2>2
    <2>3. CASE k \in recovered
      <3>1. Calculated!Dataset(factRun) \subseteq Column
        BY <1>2 DEF RunType, Calculated!Dataset
      <3>2. status[k].missing \subseteq Column
        BY <1>3, <2>1, <2>3 DEF Calculated!Status
      <3> QED BY <1>3, <2>1, <2>3, <3>1, <3>2 DEF Calculated!Status
    <2>4. CASE k \notin blocked /\ k \notin recovered
      BY <1>6, <2>1, <2>4
    <2> QED BY <2>2, <2>3, <2>4
  <1>7. /\ \A k \in blocked : told1(k) = Calculated!Observation(factRun, k)
        /\ \A k \in recovered : told1(k).state = "recovered"
        /\ \A k \in DOMAIN status : k \notin blocked /\ k \notin recovered => told1(k) = status[k]
    BY <1>3
  <1>8. \A k \in blocked : k \notin events => k \in DOMAIN status /\ status[k] = Calculated!Observation(factRun, k)
    BY DEF Calculated!NewlyBlocked
  <1>9. events \subseteq DOMAIN status \cup blocked /\ recovered \subseteq events
    BY <1>3
  <1> HIDE DEF P, recovered, blocked, events, told1
  <1>10. /\ DOMAIN status' = DOMAIN status \cup blocked
         /\ \A k \in DOMAIN status \cup blocked : status'[k] = told1(k)
    BY <1>1
  <1>11. events \subseteq Calculated!Key
    BY <1>6, <1>9
  <1>12. /\ factRun' \in RunType /\ factRun'.pc = "events" /\ factRun'.events = events
         /\ factRun'.skipped = factRun.skipped /\ factRun'.selected \subseteq factRun'.current
         /\ Calculated!Processed(factRun)' = P
    <2>1. /\ factRun' \in RunType /\ factRun'.pc = "events" /\ factRun'.events = events
          /\ factRun'.columns = factRun.columns /\ factRun'.needs = factRun.needs
          /\ factRun'.current = factRun.current /\ factRun'.selected = factRun.selected
          /\ factRun'.skipped = factRun.skipped
      BY <1>1, <1>2, <1>11 DEF RunType
    <2>2. Calculated!Processed(factRun') = Calculated!Processed(factRun)
      BY <2>1, SamePlan
    <2> QED BY <1>2, <2>1, <2>2 DEF P
  <1>13. Calculated!TypeOK'
    <2>1. DOMAIN status' \subseteq Calculated!Key /\ \A k \in DOMAIN status' : status'[k] \in Calculated!Status
      BY <1>6, <1>10
    <2>2. guessed' \subseteq Calculated!Key
      <3>1. recovered \subseteq Calculated!Key
        BY <1>3, StatusTypes
      <3> QED BY <1>1, <1>2, <3>1 DEF Calculated!TypeOK
    <2> QED BY <1>1, <1>2, <1>12, <2>1, <2>2 DEF Calculated!TypeOK, RunType
  <1>14. Behind' = {} /\ Behind = P /\ Pending' = events /\ Pending = {}
    BY <1>1, <1>12 DEF Behind, Pending, P
  <1>15. ASSUME NEW k \in Calculated!Key \ guessed' PROVE Agrees(k)'
    <2>1. CASE k \in factRun.skipped
      <3>1. Attempted(k)
        BY <1>2, <1>14, <2>1 DEF StatusInv
      <3>2. k \in DOMAIN status' /\ status'[k].state = "blocked"
        BY <1>3, <1>5, <1>7, <1>10, <2>1
      <3> QED BY <1>1, <2>1, <3>1, <3>2 DEF Agrees, Attempted, Calculated!Blocked, Calculated!Recovered
    <2>2. CASE k \in P \ factRun.skipped
      <3>1. k \in DOMAIN attempt /\ attempt[k] = "calculated"
        BY <1>14, <2>2 DEF StatusInv, Attempted
      <3>2. ~Calculated!Blocked(k)'
        <4>1. CASE k \in recovered
          BY <1>3, <1>7, <1>10, <4>1 DEF Calculated!Blocked
        <4>2. CASE k \notin recovered
          <5>1. ~Calculated!Blocked(k) /\ k \notin blocked
            BY <1>3, <1>4, <2>2, <4>2
          <5> QED BY <1>7, <1>10, <4>2, <5>1 DEF Calculated!Blocked
        <4> QED BY <4>1, <4>2
      <3> QED BY <1>1, <3>1, <3>2 DEF Agrees
    <2>3. CASE k \notin P
      <3>1. k \notin guessed /\ k \notin recovered /\ k \notin blocked
        BY <1>1, <1>2, <1>3, <1>15, <2>3
      <3>2. Agrees(k)
        BY <1>14, <1>15, <2>3, <3>1 DEF StatusInv
      <3>3. (k \in DOMAIN status' <=> k \in DOMAIN status) /\ (k \in DOMAIN status => status'[k] = status[k])
        BY <1>7, <1>10, <3>1
      <3> QED BY <1>1, <3>2, <3>3 DEF Agrees, Calculated!Blocked, Calculated!Recovered
    <2> QED BY <2>1, <2>2, <2>3
  <1>16. ASSUME NEW k \in Calculated!Key \ (lost' \cup events) PROVE Said(k)'
    <2>1. Said(k)
      BY <1>1, <1>14, <1>16 DEF StatusInv
    <2>2. (k \in DOMAIN status' <=> k \in DOMAIN status) /\ (k \in DOMAIN status => status'[k] = status[k])
      BY <1>7, <1>8, <1>9, <1>10, <1>16
    <2> QED BY <1>1, <2>1, <2>2 DEF Said
  <1>17. factRun'.events \subseteq DOMAIN status'
    BY <1>9, <1>10, <1>12
  <1> QED BY <1>2, <1>12, <1>13, <1>14, <1>15, <1>16, <1>17 DEF StatusInv

LEMMA StatusStep == ASSUME StatusInv, Calculated!Next PROVE StatusInv'
  BY ChangesKeep, PlanKeeps, ProcessKeeps, RecordKeeps, WritesStatus, AppendsEvents, EndKeeps
     DEF Calculated!Next

LEMMA StatusStutter == ASSUME StatusInv, UNCHANGED statusVars PROVE StatusInv'
  <1>1. /\ UNCHANGED <<needs, upstream, calculations, status, told, noted, factRun>>
        /\ UNCHANGED <<factChanges, attempt, guessed, lost>>
    BY DEF statusVars
  <1>2. Calculated!TypeOK'
    BY <1>1 DEF StatusInv, Calculated!TypeOK
  <1>3. /\ Behind' = Behind /\ Pending' = Pending
        /\ Calculated!Processed(factRun)' = Calculated!Processed(factRun)
        /\ Calculated!SkippedEverywhere(factRun)' = Calculated!SkippedEverywhere(factRun)
    BY <1>1 DEF Behind, Pending, Calculated!Processed, Calculated!SkippedEverywhere, Calculated!Planned, Calculated!Dataset
  <1>4. \A k : (Agrees(k)' <=> Agrees(k)) /\ (Said(k)' <=> Said(k)) /\ (Attempted(k)' <=> Attempted(k))
    BY <1>1 DEF Agrees, Said, Attempted, Calculated!Blocked, Calculated!Recovered
  <1> QED BY <1>1, <1>2, <1>3, <1>4 DEF StatusInv

\* Between runs a calculation is blocked exactly if it was skipped when its segment was last
\* processed, is not called recovered unless it was calculated then, and its last event is its
\* status, but for those StatusTellsAttempts and EventsTellStatus except: for any expressions,
\* parts, columns and changes, and wherever runs die (update_calculation_status).
THEOREM StatusIsTrue == StoresSpec => []StatusTellsTruth
  <1>1. StoresInit => StatusInv
    BY StatusInit DEF StoresInit
  <1>2. StatusInv /\ [StoresNext]_storesVars => StatusInv'
    BY StatusStep, StatusStutter
       DEF StoresNext, storesVars, OfPublishing, OfReading, OfJoining, OfCalculations
  <1>3. StatusInv => StatusTellsTruth
    <2> SUFFICES ASSUME StatusInv PROVE StatusTellsTruth
      OBVIOUS
    <2>1. factRun.pc = "idle" => Behind = {} /\ Pending = {}
      BY DEF Behind, Pending
    <2>2. Calculated!StatusTellsAttempts
      BY <2>1 DEF StatusInv, Agrees, Calculated!StatusTellsAttempts
    <2>3. Calculated!EventsTellStatus
      BY <2>1 DEF StatusInv, Said, Calculated!EventsTellStatus
    <2> QED BY <2>2, <2>3 DEF StatusInv, StatusTellsTruth, Calculated!StatusTellsTruth
  <1> QED BY <1>1, <1>2, <1>3, PTL DEF StoresSpec

-----------------------------------------------------------------------------
(* Reading a published dataset.  A reader knows one generation, which may be   *)
(* an old one by now; that which the pointer names is complete.                *)

Copying == {"check", "download", "unlink", "link", "copy", "verify"}
Pinned(m) == m.pc \notin {"idle", "open"}

MemoryType ==
  [mode : Remotely!Mode, pin : Remotely!Generation \cup {0}, todo : SUBSET Part,
   got : [Part -> Remotely!Content \cup {None}],
   pc : Remotely!AtRest \cup {"open", "manifest", "index", "project", "check", "download", "unlink",
                              "link", "copy", "verify", "payload"}]

\* What a reader has in hand.
Memory(m) ==
  /\ Pinned(m) => m.pin \in Remotely!Generation /\ m.pin <= Remotely!Current
  /\ m.pc = "index" => m.mode # "whole" /\ Remotely!IndexFor(m.mode) \in Indexes[m.pin]
  /\ m.pc = "project" => m.mode = "projected"
  /\ m.pc = "payload" => m.mode # "whole"
  /\ m.pc \in Copying => m.mode = "whole"
  /\ m.pc \in Copying \cup {"project", "payload"} => m.todo # {} /\ m.todo \subseteq Remotely!PartsOf(m.pin)
  /\ m.pc = "done" /\ m.mode = "whole" => m.todo = {}
  /\ m.pc \notin {"payload", "done", "missing", "failed"} => \A p \in Part : m.got[p] = None
  /\ Pinned(m) => \A p \in Part : m.got[p] \in {None, GenerationListing[m.pin][p]}
  /\ m.pc = "missing" => m.pin < Remotely!Current

\* What it has materialised of its generation, when nobody else is at work.
Placed(m, l) ==
  ~readerDeployment.overlap /\ m.mode = "whole" /\ m.pc \in Copying \cup {"done"} =>
    \A p \in Remotely!PartsOf(m.pin) \ m.todo : l[m.pin][p] = GenerationListing[m.pin][p]

PublishedInv ==
  /\ readerDeployment \in ReaderDeployments
  /\ latest = None \/ latest \in {Remotely!Pointer(g) : g \in Remotely!Generation}
  /\ \A g \in Remotely!Generation, o \in Remotely!Object : objects[g][o] \in {None, Remotely!Held(g, o)}
  /\ DOMAIN objects = Remotely!Generation /\ \A g \in Remotely!Generation : DOMAIN objects[g] = Remotely!Object
  /\ latest # None => \A o \in Remotely!ObjectsOf(Remotely!Current) :
       objects[Remotely!Current][o] = Remotely!Held(Remotely!Current, o)

\* A file is what its name says or is being copied, which readers that overlap never do.
Copies(l) ==
  /\ l \in [Remotely!Generation -> [Part -> Remotely!Content \cup {None, Remotely!Partial}]]
  /\ \A g \in Remotely!Generation, p \in Part :
       \/ l[g][p] \in {None, GenerationListing[g][p]}
       \/ l[g][p] = Remotely!Partial /\ ~readerDeployment.overlap

DiskInv == cache \subseteq Remotely!Content /\ proxies \subseteq Part \X Remotely!Content /\ Copies(copies)

Undisturbed(r) == readerDeployment.overlap \/ \A q \in Reader \ {r} : reader[q].pc = "idle"

ReaderInv(r) ==
  /\ Memory(reader[r]) /\ Placed(reader[r], copies)
  /\ reader[r].pc # "idle" => Undisturbed(r)

ReadInv ==
  /\ PublishedInv /\ DiskInv
  /\ reader \in [Reader -> MemoryType]
  /\ \A r \in Reader : ReaderInv(r)

LEMMA ReaderFacts ==
  /\ MaxGeneration \in Nat
  /\ \A g \in Remotely!Generation : Remotely!PartsOf(g) # {} /\ Indexes[g] \subseteq {"keys", "groups"}
  /\ "keys" \notin Part /\ "groups" \notin Part /\ "manifest" \notin Part
  /\ None \notin Remotely!Generation /\ Remotely!Partial \notin Remotely!Content
  /\ \A g \in Remotely!Generation : None # Remotely!Pointer(g)
  /\ ReaderDeployments \subseteq Remotely!Deployment
  BY ReaderConstants DEF Remotely!ReaderAssumption

\* The contents and objects of a generation.
LEMMA Held ==
  ASSUME NEW g \in Remotely!Generation
  PROVE  /\ g \in Nat /\ g # None /\ 1 <= g /\ g <= MaxGeneration
         /\ \A p \in Remotely!PartsOf(g) :
              /\ p \in Part /\ p \in Remotely!ObjectsOf(g)
              /\ GenerationListing[g][p] \in Remotely!Content /\ GenerationListing[g][p] # None
              /\ GenerationListing[g][p] # Remotely!Partial
         /\ \A p \in Part : Remotely!Held(g, p) = GenerationListing[g][p]
         /\ Remotely!ObjectsOf(g) \subseteq Remotely!Object
         /\ \A o \in Remotely!ObjectsOf(g) : Remotely!Held(g, o) # None
         /\ "manifest" \in Remotely!ObjectsOf(g) /\ Indexes[g] \subseteq Remotely!ObjectsOf(g)
         /\ "manifest" \in Remotely!Object
  <1>1. g \in Nat /\ 1 <= g /\ g <= MaxGeneration /\ g # None
    BY ReaderFacts DEF Remotely!Generation
  <1>2. ASSUME NEW p \in Remotely!PartsOf(g)
        PROVE  /\ p \in Part /\ p \in Remotely!ObjectsOf(g)
               /\ GenerationListing[g][p] \in Remotely!Content /\ GenerationListing[g][p] # None
               /\ GenerationListing[g][p] # Remotely!Partial
    <2>1. p \in Part /\ GenerationListing[g][p] # None /\ p \in Remotely!ObjectsOf(g)
      BY DEF Remotely!PartsOf, Remotely!ObjectsOf
    <2>2. GenerationListing[g][p] \in {GenerationListing[g][q] : q \in Part}
      BY <2>1
    <2>3. GenerationListing[g][p] \in UNION {{GenerationListing[h][q] : q \in Part} : h \in Remotely!Generation}
      BY <2>2
    <2>4. GenerationListing[g][p] \in Remotely!Content
      BY <2>1, <2>3 DEF Remotely!Content
    <2> QED BY <2>1, <2>4, ReaderFacts
  <1>3. \A p \in Part : Remotely!Held(g, p) = GenerationListing[g][p]
    BY DEF Remotely!Held
  <1>4. Remotely!ObjectsOf(g) \subseteq Remotely!Object /\ "manifest" \in Remotely!Object
    BY ReaderFacts DEF Remotely!ObjectsOf, Remotely!Object, Remotely!PartsOf
  <1>5. \A o \in Remotely!ObjectsOf(g) : Remotely!Held(g, o) # None
    BY <1>1, <1>2, ReaderFacts DEF Remotely!ObjectsOf, Remotely!Held, Remotely!PartsOf
  <1>6. "manifest" \in Remotely!ObjectsOf(g) /\ Indexes[g] \subseteq Remotely!ObjectsOf(g)
    BY DEF Remotely!ObjectsOf
  <1> QED BY <1>1, <1>2, <1>3, <1>4, <1>5, <1>6

\* What the pointer names.
LEMMA Pointed ==
  ASSUME PublishedInv
  PROVE  /\ Remotely!Current \in Nat /\ Remotely!Current <= MaxGeneration
         /\ latest = None => Remotely!Current = 0
         /\ latest # None => /\ Remotely!Current \in Remotely!Generation
                             /\ latest = Remotely!Pointer(Remotely!Current)
                             /\ latest.generation = Remotely!Current
  <1>1. CASE latest = None
    BY <1>1, ReaderFacts DEF Remotely!Current
  <1>2. CASE latest # None
    <2>1. PICK g \in Remotely!Generation : latest = Remotely!Pointer(g)
      BY <1>2 DEF PublishedInv
    <2>2. latest.generation = g
      BY <2>1 DEF Remotely!Pointer
    <2>3. Remotely!Current = g
      BY <1>2, <2>2 DEF Remotely!Current
    <2> QED BY <1>2, <2>1, <2>2, <2>3, Held
  <1> QED BY <1>1, <1>2

LEMMA ReadInit == Remotely!Init => ReadInv
  <1> SUFFICES ASSUME Remotely!Init PROVE ReadInv
    OBVIOUS
  <1>1. latest = None /\ objects = [g \in Remotely!Generation |-> [o \in Remotely!Object |-> None]]
    BY DEF Remotely!Init, Remotely!Remote!Init
  <1>2. PublishedInv
    BY <1>1 DEF Remotely!Init, PublishedInv
  <1>3. DiskInv
    BY DEF Remotely!Init, DiskInv, Copies
  <1>4. reader = [r \in Reader |-> Remotely!Idle]
    BY DEF Remotely!Init
  <1>5. Remotely!Idle \in MemoryType
    BY DEF Remotely!Idle, MemoryType, Remotely!Mode, Remotely!AtRest
  <1>6. Remotely!Idle.pc = "idle" /\ \A p \in Part : Remotely!Idle.got[p] = None
    BY DEF Remotely!Idle
  <1> QED BY <1>2, <1>3, <1>4, <1>5, <1>6 DEF ReadInv, ReaderInv, Memory, Pinned, Placed, Copying

\* The memory of a reader stays true while the pointer only goes forward.
LEMMA LaterMemory ==
  ASSUME NEW m \in MemoryType, Memory(m), m.pc = "missing" \/ Pinned(m) => Remotely!Current <= Remotely!Current',
         Remotely!Current \in Nat, Remotely!Current' \in Nat
  PROVE  Memory(m)'
  <1>1. Pinned(m) => m.pin \in Remotely!Generation /\ m.pin \in Nat /\ m.pin <= Remotely!Current
    BY Held DEF Memory
  <1>2. Pinned(m) => m.pin <= Remotely!Current'
    BY <1>1
  <1>3. m.pc = "missing" => m.pin < Remotely!Current'
    BY <1>1 DEF Memory, Pinned
  <1> QED BY <1>2, <1>3 DEF Memory, Pinned

\* A step of the publishers or of the collector.
LEMMA Elsewhere ==
  ASSUME ReadInv, PublishedInv', Remotely!Current <= Remotely!Current', Remotely!Current' \in Nat,
         UNCHANGED <<readerDeployment, cache, proxies, copies, reader>>
  PROVE  ReadInv'
  <1>1. Remotely!Current \in Nat /\ Remotely!Current' \in Nat
    BY Pointed DEF ReadInv
  <1>2. DiskInv'
    BY DEF ReadInv, DiskInv, Copies
  <1>3. ASSUME NEW r \in Reader PROVE ReaderInv(r)'
    <2>1. PICK m \in MemoryType : m = reader[r]
      BY DEF ReadInv
    <2>2. Memory(m) /\ reader'[r] = m
      BY <2>1 DEF ReadInv, ReaderInv
    <2>3. Memory(m)'
      BY <1>1, <2>1, <2>2, LaterMemory
    <2>4. Placed(reader[r], copies)'
      BY DEF ReadInv, ReaderInv, Placed
    <2>5. reader'[r].pc # "idle" => Undisturbed(r)'
      BY DEF ReadInv, ReaderInv, Undisturbed
    <2> QED BY <2>2, <2>3, <2>4, <2>5 DEF ReaderInv
  <1> QED BY <1>2, <1>3 DEF ReadInv

LEMMA UploadKeeps == ASSUME ReadInv, Remotely!UploadNext PROVE ReadInv'
  <1> DEFINE g == Remotely!Current + 1
             absent == {o \in Remotely!ObjectsOf(g) : objects[g][o] = None}
  <1>1. /\ Remotely!Current < MaxGeneration
        /\ \/ absent = {} /\ latest' = Remotely!Pointer(g) /\ objects' = objects
           \/ \E o \in absent : /\ objects' = [objects EXCEPT ![g][o] = Remotely!Held(g, o)]
                                /\ latest' = latest
        /\ readerDeployment' = readerDeployment /\ cache' = cache /\ proxies' = proxies
        /\ copies' = copies /\ reader' = reader
    BY Zenon DEF Remotely!UploadNext, Remotely!disk
  <1>2. PublishedInv /\ Remotely!Current \in Nat
    BY Pointed DEF ReadInv
  <1>3. g \in Remotely!Generation /\ Remotely!Current <= g /\ Remotely!Current # g
    BY <1>1, <1>2, ReaderFacts DEF Remotely!Generation
  <1>4. PICK h \in Remotely!Generation : h = g
    BY <1>3
  <1> HIDE DEF g
  <1>5. CASE absent = {} /\ latest' = Remotely!Pointer(g) /\ objects' = objects
    <2>1. \A o \in Remotely!ObjectsOf(h) : objects[h][o] = Remotely!Held(h, o)
      <3> SUFFICES ASSUME NEW o \in Remotely!ObjectsOf(h) PROVE objects[h][o] = Remotely!Held(h, o)
        OBVIOUS
      <3>1. objects[h][o] # None
        BY <1>4, <1>5
      <3>2. objects[h][o] \in {None, Remotely!Held(h, o)}
        BY <1>2, Held DEF PublishedInv
      <3> QED BY <3>1, <3>2
    <2>2. latest' # None /\ latest'.generation = h
      BY <1>4, <1>5, ReaderFacts DEF Remotely!Pointer
    <2>3. Remotely!Current' = h
      BY <2>2 DEF Remotely!Current
    <2>4. PublishedInv'
      BY <1>1, <1>2, <1>4, <1>5, <2>1, <2>3 DEF PublishedInv
    <2>5. Remotely!Current' \in Nat /\ Remotely!Current <= Remotely!Current'
      BY <1>3, <1>4, <2>3, Held
    <2> QED BY <1>1, <2>4, <2>5, Elsewhere
  <1>6. CASE \E o \in absent : objects' = [objects EXCEPT ![g][o] = Remotely!Held(g, o)] /\ latest' = latest
    <2>1. PICK o \in Remotely!ObjectsOf(h) :
                 objects' = [objects EXCEPT ![h][o] = Remotely!Held(h, o)] /\ latest' = latest
      BY <1>4, <1>6
    <2>2. o \in Remotely!Object
      BY Held
    <2>3. Remotely!Current' = Remotely!Current
      BY <2>1 DEF Remotely!Current
    <2>4. /\ DOMAIN objects' = Remotely!Generation
          /\ \A k \in Remotely!Generation : DOMAIN objects'[k] = Remotely!Object
          /\ \A k \in Remotely!Generation, q \in Remotely!Object :
               objects'[k][q] = IF k = h /\ q = o THEN Remotely!Held(k, q) ELSE objects[k][q]
      BY <1>2, <2>1, <2>2 DEF PublishedInv
    <2>5. \A k \in Remotely!Generation, q \in Remotely!Object : objects'[k][q] \in {None, Remotely!Held(k, q)}
      BY <1>2, <2>4 DEF PublishedInv
    <2>6. latest' # None => \A q \in Remotely!ObjectsOf(Remotely!Current) :
            objects'[Remotely!Current][q] = Remotely!Held(Remotely!Current, q)
      BY <1>2, <2>1, <2>4, Pointed, Held DEF PublishedInv
    <2>7. PublishedInv'
      BY <1>1, <1>2, <2>1, <2>3, <2>4, <2>5, <2>6 DEF PublishedInv
    <2> QED BY <1>1, <1>2, <2>3, <2>7, Elsewhere
  <1> QED BY <1>1, <1>5, <1>6

LEMMA CollectKeeps == ASSUME ReadInv, Remotely!Collect PROVE ReadInv'
  <1>1. PICK h \in 1 .. Remotely!Current - 1 : \E o \in Remotely!Object :
               objects' = [objects EXCEPT ![h][o] = None]
    BY DEF Remotely!Collect
  <1>2. PICK o \in Remotely!Object : objects' = [objects EXCEPT ![h][o] = None]
    BY <1>1
  <1>3. /\ readerDeployment' = readerDeployment /\ latest' = latest /\ cache' = cache /\ proxies' = proxies
        /\ copies' = copies /\ reader' = reader
    BY DEF Remotely!Collect, Remotely!disk
  <1>4. PublishedInv /\ Remotely!Current \in Nat /\ Remotely!Current <= MaxGeneration
    BY Pointed DEF ReadInv
  <1>5. h \in Remotely!Generation /\ h # Remotely!Current
    BY <1>4, ReaderFacts DEF Remotely!Generation
  <1>6. Remotely!Current' = Remotely!Current
    BY <1>3 DEF Remotely!Current
  <1>7. /\ DOMAIN objects' = Remotely!Generation
        /\ \A k \in Remotely!Generation : DOMAIN objects'[k] = Remotely!Object
        /\ \A k \in Remotely!Generation, q \in Remotely!Object :
             objects'[k][q] = IF k = h /\ q = o THEN None ELSE objects[k][q]
    BY <1>2, <1>4, <1>5 DEF PublishedInv
  <1>8. \A k \in Remotely!Generation, q \in Remotely!Object : objects'[k][q] \in {None, Remotely!Held(k, q)}
    BY <1>4, <1>7 DEF PublishedInv
  <1>9. latest' # None => \A q \in Remotely!ObjectsOf(Remotely!Current) :
          objects'[Remotely!Current][q] = Remotely!Held(Remotely!Current, q)
    BY <1>3, <1>4, <1>5, <1>7, Pointed, Held DEF PublishedInv
  <1>10. PublishedInv'
    BY <1>3, <1>4, <1>6, <1>7, <1>8, <1>9 DEF PublishedInv
  <1> QED BY <1>3, <1>4, <1>6, <1>10, Elsewhere

\* A step of one reader: it goes on with what is true of a memory.
LEMMA Goes ==
  ASSUME ReadInv, NEW r \in Reader, NEW new \in MemoryType, Undisturbed(r),
         reader' = [reader EXCEPT ![r] = new], UNCHANGED <<readerDeployment, latest, objects>>,
         Memory(new), DiskInv', Placed(new, copies')
  PROVE  ReadInv'
  <1>1. PublishedInv' /\ Remotely!Current' = Remotely!Current
    BY DEF ReadInv, PublishedInv, Remotely!Current
  <1>2. reader' \in [Reader -> MemoryType]
    BY DEF ReadInv
  <1>3. reader'[r] = new /\ \A q \in Reader \ {r} : reader'[q] = reader[q]
    BY DEF ReadInv
  <1>4. Memory(new)' /\ Placed(new, copies)'
    BY <1>1 DEF Memory, Placed
  <1>5. Undisturbed(r)'
    BY <1>3 DEF Undisturbed
  <1>6. ASSUME NEW q \in Reader, q # r PROVE ReaderInv(q)'
    <2>1. PICK m \in MemoryType : m = reader[q]
      BY DEF ReadInv
    <2>2. reader'[q] = m /\ Memory(m)
      BY <1>3, <1>6, <2>1 DEF ReadInv, ReaderInv
    <2>3. Memory(m)'
      BY <1>1, <2>2 DEF Memory
    <2>4. CASE readerDeployment.overlap
      BY <2>2, <2>3, <2>4 DEF ReaderInv, Placed, Undisturbed
    <2>5. CASE ~readerDeployment.overlap
      <3>1. m.pc = "idle"
        BY <1>6, <2>1, <2>5 DEF Undisturbed
      <3> QED BY <2>2, <2>3, <3>1 DEF ReaderInv, Placed, Copying
    <2> QED BY <2>4, <2>5
  <1>7. ReaderInv(r)'
    BY <1>3, <1>4, <1>5 DEF ReaderInv
  <1> QED BY <1>1, <1>2, <1>6, <1>7 DEF ReadInv

\* What is known of a reader before it moves.
LEMMA Before ==
  ASSUME ReadInv, NEW r \in Reader
  PROVE  \E m \in MemoryType :
           /\ m = reader[r] /\ Memory(m) /\ Placed(m, copies)
           /\ m.pc # "idle" => Undisturbed(r)
  BY DEF ReadInv, ReaderInv

LEMMA SameDisk == ASSUME ReadInv, UNCHANGED <<readerDeployment, cache, proxies, copies>> PROVE DiskInv'
  BY DEF ReadInv, DiskInv, Copies

LEMMA BeginKeeps == ASSUME ReadInv, NEW r \in Reader, Remotely!Begin(r) PROVE ReadInv'
  <1>1. PICK mode \in readerDeployment.modes :
               reader' = [reader EXCEPT ![r] = [Remotely!Idle EXCEPT !.pc = "open", !.mode = mode]]
    BY DEF Remotely!Begin, Remotely!Move
  <1>2. /\ UNCHANGED <<readerDeployment, latest, objects, cache, proxies, copies>> /\ Undisturbed(r)
    BY DEF Remotely!Begin, Remotely!environment, Remotely!disk, Undisturbed
  <1>3. mode \in Remotely!Mode
    BY ReaderFacts DEF ReadInv, PublishedInv, Remotely!Deployment
  <1> DEFINE new == [Remotely!Idle EXCEPT !.pc = "open", !.mode = mode]
  <1>4. new \in MemoryType /\ new.pc = "open" /\ \A p \in Part : new.got[p] = None
    BY <1>3 DEF Remotely!Idle, MemoryType, Remotely!Mode, Remotely!AtRest
  <1> HIDE DEF new
  <1>5. Memory(new) /\ Placed(new, copies')
    BY <1>4 DEF Memory, Placed, Pinned, Copying
  <1>6. reader' = [reader EXCEPT ![r] = new]
    BY <1>1 DEF new
  <1> QED BY <1>2, <1>4, <1>5, <1>6, SameDisk, Goes

LEMMA ReaderEnds == ASSUME ReadInv, NEW r \in Reader, Remotely!End(r) PROVE ReadInv'
  <1>1. /\ UNCHANGED <<readerDeployment, latest, objects, cache, proxies, copies>> /\ reader[r].pc # "idle"
        /\ reader' = [reader EXCEPT ![r] = Remotely!Idle]
    BY DEF Remotely!End, Remotely!environment, Remotely!disk
  <1>2. Remotely!Idle \in MemoryType /\ Remotely!Idle.pc = "idle" /\ \A p \in Part : Remotely!Idle.got[p] = None
    BY DEF Remotely!Idle, MemoryType, Remotely!Mode, Remotely!AtRest
  <1>3. Memory(Remotely!Idle) /\ Placed(Remotely!Idle, copies')
    BY <1>2 DEF Memory, Placed, Pinned, Copying
  <1> QED BY <1>1, <1>2, <1>3, SameDisk, Goes, Before

LEMMA OpenKeeps == ASSUME ReadInv, NEW r \in Reader, Remotely!Open(r) PROVE ReadInv'
  <1>1. PICK m \in MemoryType : /\ m = reader[r] /\ Memory(m) /\ Placed(m, copies)
                                /\ m.pc # "idle" => Undisturbed(r)
    BY Before
  <1>2. /\ UNCHANGED <<readerDeployment, latest, objects, cache, proxies, copies>>
        /\ m.pc = "open" /\ latest # None
        /\ reader' = [reader EXCEPT ![r] = [m EXCEPT !.pc = "manifest", !.pin = latest.generation]]
    BY <1>1 DEF Remotely!Open, Remotely!Move, Remotely!environment, Remotely!disk
  <1>3. PICK g \in Remotely!Generation : g = latest.generation /\ g = Remotely!Current
    BY <1>2, Pointed DEF ReadInv
  <1>4. PICK new : new = [m EXCEPT !.pc = "manifest", !.pin = g]
    OBVIOUS
  <1>5. new \in MemoryType /\ new.pc = "manifest" /\ new.pin = g /\ new.got = m.got
    BY <1>4 DEF MemoryType
  <1>6. \A p \in Part : new.got[p] = None
    BY <1>1, <1>2, <1>5 DEF Memory
  <1>7. Memory(new) /\ Placed(new, copies')
    BY <1>3, <1>5, <1>6, Held DEF Memory, Placed, Pinned, Copying
  <1>8. reader' = [reader EXCEPT ![r] = new]
    BY <1>2, <1>3, <1>4
  <1> QED BY <1>1, <1>2, <1>5, <1>7, <1>8, SameDisk, Goes

LEMMA FollowKeeps == ASSUME ReadInv, NEW r \in Reader, Remotely!FollowManifest(r) PROVE ReadInv'
  <1>1. PICK m \in MemoryType : /\ m = reader[r] /\ Memory(m) /\ Placed(m, copies)
                                /\ m.pc # "idle" => Undisturbed(r)
    BY Before
  <1>2. /\ UNCHANGED <<readerDeployment, latest, objects, cache, proxies, copies>> /\ m.pc = "manifest"
        /\ \/ /\ m.mode = "whole"
              /\ reader' = [reader EXCEPT ![r] = [m EXCEPT !.pc = "check", !.todo = Remotely!PartsOf(m.pin)]]
           \/ /\ m.mode # "whole" /\ Remotely!IndexFor(m.mode) \in Indexes[m.pin]
              /\ reader' = [reader EXCEPT ![r] = [m EXCEPT !.pc = "index"]]
           \/ reader' = [reader EXCEPT ![r] = [m EXCEPT !.pc = "failed"]]
           \/ \E mode \in {"projected", "whole"} :
                reader' = [reader EXCEPT ![r] = [m EXCEPT !.pc = "open", !.mode = mode]]
    BY <1>1, Zenon DEF Remotely!FollowManifest, Remotely!Goto, Remotely!Move, Remotely!environment, Remotely!disk
  <1>3. /\ m.pin \in Remotely!Generation /\ m.pin <= Remotely!Current /\ Undisturbed(r)
        /\ \A p \in Part : m.got[p] = None
    BY <1>1, <1>2 DEF Memory, Pinned
  <1>4. /\ Remotely!PartsOf(m.pin) \subseteq Part /\ Remotely!PartsOf(m.pin) # {}
    BY <1>3, ReaderFacts DEF Remotely!PartsOf
  <1>5. ASSUME NEW new \in MemoryType, reader' = [reader EXCEPT ![r] = new],
               new.pin = m.pin, new.got = m.got,
               \/ new.pc = "check" /\ new.mode = "whole" /\ new.todo = Remotely!PartsOf(m.pin)
               \/ new.pc = "index" /\ new.mode # "whole" /\ Remotely!IndexFor(new.mode) \in Indexes[m.pin]
               \/ new.pc \in {"failed", "open"}
        PROVE  ReadInv'
    <2>1. Memory(new)
      BY <1>3, <1>4, <1>5 DEF Memory, Pinned, Copying
    <2>2. Placed(new, copies')
      BY <1>5 DEF Placed, Copying
    <2> QED BY <1>2, <1>3, <1>5, <2>1, <2>2, SameDisk, Goes
  <1>6. CASE m.mode = "whole" /\ reader' = [reader EXCEPT ![r] = [m EXCEPT !.pc = "check", !.todo = Remotely!PartsOf(m.pin)]]
    <2>1. PICK new : new = [m EXCEPT !.pc = "check", !.todo = Remotely!PartsOf(m.pin)]
      OBVIOUS
    <2>2. /\ new \in MemoryType /\ new.pin = m.pin /\ new.got = m.got
          /\ new.pc = "check" /\ new.mode = "whole" /\ new.todo = Remotely!PartsOf(m.pin)
      BY <1>4, <1>6, <2>1 DEF MemoryType
    <2> QED BY <1>5, <1>6, <2>1, <2>2
  <1>7. CASE /\ m.mode # "whole" /\ Remotely!IndexFor(m.mode) \in Indexes[m.pin]
             /\ reader' = [reader EXCEPT ![r] = [m EXCEPT !.pc = "index"]]
    <2>1. PICK new : new = [m EXCEPT !.pc = "index"]
      OBVIOUS
    <2>2. new \in MemoryType /\ new.pin = m.pin /\ new.got = m.got /\ new.pc = "index" /\ new.mode = m.mode
      BY <1>7, <2>1 DEF MemoryType
    <2> QED BY <1>5, <1>7, <2>1, <2>2
  <1>8. CASE reader' = [reader EXCEPT ![r] = [m EXCEPT !.pc = "failed"]]
    <2>1. PICK new : new = [m EXCEPT !.pc = "failed"]
      OBVIOUS
    <2>2. new \in MemoryType /\ new.pin = m.pin /\ new.got = m.got /\ new.pc = "failed"
      BY <2>1 DEF MemoryType, Remotely!AtRest
    <2> QED BY <1>5, <1>8, <2>1, <2>2
  <1>9. CASE \E mode \in {"projected", "whole"} :
               reader' = [reader EXCEPT ![r] = [m EXCEPT !.pc = "open", !.mode = mode]]
    <2>1. PICK mode \in {"projected", "whole"} :
                 reader' = [reader EXCEPT ![r] = [m EXCEPT !.pc = "open", !.mode = mode]]
      BY <1>9
    <2>2. PICK new : new = [m EXCEPT !.pc = "open", !.mode = mode]
      OBVIOUS
    <2>3. new \in MemoryType /\ new.pin = m.pin /\ new.got = m.got /\ new.pc = "open"
      BY <2>2 DEF MemoryType, Remotely!Mode
    <2> QED BY <1>5, <2>1, <2>2, <2>3
  <1> QED BY <1>2, <1>6, <1>7, <1>8, <1>9

\* The part that is worked on.
LEMMA Working ==
  ASSUME ReadInv, NEW r \in Reader, reader[r].pc \in Copying \cup {"project", "payload"}
  PROVE  \E p \in Remotely!PartsOf(reader[r].pin) :
           /\ p = Remotely!Now(r) /\ p \in reader[r].todo /\ p \in Part
           /\ reader[r].pin \in Remotely!Generation
           /\ Remotely!Expected(r) = GenerationListing[reader[r].pin][p]
  <1>1. /\ reader[r].todo # {} /\ reader[r].todo \subseteq Remotely!PartsOf(reader[r].pin)
        /\ reader[r].pin \in Remotely!Generation
    BY DEF ReadInv, ReaderInv, Memory, Pinned, Copying
  <1>2. Remotely!Now(r) \in reader[r].todo
    BY <1>1 DEF Remotely!Now
  <1> QED BY <1>1, <1>2 DEF Remotely!Expected, Remotely!PartsOf

LEMMA MissingKeeps == ASSUME ReadInv, NEW r \in Reader, Remotely!ObjectMissing(r) PROVE ReadInv'
  <1>1. PICK m \in MemoryType : /\ m = reader[r] /\ Memory(m) /\ Placed(m, copies)
                                /\ m.pc # "idle" => Undisturbed(r)
    BY Before
  <1>2. /\ UNCHANGED <<readerDeployment, latest, objects, cache, proxies, copies>>
        /\ m.pc \in {"manifest", "index", "project", "download", "payload"}
        /\ objects[m.pin][Remotely!Wanted(r)] = None
        /\ reader' = [reader EXCEPT ![r] = [m EXCEPT !.pc = "missing"]]
    BY <1>1 DEF Remotely!ObjectMissing, Remotely!Stored, Remotely!Goto, Remotely!Move, Remotely!environment,
                Remotely!disk
  <1>3. m.pin \in Remotely!Generation /\ m.pin <= Remotely!Current /\ m.pin \in Nat
    BY <1>1, <1>2, Held DEF Memory, Pinned
  <1>4. Remotely!Wanted(r) \in Remotely!ObjectsOf(m.pin)
    <2>1. CASE m.pc = "manifest"
      BY <1>1, <1>3, <2>1, Held DEF Remotely!Wanted
    <2>2. CASE m.pc = "index"
      <3>1. Remotely!Wanted(r) = Remotely!IndexFor(m.mode)
        BY <1>1, <2>2 DEF Remotely!Wanted
      <3> QED BY <1>1, <1>3, <2>2, <3>1, Held DEF Memory
    <2>3. CASE m.pc \in {"project", "download", "payload"}
      <3>1. Remotely!Wanted(r) = Remotely!Now(r)
        BY <1>1, <2>3 DEF Remotely!Wanted
      <3> QED BY <1>1, <1>3, <2>3, <3>1, Working, Held DEF Copying
    <2> QED BY <1>2, <2>1, <2>2, <2>3
  <1>5. m.pin < Remotely!Current
    <2>1. Remotely!Current \in Nat /\ (latest = None => Remotely!Current = 0)
      BY Pointed DEF ReadInv
    <2>2. latest # None
      BY <1>3, <2>1, Held
    <2>3. m.pin # Remotely!Current
      BY <1>2, <1>3, <1>4, <2>2, Held DEF ReadInv, PublishedInv
    <2> QED BY <1>3, <2>1, <2>3
  <1>6. PICK new : new = [m EXCEPT !.pc = "missing"]
    OBVIOUS
  <1>7. new \in MemoryType /\ new.pin = m.pin /\ new.got = m.got /\ new.pc = "missing"
    BY <1>6 DEF MemoryType, Remotely!AtRest
  <1>8. \A p \in Part : m.got[p] \in {None, GenerationListing[m.pin][p]}
    BY <1>1, <1>2 DEF Memory, Pinned
  <1>9. Memory(new)
    BY <1>3, <1>5, <1>7, <1>8 DEF Memory, Pinned, Copying
  <1>10. Placed(new, copies') /\ reader' = [reader EXCEPT ![r] = new]
    BY <1>2, <1>6, <1>7 DEF Placed, Copying
  <1>11. Undisturbed(r)
    BY <1>1, <1>2
  <1> QED BY <1>2, <1>7, <1>9, <1>10, <1>11, SameDisk, Goes

\* A move to where rows are fetched, or to where nothing is left to do.
LEMMA Chooses ==
  ASSUME ReadInv, NEW r \in Reader, reader[r].pc \in {"index", "project"},
         NEW wanted \in SUBSET Remotely!PartsOf(reader[r].pin), NEW next \in {"payload", "failed", "done"},
         next = "payload" => wanted # {}, DiskInv',
         UNCHANGED <<readerDeployment, latest, objects>>,
         reader' = [reader EXCEPT ![r] = [reader[r] EXCEPT !.pc = next, !.todo = wanted]]
  PROVE  ReadInv'
  <1>1. PICK m \in MemoryType : /\ m = reader[r] /\ Memory(m) /\ Placed(m, copies)
                                /\ m.pc # "idle" => Undisturbed(r)
    BY Before
  <1>2. /\ m.pin \in Remotely!Generation /\ m.pin <= Remotely!Current /\ Undisturbed(r) /\ m.mode # "whole"
        /\ \A p \in Part : m.got[p] = None
    BY <1>1 DEF Memory, Pinned
  <1>3. PICK new : new = [m EXCEPT !.pc = next, !.todo = wanted]
    OBVIOUS
  <1>4. wanted \subseteq Part
    BY DEF Remotely!PartsOf
  <1>5. /\ new \in MemoryType /\ new.pin = m.pin /\ new.got = m.got /\ new.mode = m.mode
        /\ new.pc = next /\ new.todo = wanted
    BY <1>3, <1>4 DEF MemoryType, Remotely!AtRest
  <1>6. Memory(new)
    BY <1>1, <1>2, <1>5 DEF Memory, Pinned, Copying
  <1>7. Placed(new, copies') /\ reader' = [reader EXCEPT ![r] = new]
    BY <1>1, <1>2, <1>3, <1>5 DEF Placed
  <1> QED BY <1>2, <1>5, <1>6, <1>7, Goes

LEMMA IndexKeeps == ASSUME ReadInv, NEW r \in Reader, Remotely!ReadIndex(r) PROVE ReadInv'
  <1>1. PICK m \in MemoryType : /\ m = reader[r] /\ Memory(m) /\ Placed(m, copies)
                                /\ m.pc # "idle" => Undisturbed(r)
    BY Before
  <1>2. UNCHANGED <<readerDeployment, latest, objects, cache, proxies, copies>> /\ m.pc = "index"
    BY <1>1 DEF Remotely!ReadIndex, Remotely!environment, Remotely!disk
  <1>3. DiskInv'
    BY <1>2, SameDisk
  <1>4. CASE m.mode = "projected"
    <2>1. reader' = [reader EXCEPT ![r] = [m EXCEPT !.pc = "project", !.todo = Remotely!PartsOf(m.pin)]]
      BY <1>1, <1>4 DEF Remotely!ReadIndex, Remotely!Move
    <2>2. /\ m.pin \in Remotely!Generation /\ m.pin <= Remotely!Current /\ Undisturbed(r)
          /\ \A p \in Part : m.got[p] = None
      BY <1>1, <1>2 DEF Memory, Pinned
    <2>3. Remotely!PartsOf(m.pin) \subseteq Part /\ Remotely!PartsOf(m.pin) # {}
      BY <2>2, ReaderFacts DEF Remotely!PartsOf
    <2>4. PICK new : new = [m EXCEPT !.pc = "project", !.todo = Remotely!PartsOf(m.pin)]
      OBVIOUS
    <2>5. /\ new \in MemoryType /\ new.pin = m.pin /\ new.got = m.got /\ new.mode = m.mode
          /\ new.pc = "project" /\ new.todo = Remotely!PartsOf(m.pin)
      BY <2>3, <2>4 DEF MemoryType
    <2>6. Memory(new)
      BY <1>4, <2>2, <2>3, <2>5 DEF Memory, Pinned, Copying
    <2>7. Placed(new, copies') /\ reader' = [reader EXCEPT ![r] = new]
      BY <1>4, <2>1, <2>4, <2>5 DEF Placed
    <2> QED BY <1>2, <1>3, <2>2, <2>5, <2>6, <2>7, Goes
  <1>5. CASE m.mode # "projected"
    <2>1. \E wanted \in SUBSET Remotely!PartsOf(m.pin) :
            \E next \in {"payload", "failed", "done"} :
              /\ next = "payload" => wanted # {}
              /\ reader' = [reader EXCEPT ![r] = [m EXCEPT !.pc = next, !.todo = wanted]]
      BY <1>1, <1>5 DEF Remotely!ReadIndex, Remotely!Move
    <2> QED BY <1>1, <1>2, <1>3, <2>1, Chooses
  <1> QED BY <1>4, <1>5

LEMMA ProjectKeeps == ASSUME ReadInv, NEW r \in Reader, Remotely!Project(r) PROVE ReadInv'
  <1>1. PICK m \in MemoryType : /\ m = reader[r] /\ Memory(m) /\ Placed(m, copies)
                                /\ m.pc # "idle" => Undisturbed(r)
    BY Before
  <1>2. /\ UNCHANGED <<readerDeployment, latest, objects, cache, copies>> /\ m.pc = "project"
        /\ proxies' = proxies \cup {<<Remotely!Now(r), Remotely!Expected(r)>>}
    BY <1>1 DEF Remotely!Project, Remotely!Move, Remotely!environment
  <1>3. PICK p \in Remotely!PartsOf(m.pin) :
               /\ p = Remotely!Now(r) /\ p \in m.todo /\ p \in Part /\ m.pin \in Remotely!Generation
               /\ Remotely!Expected(r) = GenerationListing[m.pin][p]
    BY <1>1, <1>2, Working
  <1>4. DiskInv'
    <2>1. <<p, GenerationListing[m.pin][p]>> \in Part \X Remotely!Content
      BY <1>3, Held
    <2> QED BY <1>2, <1>3, <2>1 DEF ReadInv, DiskInv, Copies
  <1>5. CASE m.todo # {p}
    <2>1. reader' = [reader EXCEPT ![r] = [m EXCEPT !.todo = m.todo \ {p}]]
      BY <1>1, <1>3, <1>5 DEF Remotely!Project, Remotely!Move
    <2>2. PICK new : new = [m EXCEPT !.todo = m.todo \ {p}]
      OBVIOUS
    <2>3. /\ new \in MemoryType /\ new.pin = m.pin /\ new.got = m.got /\ new.mode = m.mode
          /\ new.pc = "project" /\ new.todo = m.todo \ {p}
      BY <1>2, <2>2 DEF MemoryType
    <2>4. /\ m.pin <= Remotely!Current /\ Undisturbed(r) /\ m.mode = "projected"
          /\ m.todo \subseteq Remotely!PartsOf(m.pin) /\ new.todo # {} /\ \A q \in Part : m.got[q] = None
      BY <1>1, <1>2, <1>3, <1>5, <2>3 DEF Memory, Pinned
    <2>5. Memory(new)
      BY <1>3, <2>3, <2>4 DEF Memory, Pinned, Copying
    <2>6. Placed(new, copies') /\ reader' = [reader EXCEPT ![r] = new]
      BY <2>1, <2>2, <2>3, <2>4 DEF Placed
    <2> QED BY <1>2, <1>4, <2>3, <2>4, <2>5, <2>6, Goes
  <1>6. CASE m.todo = {p}
    <2>1. \E wanted \in SUBSET Remotely!PartsOf(m.pin) :
            \E next \in {"payload", "failed", "done"} :
              /\ next = "payload" => wanted # {}
              /\ reader' = [reader EXCEPT ![r] = [m EXCEPT !.pc = next, !.todo = wanted]]
      BY <1>1, <1>3, <1>6 DEF Remotely!Project, Remotely!Move
    <2> QED BY <1>1, <1>2, <1>4, <2>1, Chooses
  <1> QED BY <1>5, <1>6

LEMMA FetchKeeps == ASSUME ReadInv, NEW r \in Reader, Remotely!FetchRows(r) PROVE ReadInv'
  <1>1. PICK m \in MemoryType : /\ m = reader[r] /\ Memory(m) /\ Placed(m, copies)
                                /\ m.pc # "idle" => Undisturbed(r)
    BY Before
  <1>2. /\ UNCHANGED <<readerDeployment, latest, objects, cache, proxies, copies>> /\ m.pc = "payload"
        /\ objects[m.pin][Remotely!Now(r)] # None
    BY <1>1 DEF Remotely!FetchRows, Remotely!Stored, Remotely!environment, Remotely!disk
  <1>3. PICK p \in Remotely!PartsOf(m.pin) :
               /\ p = Remotely!Now(r) /\ p \in m.todo /\ p \in Part /\ m.pin \in Remotely!Generation
    BY <1>1, <1>2, Working
  <1>4. objects[m.pin][p] = GenerationListing[m.pin][p] /\ GenerationListing[m.pin][p] \in Remotely!Content
    <2>1. p \in Remotely!Object /\ Remotely!Held(m.pin, p) = GenerationListing[m.pin][p]
      BY <1>3, Held
    <2> QED BY <1>2, <1>3, <2>1, Held DEF ReadInv, PublishedInv
  <1>5. PICK rest : rest = m.todo \ {p}
    OBVIOUS
  <1>6. PICK next : next = (IF rest = {} THEN "done" ELSE "payload")
    OBVIOUS
  <1>7. PICK new : new = [m EXCEPT !.pc = next, !.todo = rest, !.got[p] = GenerationListing[m.pin][p]]
    OBVIOUS
  <1>8. reader' = [reader EXCEPT ![r] = new]
    BY <1>1, <1>2, <1>3, <1>4, <1>5, <1>6, <1>7 DEF Remotely!FetchRows, Remotely!Move
  <1>9. /\ new.pin = m.pin /\ new.mode = m.mode /\ new.pc = next /\ new.todo = rest
        /\ new.got = [m.got EXCEPT ![p] = GenerationListing[m.pin][p]]
    BY <1>7 DEF MemoryType
  <1>10. new \in MemoryType
    <2>1. new.got \in [Part -> Remotely!Content \cup {None}]
      BY <1>4, <1>9 DEF MemoryType
    <2>2. rest \subseteq Part /\ next \in {"done", "payload"}
      BY <1>5, <1>6 DEF MemoryType
    <2>3. new = [mode |-> m.mode, pin |-> m.pin, todo |-> rest, got |-> new.got, pc |-> next]
      BY <1>7 DEF MemoryType
    <2> QED BY <2>1, <2>2, <2>3 DEF MemoryType, Remotely!AtRest
  <1>11. /\ m.pin <= Remotely!Current /\ Undisturbed(r) /\ m.mode # "whole"
         /\ m.todo \subseteq Remotely!PartsOf(m.pin)
         /\ \A q \in Part : m.got[q] \in {None, GenerationListing[m.pin][q]}
    BY <1>1, <1>2 DEF Memory, Pinned
  <1>12. \A q \in Part : new.got[q] \in {None, GenerationListing[m.pin][q]}
    BY <1>3, <1>9, <1>11 DEF MemoryType
  <1>13. Memory(new)
    BY <1>3, <1>5, <1>6, <1>9, <1>11, <1>12 DEF Memory, Pinned, Copying
  <1>14. Placed(new, copies')
    BY <1>9, <1>11 DEF Placed
  <1> QED BY <1>2, <1>8, <1>10, <1>11, <1>13, <1>14, SameDisk, Goes

\* While a reader copies, it goes on to another step of that, or gives up.
LEMMA GoesOn ==
  ASSUME ReadInv, NEW r \in Reader, reader[r].pc \in Copying, NEW next \in Copying \cup {"failed"},
         reader' = [reader EXCEPT ![r] = [reader[r] EXCEPT !.pc = next]],
         UNCHANGED <<readerDeployment, latest, objects>>, DiskInv',
         \A p \in Remotely!PartsOf(reader[r].pin) \ reader[r].todo :
           copies'[reader[r].pin][p] = copies[reader[r].pin][p]
  PROVE  ReadInv'
  <1>1. PICK m \in MemoryType : /\ m = reader[r] /\ Memory(m) /\ Placed(m, copies)
                                /\ m.pc # "idle" => Undisturbed(r)
    BY Before
  <1>2. /\ m.pin \in Remotely!Generation /\ m.pin <= Remotely!Current /\ Undisturbed(r) /\ m.mode = "whole"
        /\ m.todo # {} /\ m.todo \subseteq Remotely!PartsOf(m.pin) /\ \A p \in Part : m.got[p] = None
    BY <1>1 DEF Memory, Pinned, Copying
  <1>3. PICK new : new = [m EXCEPT !.pc = next]
    OBVIOUS
  <1>4. /\ new \in MemoryType /\ new.pin = m.pin /\ new.got = m.got /\ new.mode = m.mode
        /\ new.pc = next /\ new.todo = m.todo
    BY <1>3 DEF MemoryType, Copying, Remotely!AtRest
  <1>5. Memory(new)
    BY <1>2, <1>4 DEF Memory, Pinned, Copying
  <1>6. Placed(new, copies') /\ reader' = [reader EXCEPT ![r] = new]
    BY <1>1, <1>2, <1>3, <1>4 DEF Placed, Copying
  <1> QED BY <1>2, <1>4, <1>5, <1>6, Goes

\* One file is written.
LEMMA Wrote ==
  ASSUME ReadInv, readerDeployment' = readerDeployment, cache' = cache, proxies' = proxies,
         NEW g \in Remotely!Generation, NEW p \in Remotely!PartsOf(g), NEW c,
         \/ c \in {None, GenerationListing[g][p]}
         \/ c = Remotely!Partial /\ ~readerDeployment.overlap,
         copies' = [copies EXCEPT ![g][p] = c]
  PROVE  /\ DiskInv' /\ copies'[g][p] = c
         /\ \A q \in Part \ {p} : copies'[g][q] = copies[g][q]
  <1>1. c \in Remotely!Content \cup {None, Remotely!Partial} /\ p \in Part
    BY Held
  <1>2. copies \in [Remotely!Generation -> [Part -> Remotely!Content \cup {None, Remotely!Partial}]]
    BY DEF ReadInv, DiskInv, Copies
  <1>3. copies' \in [Remotely!Generation -> [Part -> Remotely!Content \cup {None, Remotely!Partial}]]
    BY <1>1, <1>2
  <1>4. \A h \in Remotely!Generation, q \in Part :
          copies'[h][q] = IF h = g /\ q = p THEN c ELSE copies[h][q]
    BY <1>1, <1>2
  <1>5. DiskInv'
    BY <1>3, <1>4 DEF ReadInv, DiskInv, Copies
  <1> QED BY <1>1, <1>4, <1>5

LEMMA CheckKeeps == ASSUME ReadInv, NEW r \in Reader, Remotely!CheckCached(r) PROVE ReadInv'
  <1>1. reader[r].pc = "check" /\ UNCHANGED <<readerDeployment, latest, objects, cache, proxies, copies>>
    BY DEF Remotely!CheckCached, Remotely!Goto, Remotely!Move, Remotely!environment, Remotely!disk
  <1>2. PICK next \in {"download", "verify", "unlink"} :
               reader' = [reader EXCEPT ![r] = [reader[r] EXCEPT !.pc = next]]
    BY DEF Remotely!CheckCached, Remotely!Goto, Remotely!Move
  <1> QED BY <1>1, <1>2, SameDisk, GoesOn DEF Copying

LEMMA DownloadKeeps == ASSUME ReadInv, NEW r \in Reader, Remotely!Download(r) PROVE ReadInv'
  <1>1. /\ reader[r].pc = "download" /\ UNCHANGED <<readerDeployment, latest, objects, proxies, copies>>
        /\ objects[reader[r].pin][Remotely!Now(r)] # None
        /\ cache' = cache \cup {objects[reader[r].pin][Remotely!Now(r)]}
    BY DEF Remotely!Download, Remotely!Goto, Remotely!Move, Remotely!Stored, Remotely!environment
  <1>2. PICK next \in {"verify", "unlink"} :
               reader' = [reader EXCEPT ![r] = [reader[r] EXCEPT !.pc = next]]
    BY DEF Remotely!Download, Remotely!Goto, Remotely!Move
  <1>3. PICK g \in Remotely!Generation : g = reader[r].pin
    BY <1>1, Working DEF Copying
  <1>4. PICK p \in Remotely!PartsOf(g) : p = Remotely!Now(r)
    BY <1>1, <1>3, Working DEF Copying
  <1>5. objects[g][p] \in Remotely!Content
    <2>1. p \in Remotely!Object /\ Remotely!Held(g, p) = GenerationListing[g][p]
      BY Held
    <2>2. objects[g][p] = GenerationListing[g][p]
      BY <1>1, <1>3, <1>4, <2>1 DEF ReadInv, PublishedInv
    <2> QED BY <2>2, Held
  <1>6. DiskInv'
    BY <1>1, <1>3, <1>4, <1>5 DEF ReadInv, DiskInv, Copies
  <1> QED BY <1>1, <1>2, <1>6, GoesOn DEF Copying

\* A file is written, and then the reader goes on.
LEMMA Places ==
  ASSUME ReadInv, NEW r \in Reader, reader[r].pc \in Copying, NEW next \in Copying \cup {"failed"}, NEW c,
         reader' = [reader EXCEPT ![r] = [reader[r] EXCEPT !.pc = next]],
         UNCHANGED <<readerDeployment, latest, objects, cache, proxies>>,
         copies' = [copies EXCEPT ![reader[r].pin][Remotely!Now(r)] = c],
         \/ c \in {None, Remotely!Expected(r)}
         \/ c = Remotely!Partial /\ ~readerDeployment.overlap
  PROVE  ReadInv'
  <1>1. PICK g \in Remotely!Generation : g = reader[r].pin
    BY Working
  <1>2. PICK p \in Remotely!PartsOf(g) :
               /\ p = Remotely!Now(r) /\ p \in reader[r].todo /\ Remotely!Expected(r) = GenerationListing[g][p]
    BY <1>1, Working
  <1>3. /\ copies' = [copies EXCEPT ![g][p] = c]
        /\ \/ c \in {None, GenerationListing[g][p]}
           \/ c = Remotely!Partial /\ ~readerDeployment.overlap
    BY <1>1, <1>2
  <1>4. DiskInv' /\ \A q \in Part \ {p} : copies'[g][q] = copies[g][q]
    <2>1. readerDeployment' = readerDeployment /\ cache' = cache /\ proxies' = proxies
      OBVIOUS
    <2>2. copies' = [copies EXCEPT ![g][p] = c]
      BY <1>3
    <2>3. c \in {None, GenerationListing[g][p]} \/ (c = Remotely!Partial /\ ~readerDeployment.overlap)
      BY <1>3
    <2>4. ReadInv /\ g \in Remotely!Generation /\ p \in Remotely!PartsOf(g)
      OBVIOUS
    <2>5. DiskInv'
      BY <2>1, <2>2, <2>3, <2>4, Wrote
    <2>6. \A q \in Part \ {p} : copies'[g][q] = copies[g][q]
      BY <2>1, <2>2, <2>3, <2>4, Wrote
    <2> QED BY <2>5, <2>6
  <1>5. \A q \in Remotely!PartsOf(g) \ reader[r].todo : copies'[g][q] = copies[g][q]
    BY <1>2, <1>4 DEF Remotely!PartsOf
  <1> QED BY <1>1, <1>4, <1>5, GoesOn

LEMMA UnlinkKeeps == ASSUME ReadInv, NEW r \in Reader, Remotely!Unlink(r) PROVE ReadInv'
  <1>1. /\ reader[r].pc = "unlink" /\ UNCHANGED <<readerDeployment, latest, objects, cache, proxies>>
        /\ reader' = [reader EXCEPT ![r] = [reader[r] EXCEPT !.pc = "link"]]
        /\ copies' = [copies EXCEPT ![reader[r].pin][Remotely!Now(r)] = None]
    BY DEF Remotely!Unlink, Remotely!Goto, Remotely!Move, Remotely!environment
  <1> QED BY <1>1, Places DEF Copying

\* Two readers that overlap can link, so that none of them truncates what the other reads.
LEMMA LinkKeeps ==
  ASSUME ReadInv, \A d \in ReaderDeployments : d.overlap => d.links, NEW r \in Reader, Remotely!Link(r)
  PROVE  ReadInv'
  <1>1. /\ reader[r].pc = "link" /\ UNCHANGED <<readerDeployment, latest, objects, cache, proxies>>
        /\ \/ /\ reader' = [reader EXCEPT ![r] = [reader[r] EXCEPT !.pc = "verify"]]
              /\ copies' = [copies EXCEPT ![reader[r].pin][Remotely!Now(r)] = Remotely!Expected(r)]
           \/ reader' = [reader EXCEPT ![r] = [reader[r] EXCEPT !.pc = "failed"]] /\ copies' = copies
           \/ /\ ~readerDeployment.links
              /\ reader' = [reader EXCEPT ![r] = [reader[r] EXCEPT !.pc = "copy"]]
              /\ copies' = [copies EXCEPT ![reader[r].pin][Remotely!Now(r)] = Remotely!Partial]
    BY Zenon DEF Remotely!Link, Remotely!Goto, Remotely!Move, Remotely!environment
  <1>2. ~readerDeployment.links => ~readerDeployment.overlap
    BY DEF ReadInv, PublishedInv
  <1>3. ASSUME reader' = [reader EXCEPT ![r] = [reader[r] EXCEPT !.pc = "failed"]], copies' = copies
        PROVE  ReadInv'
    BY <1>1, <1>3, SameDisk, GoesOn DEF Copying
  <1>4. ASSUME reader' = [reader EXCEPT ![r] = [reader[r] EXCEPT !.pc = "verify"]],
               copies' = [copies EXCEPT ![reader[r].pin][Remotely!Now(r)] = Remotely!Expected(r)]
        PROVE  ReadInv'
    BY <1>1, <1>4, Places DEF Copying
  <1>5. ASSUME ~readerDeployment.links,
               reader' = [reader EXCEPT ![r] = [reader[r] EXCEPT !.pc = "copy"]],
               copies' = [copies EXCEPT ![reader[r].pin][Remotely!Now(r)] = Remotely!Partial]
        PROVE  ReadInv'
    BY <1>1, <1>2, <1>5, Places DEF Copying
  <1> QED BY <1>1, <1>3, <1>4, <1>5

LEMMA CopyKeeps == ASSUME ReadInv, NEW r \in Reader, Remotely!CopyOver(r) PROVE ReadInv'
  <1>1. /\ reader[r].pc = "copy" /\ UNCHANGED <<readerDeployment, latest, objects, cache, proxies>>
        /\ reader' = [reader EXCEPT ![r] = [reader[r] EXCEPT !.pc = "verify"]]
        /\ copies' = [copies EXCEPT ![reader[r].pin][Remotely!Now(r)] = Remotely!Expected(r)]
    BY DEF Remotely!CopyOver, Remotely!Goto, Remotely!Move, Remotely!environment
  <1> QED BY <1>1, Places DEF Copying

LEMMA VerifyKeeps == ASSUME ReadInv, NEW r \in Reader, Remotely!Verify(r) PROVE ReadInv'
  <1>1. PICK m \in MemoryType : /\ m = reader[r] /\ Memory(m) /\ Placed(m, copies)
                                /\ m.pc # "idle" => Undisturbed(r)
    BY Before
  <1>2. m.pc = "verify" /\ UNCHANGED <<readerDeployment, latest, objects, cache, proxies>>
    BY <1>1 DEF Remotely!Verify, Remotely!environment
  <1>3. PICK p \in Remotely!PartsOf(m.pin) :
               /\ p = Remotely!Now(r) /\ p \in m.todo /\ p \in Part /\ m.pin \in Remotely!Generation
               /\ Remotely!Expected(r) = GenerationListing[m.pin][p]
    BY <1>1, <1>2, Working DEF Copying
  <1>4. CASE copies[m.pin][p] = GenerationListing[m.pin][p]
    <2>1. PICK rest : rest = m.todo \ {p}
      OBVIOUS
    <2>2. PICK next : next = (IF rest = {} THEN "done" ELSE "check")
      OBVIOUS
    <2>3. PICK new : new = [m EXCEPT !.pc = next, !.todo = rest]
      OBVIOUS
    <2>4. copies' = copies
      BY <1>1, <1>3, <1>4, Held DEF Remotely!Verify
    <2>5. reader' = [reader EXCEPT ![r] = new]
      BY <1>1, <1>3, <1>4, <2>1, <2>2, <2>3 DEF Remotely!Verify, Remotely!Move
    <2>6. /\ new \in MemoryType /\ new.pin = m.pin /\ new.got = m.got /\ new.mode = m.mode
          /\ new.pc = next /\ new.todo = rest
      BY <2>1, <2>2, <2>3 DEF MemoryType, Remotely!AtRest
    <2>7. /\ m.pin <= Remotely!Current /\ Undisturbed(r) /\ m.mode = "whole"
          /\ m.todo \subseteq Remotely!PartsOf(m.pin) /\ \A q \in Part : m.got[q] = None
      BY <1>1, <1>2 DEF Memory, Pinned, Copying
    <2>8. Memory(new)
      BY <1>3, <2>1, <2>2, <2>6, <2>7 DEF Memory, Pinned, Copying
    <2>9. Placed(new, copies')
      BY <1>1, <1>2, <1>4, <2>1, <2>4, <2>6, <2>7 DEF Placed, Copying
    <2>10. DiskInv'
      BY <1>2, <2>4, SameDisk
    <2> QED BY <1>2, <2>5, <2>6, <2>7, <2>8, <2>9, <2>10, Goes
  <1>5. CASE copies[m.pin][p] # GenerationListing[m.pin][p]
    <2>1. reader' = [reader EXCEPT ![r] = [m EXCEPT !.pc = "failed"]]
      BY <1>1, <1>3, <1>5 DEF Remotely!Verify, Remotely!Goto, Remotely!Move
    <2>2. CASE copies[m.pin][p] = Remotely!Partial
      <3>1. copies' = [copies EXCEPT ![m.pin][Remotely!Now(r)] = None]
        BY <1>1, <1>3, <2>2 DEF Remotely!Verify
      <3> QED BY <1>1, <1>2, <2>1, <3>1, Places DEF Copying
    <2>3. CASE copies[m.pin][p] # Remotely!Partial
      <3>1. copies' = copies
        BY <1>1, <1>3, <2>3 DEF Remotely!Verify
      <3>2. DiskInv'
        BY <1>2, <3>1, SameDisk
      <3> QED BY <1>1, <1>2, <2>1, <3>1, <3>2, GoesOn DEF Copying
    <2> QED BY <2>2, <2>3
  <1> QED BY <1>4, <1>5

LEMMA ReadStep ==
  ASSUME ReadInv, \A d \in ReaderDeployments : d.overlap => d.links, Remotely!Next
  PROVE  ReadInv'
  <1>1. ASSUME NEW r \in Reader, Remotely!Read(r) PROVE ReadInv'
    BY <1>1, BeginKeeps, OpenKeeps, FollowKeeps, MissingKeeps, IndexKeeps, ProjectKeeps, FetchKeeps, CheckKeeps,
       DownloadKeeps, UnlinkKeeps, LinkKeeps, CopyKeeps, VerifyKeeps, ReaderEnds DEF Remotely!Read
  <1> QED BY <1>1, UploadKeeps, CollectKeeps DEF Remotely!Next

LEMMA ReadStutter == ASSUME ReadInv, UNCHANGED readerVars PROVE ReadInv'
  <1>1. UNCHANGED <<readerDeployment, latest, objects, cache, proxies, copies, reader>>
    BY DEF readerVars
  <1>2. Remotely!Current' = Remotely!Current
    BY <1>1 DEF Remotely!Current
  <1>3. PublishedInv' /\ DiskInv'
    BY <1>1, <1>2, SameDisk DEF ReadInv, PublishedInv
  <1>4. \A r \in Reader : ReaderInv(r)'
    BY <1>1, <1>2 DEF ReadInv, ReaderInv, Memory, Placed, Undisturbed
  <1> QED BY <1>1, <1>3, <1>4 DEF ReadInv

\* What a reader returns is the generation it pinned, whole and of no other, however often it
\* fell back and whatever dead readers left in its caches; and an object that it misses is
\* missing because its generation is old by then: for any number of readers, parts and
\* generations.  Readers that overlap are assumed to link their files, for two that copy one
\* file over each other can read it half written (remote_upstream.py, remote_reader.py).
THEOREM ReadersGetOneGeneration ==
  ASSUME \A d \in ReaderDeployments : d.overlap => d.links
  PROVE  StoresSpec => []ReadsTellTruth
  <1>1. StoresInit => ReadInv
    BY ReadInit DEF StoresInit
  <1>2. ReadInv /\ [StoresNext]_storesVars => ReadInv'
    BY ReadStep, ReadStutter
       DEF StoresNext, storesVars, OfPublishing, OfReading, OfJoining, OfCalculations
  <1>3. ReadInv => ReadsTellTruth
    <2> SUFFICES ASSUME ReadInv PROVE ReadsTellTruth
      OBVIOUS
    <2>1. Remotely!TypeOK
      BY DEF ReadInv, PublishedInv, DiskInv, Copies, MemoryType, Remotely!TypeOK
    <2>2. ASSUME NEW r \in Reader, reader[r].pc = "done", reader[r].mode = "whole",
                 NEW p \in Remotely!PartsOf(reader[r].pin)
          PROVE  copies[reader[r].pin][p] \in {GenerationListing[reader[r].pin][p]}
                   \cup (IF readerDeployment.overlap THEN {None} ELSE {})
      <3>1. reader[r].pin \in Remotely!Generation /\ reader[r].todo = {} /\ p \in Part
        BY <2>2 DEF ReadInv, ReaderInv, Memory, Pinned, Remotely!PartsOf
      <3>2. CASE readerDeployment.overlap
        BY <3>1, <3>2 DEF ReadInv, DiskInv, Copies
      <3>3. CASE ~readerDeployment.overlap
        BY <2>2, <3>1, <3>3 DEF ReadInv, ReaderInv, Placed
      <3> QED BY <3>2, <3>3
    <2>3. ASSUME NEW r \in Reader, reader[r].pc = "done", NEW p \in Part
          PROVE  reader[r].got[p] \in {None, GenerationListing[reader[r].pin][p]}
      BY <2>3 DEF ReadInv, ReaderInv, Memory, Pinned
    <2>4. Remotely!ReadsOneGeneration
      BY <2>2, <2>3 DEF Remotely!ReadsOneGeneration
    <2>5. ASSUME NEW r \in Reader, reader[r].pc = "missing" PROVE reader[r].pin < latest.generation
      <3>1. /\ reader[r].pin \in Remotely!Generation /\ reader[r].pin < Remotely!Current
        BY <2>5 DEF ReadInv, ReaderInv, Memory, Pinned
      <3>2. latest # None
        BY <3>1, Held, Pointed DEF ReadInv
      <3> QED BY <3>1, <3>2, Pointed DEF ReadInv
    <2>6. Remotely!MissesOnlyTheOld
      BY <2>5 DEF Remotely!MissesOnlyTheOld
    <2> QED BY <2>1, <2>4, <2>6 DEF ReadsTellTruth
  <1> QED BY <1>1, <1>2, <1>3, PTL DEF StoresSpec

-----------------------------------------------------------------------------
(* The join.  What was seen of the files is good for as long as they are what  *)
(* was seen: every change has a time of its own, and none comes back.          *)

\* Where any file is named after the partition of a key, the rows of the key are in such files.
NamedWhereTheyAre ==
  \A f \in JoinFile : \A c \in RightContents[f] : \A g \in DOMAIN c : \A r \in c[g], d \in Definition :
    r.on[d] \in JoinKey /\ (\E e \in JoinFile : Named[e] = KeyPartition[r.on[d]]) =>
      Named[f] = KeyPartition[r.on[d]]

SeenFiles(s) == {f \in JoinFile : s.right[f] # None}

\* The sides l and r are what they were when s was seen; files that were not there do not matter.
Unmoved(l, r, s) ==
  l.time = s.left /\ \A f \in SeenFiles(s) : r[f] # None /\ r[f].time = s.right[f]

RowsOf(r, fs) == UNION {UNION {r[f].content[g] : g \in Joining!Groups(r[f].content)} : f \in fs}

\* The rows of the tasks are the join of these sides, each of them once.
Exact(l, r, s, O) ==
  /\ UNION {O[t] : t \in DOMAIN O} =
       Joining!Joined(l.content \ {None}, RowsOf(r, SeenFiles(s)), s.definition)
  /\ \A t, u \in DOMAIN O : t # u => O[t] \cap O[u] = {}

\* What was seen up to the n-th change.
PastTimes(ts, n) ==
  ts \in [JoinFile -> Nat \cup {None}] /\ \A f \in JoinFile : ts[f] # None => ts[f] <= n
PastSeen(s, n) ==
  /\ s \in [definition : Definition, left : Nat, right : [JoinFile -> Nat \cup {None}]]
  /\ s.left <= n /\ PastTimes(s.right, n)

RunShape(r) ==
  r = [phase |-> r.phase, seen |-> r.seen, files |-> r.files, keys |-> r.keys, group |-> r.group,
       full |-> r.full, todo |-> r.todo, index |-> r.index, times |-> r.times, staged |-> r.staged]

SidesTypes ==
  /\ definition \in Definition /\ spoiled \in BOOLEAN /\ changes \in 0 .. MaxJoinChanges
  /\ left.content \in LeftContents /\ left.time \in 0 .. changes
  /\ DOMAIN right = JoinFile
  /\ \A f \in JoinFile : right[f] # None =>
       right[f].content \in RightContents[f] /\ right[f].time \in 0 .. changes

KeptTypes ==
  /\ manifest # None => manifest.contract \in Definition /\ PastTimes(manifest.times, changes)
  /\ DOMAIN frames = JoinFile
  /\ metadata # None => PastSeen(metadata, changes)

JoinRunTypes ==
  /\ RunShape(run) /\ run.phase \in Joining!Phases /\ run.full \in BOOLEAN
  /\ run.keys \subseteq JoinKey /\ run.todo \subseteq run.files
  /\ DOMAIN run.index = JoinFile /\ PastTimes(run.times, changes)
  /\ run.phase = "idle" => run = Joining!Idle
  /\ run.phase # "idle" => PastSeen(run.seen, changes) /\ run.files = SeenFiles(run.seen)

JoinTypes == SidesTypes /\ KeptTypes /\ JoinRunTypes

\* The candidates of a file that has the time it is known under are those of its rows.
Indexed(ts, d) ==
  \A f \in JoinFile :
    frames[f] # None /\ right[f] # None /\ ts[f] = right[f].time =>
      frames[f] = Joining!Candidates(right[f].content, d)

\* For the files of the manifest they are those of its definition, except while a run of
\* another definition is going on or after such a run has failed.
FramesInv ==
  manifest # None /\ (manifest.contract = definition \/ (run.phase = "idle" /\ ~spoiled)) =>
    Indexed(manifest.times, manifest.contract)

\* A run knows its files by the times at which it indexed them; as long as nothing has changed, its
\* keys, its index, what it stages and what it commits are those of the sides.
JoinRunInv ==
  /\ run.seen.definition = definition
  /\ run.phase = "keyspace" => run.todo = run.files /\ \A f \in JoinFile : run.times[f] = None
  /\ run.phase # "keyspace" => Indexed(run.times, definition)
  /\ run.phase = "index" /\ ~run.full => manifest # None /\ manifest.contract = definition
  /\ run.phase \notin {"keyspace", "index"} => run.todo = {}
  /\ run.phase \in {"join", "commit", "metadata"} /\ manifest # None => manifest.contract = definition
  /\ Unmoved(left, right, run.seen) =>
       /\ run.phase # "keyspace" =>
            /\ run.keys = left.content \ {None}
            /\ \A f \in run.files \ run.todo :
                 run.index[f] = Joining!Candidates(right[f].content, definition)
       /\ run.phase = "commit" => Exact(left, right, run.seen, run.staged)
       /\ run.phase = "metadata" => Exact(left, right, run.seen, output)

MetadataInv ==
  metadata # None /\ Unmoved(left, right, metadata) => Exact(left, right, metadata, output)

JoinInv == JoinTypes /\ FramesInv /\ (run.phase # "idle" => JoinRunInv) /\ MetadataInv

-----------------------------------------------------------------------------
\* A row of a join is a key with a row of its own, or with none if there is none.
LEMMA JoinedMember ==
  ASSUME NEW K, NEW R, NEW d, NEW x
  PROVE  x \in Joining!Joined(K, R, d) <=>
           \/ \E k \in K, r \in R : r.on[d] = k /\ x = [key |-> k, row |-> r.id]
           \/ \E k \in K : (\A r \in R : r.on[d] # k) /\ x = [key |-> k, row |-> None]
  <1> DEFINE P == {p \in K \X R : p[2].on[d] = p[1]}
  <1>1. Joining!Joined(K, R, d) =
          {[key |-> p[1], row |-> p[2].id] : p \in P}
            \cup {[key |-> k, row |-> None] : k \in {y \in K : \A r \in R : r.on[d] # y}}
    BY DEF Joining!Joined
  <1>2. x \in {[key |-> p[1], row |-> p[2].id] : p \in P} <=>
          \E k \in K, r \in R : r.on[d] = k /\ x = [key |-> k, row |-> r.id]
    <2>1. ASSUME NEW p \in P, x = [key |-> p[1], row |-> p[2].id]
          PROVE  \E k \in K, r \in R : r.on[d] = k /\ x = [key |-> k, row |-> r.id]
      BY <2>1
    <2>2. ASSUME NEW k \in K, NEW r \in R, r.on[d] = k, x = [key |-> k, row |-> r.id]
          PROVE  \E p \in P : x = [key |-> p[1], row |-> p[2].id]
      <3>1. <<k, r>> \in P
        BY <2>2
      <3>2. x = [key |-> <<k, r>>[1], row |-> <<k, r>>[2].id]
        BY <2>2
      <3> HIDE DEF P
      <3> QED BY <3>1, <3>2
    <2> HIDE DEF P
    <2> QED BY <2>1, <2>2
  <1>3. x \in {[key |-> k, row |-> None] : k \in {y \in K : \A r \in R : r.on[d] # y}} <=>
          \E k \in K : (\A r \in R : r.on[d] # k) /\ x = [key |-> k, row |-> None]
    OBVIOUS
  <1> HIDE DEF P
  <1> QED BY <1>1, <1>2, <1>3

\* What JoinAsset takes from FiniteSets is what the theorems are about.
LEMMA JoinedFinite ==
  ASSUME NEW S
  PROVE  (IsFiniteSet(S) <=> Joining!IsFiniteSet(S)) /\ Joining!Cardinality(S) = Cardinality(S)
  BY DEF Joining!IsFiniteSet, IsFiniteSet, Joining!Cardinality, Cardinality

\* The index of a file names the row group of every row that has a key, and no others.
LEMMA CandidatesFind ==
  ASSUME NEW f \in JoinFile, NEW c \in RightContents[f], NEW d \in Definition
  PROVE  /\ \A g \in DOMAIN c : \A r \in c[g] : r.on[d] \in JoinKey =>
              \E x \in Joining!Candidates(c, d) : x.key = r.on[d] /\ x.group = g
         /\ \A x \in Joining!Candidates(c, d) : x.key \in JoinKey /\ x.group \in DOMAIN c
  <1> DEFINE Mine(k, g) == {r \in c[g] : r.on[d] = k}
             Pairs == {x \in JoinKey \X DOMAIN c : Joining!Cardinality(Mine(x[1], x[2])) > 0}
             Entry(s) == [key |-> s[1], group |-> s[2], rows |-> Joining!Cardinality(Mine(s[1], s[2]))]
  <1>1. Joining!Candidates(c, d) = {Entry(s) : s \in Pairs}
    BY DEF Joining!Candidates, Joining!Groups
  <1>2. ASSUME NEW g \in DOMAIN c, NEW r \in c[g], r.on[d] \in JoinKey
        PROVE  \E x \in Joining!Candidates(c, d) : x.key = r.on[d] /\ x.group = g
    <2>1. Joining!IsFiniteSet(c[g])
      BY JoinConstants DEF Joining!JoinAssumption
    <2>2. IsFiniteSet(c[g])
      BY <2>1, JoinedFinite
    <2>3. IsFiniteSet(Mine(r.on[d], g)) /\ r \in Mine(r.on[d], g)
      BY <2>2, FS_Subset
    <2>4. Cardinality(Mine(r.on[d], g)) \in Nat /\ Cardinality(Mine(r.on[d], g)) # 0
      BY <2>3, FS_CardinalityType, FS_EmptySet
    <2>5. Joining!Cardinality(Mine(r.on[d], g)) > 0
      BY <2>4, JoinedFinite
    <2>6. <<r.on[d], g>> \in Pairs
      BY <2>5, <1>2
    <2>7. Entry(<<r.on[d], g>>).key = r.on[d] /\ Entry(<<r.on[d], g>>).group = g
      OBVIOUS
    <2> HIDE DEF Pairs, Entry
    <2> QED BY <1>1, <2>6, <2>7
  <1>3. ASSUME NEW x \in Joining!Candidates(c, d) PROVE x.key \in JoinKey /\ x.group \in DOMAIN c
    <2>1. PICK s \in Pairs : x = Entry(s)
      BY <1>1
    <2> QED BY <2>1
  <1> QED BY <1>2, <1>3

\* A task keeps the rows of its keys: the index names their row groups, or else every
\* row group is read, and files are left out only where those rows are not.
LEMMA TaskHasItsRows ==
  ASSUME JoinTypes, run.phase # "idle", NamedWhereTheyAre,
         \A f \in run.files : right[f] # None /\ run.index[f] = Joining!Candidates(right[f].content, run.seen.definition),
         NEW t \in Joining!Tasks
  PROVE  /\ Joining!StagedRows(t, run.seen.definition) \subseteq RowsOf(right, run.files)
         /\ \A k \in Joining!KeyRows(t) : \A r \in RowsOf(right, run.files) :
              r.on[run.seen.definition] = k => r \in Joining!StagedRows(t, run.seen.definition)
  <1> DEFINE d == run.seen.definition
             Spans == Joining!MatchingSpans(t)
             Found(f) == {<<f, c.group>> : c \in {x \in run.index[f] : x.key \in Joining!KeyRows(t)}}
  <1>1. d \in Definition /\ run.files \subseteq JoinFile /\ run.keys \subseteq JoinKey
    BY DEF JoinTypes, JoinRunTypes, PastSeen, SeenFiles
  <1>2. ASSUME NEW f \in run.files
        PROVE  /\ f \in JoinFile /\ right[f].content \in RightContents[f]
               /\ run.index[f] = Joining!Candidates(right[f].content, d)
    BY <1>1, <1>2 DEF JoinTypes, SidesTypes
  <1>3. Spans = UNION {Found(f) : f \in run.files}
    BY DEF Joining!MatchingSpans
  <1>4. ASSUME NEW s \in Spans
        PROVE  s[1] \in run.files /\ s[2] \in DOMAIN right[s[1]].content /\ s = <<s[1], s[2]>>
    <2>1. PICK f \in run.files : s \in Found(f)
      BY <1>3
    <2>2. PICK c \in run.index[f] : s = <<f, c.group>>
      BY <2>1
    <2>3. c.group \in DOMAIN right[f].content
      BY <1>1, <1>2, <2>2, CandidatesFind
    <2> QED BY <2>2, <2>3
  <1>5. Joining!SelectedFiles(t) \subseteq run.files /\ Joining!NamedFiles(t) \subseteq Joining!SelectedFiles(t)
    BY <1>4 DEF Joining!SelectedFiles, Joining!NamedFiles
  <1>6. ASSUME NEW f \in run.files
        PROVE  Joining!SelectedGroups(t, f) \subseteq Joining!Groups(right[f].content)
    BY <1>4 DEF Joining!SelectedGroups, Joining!Groups
  <1>7. Joining!StagedRows(t, d) \subseteq Joining!RightRows(t)
    BY DEF Joining!StagedRows
  <1>8. Joining!RightRows(t) \subseteq RowsOf(right, run.files)
    <2> SUFFICES ASSUME NEW r \in Joining!RightRows(t) PROVE r \in RowsOf(right, run.files)
      OBVIOUS
    <2>1. PICK f \in Joining!NamedFiles(t) : \E g \in Joining!SelectedGroups(t, f) : r \in right[f].content[g]
      BY DEF Joining!RightRows
    <2> QED BY <2>1, <1>5, <1>6 DEF RowsOf
  <1>9. ASSUME NEW k \in Joining!KeyRows(t), NEW r \in RowsOf(right, run.files), r.on[d] = k
        PROVE  r \in Joining!StagedRows(t, d)
    <2>1. k \in run.keys /\ k \in JoinKey /\ KeyPartition[k] = t.partition
      BY <1>1 DEF Joining!KeyRows, Joining!PartOf
    <2>2. PICK f \in run.files : \E g \in DOMAIN right[f].content : r \in right[f].content[g]
      BY DEF RowsOf, Joining!Groups
    <2>3. PICK g \in DOMAIN right[f].content : r \in right[f].content[g]
      BY <2>2
    <2>4. PICK c \in run.index[f] : c.key = k /\ c.group = g
      <3>1. \E x \in Joining!Candidates(right[f].content, d) : x.key = r.on[d] /\ x.group = g
        BY <1>1, <1>2, <1>9, <2>1, <2>3, CandidatesFind
      <3> QED BY <3>1, <1>2, <1>9
    <2>5. <<f, g>> \in Spans
      <3>1. <<f, c.group>> \in Found(f)
        BY <2>4
      <3> QED BY <3>1, <2>4, <1>3
    <2>6. f \in Joining!SelectedFiles(t) /\ g \in Joining!SelectedGroups(t, f)
      <3> HIDE DEF Spans
      <3>1. <<f, g>>[1] = f /\ <<f, g>>[2] = g /\ Spans # {}
        BY <2>5
      <3> QED BY <2>5, <3>1 DEF Joining!SelectedFiles, Joining!SelectedGroups, Spans
    <2>7. f \in Joining!NamedFiles(t)
      <3>1. (\E e \in JoinFile : Named[e] = t.partition) => Named[f] = t.partition
        BY <1>1, <1>2, <1>9, <2>1, <2>3 DEF NamedWhereTheyAre
      <3> QED BY <3>1, <2>6, <1>5, <1>1 DEF Joining!NamedFiles
    <2>8. r \in Joining!RightRows(t)
      BY <2>3, <2>6, <2>7 DEF Joining!RightRows
    <2> QED BY <2>8, <1>9 DEF Joining!StagedRows
  <1> QED BY <1>7, <1>8, <1>9

\* The tasks part the keys, and so their rows are the join, each once.
LEMMA TasksAreTheJoin ==
  ASSUME JoinTypes, run.phase # "idle", NamedWhereTheyAre, run.keys = left.content \ {None},
         \A f \in run.files : right[f] # None /\ run.index[f] = Joining!Candidates(right[f].content, run.seen.definition)
  PROVE  Exact(left, right, run.seen, [t \in Joining!Tasks |-> Joining!TaskRows(t)])
  <1> DEFINE d == run.seen.definition
             R == RowsOf(right, run.files)
             O == [t \in Joining!Tasks |-> Joining!TaskRows(t)]
             Of(k, x) == \/ \E r \in R : r.on[d] = k /\ x = [key |-> k, row |-> r.id]
                         \/ (\A r \in R : r.on[d] # k) /\ x = [key |-> k, row |-> None]
  <1>1. R = RowsOf(right, SeenFiles(run.seen))
    BY DEF JoinTypes, JoinRunTypes
  <1>2. ASSUME NEW t \in Joining!Tasks
        PROVE  Joining!LeftRows(t) = Joining!KeyRows(t)
    <2>1. \A k \in Joining!KeyRows(t) : k \in run.keys /\ Joining!PartOf(k) = t
      BY DEF Joining!KeyRows
    <2>2. \A k \in run.keys : Joining!PartOf(k) = t => KeyPartition[k] = t.partition
      BY DEF Joining!PartOf
    <2>3. \A k \in Joining!KeyRows(t) : k \in Joining!KeysIn(t.partition)
      BY <2>1, <2>2 DEF Joining!KeysIn
    <2>4. \A k \in Joining!KeyRows(t) : run.group[k] \in Joining!LeftSpans(t)
      BY DEF Joining!LeftSpans
    <2> QED BY <2>3, <2>4 DEF Joining!LeftRows
  <1>3. ASSUME NEW t \in Joining!Tasks, NEW x
        PROVE  x \in Joining!TaskRows(t) <=> \E k \in Joining!KeyRows(t) : Of(k, x)
    <2> DEFINE S == Joining!StagedRows(t, d)
    <2>1. S \subseteq R /\ \A k \in Joining!KeyRows(t) : \A r \in R : r.on[d] = k => r \in S
      BY TaskHasItsRows
    <2>2. Joining!TaskRows(t) = Joining!Joined(Joining!KeyRows(t), S, d)
      BY <1>2 DEF Joining!TaskRows
    <2> HIDE DEF S, R, d
    <2>3. x \in Joining!TaskRows(t) <=>
            \/ \E k \in Joining!KeyRows(t), r \in S : r.on[d] = k /\ x = [key |-> k, row |-> r.id]
            \/ \E k \in Joining!KeyRows(t) : (\A r \in S : r.on[d] # k) /\ x = [key |-> k, row |-> None]
      BY <2>2, JoinedMember
    <2> QED BY <2>1, <2>3
  <1>4. ASSUME NEW x
        PROVE  x \in Joining!Joined(run.keys, R, d) <=> \E k \in run.keys : Of(k, x)
    <2> HIDE DEF R, d
    <2>1. x \in Joining!Joined(run.keys, R, d) <=>
            \/ \E k \in run.keys, r \in R : r.on[d] = k /\ x = [key |-> k, row |-> r.id]
            \/ \E k \in run.keys : (\A r \in R : r.on[d] # k) /\ x = [key |-> k, row |-> None]
      BY JoinedMember
    <2> QED BY <2>1
  <1>5. ASSUME NEW k, NEW x, Of(k, x) PROVE x.key = k
    BY <1>5
  <1> HIDE DEF Of, R
  <1>6. \A k \in run.keys : Joining!PartOf(k) \in Joining!Tasks /\ k \in Joining!KeyRows(Joining!PartOf(k))
    BY DEF Joining!Tasks, Joining!KeyRows
  <1>7. \A t \in Joining!Tasks : \A k \in Joining!KeyRows(t) : k \in run.keys /\ Joining!PartOf(k) = t
    BY DEF Joining!KeyRows
  <1>8. DOMAIN O = Joining!Tasks /\ \A t \in Joining!Tasks : O[t] = Joining!TaskRows(t)
    OBVIOUS
  <1> HIDE DEF O
  <1>9. UNION {O[t] : t \in DOMAIN O} = Joining!Joined(run.keys, R, d)
    <2>1. ASSUME NEW x, x \in Joining!Joined(run.keys, R, d) PROVE \E t \in DOMAIN O : x \in O[t]
      <3>1. PICK k \in run.keys : Of(k, x)
        BY <2>1, <1>4
      <3> QED BY <3>1, <1>3, <1>6, <1>8
    <2>2. ASSUME NEW t \in DOMAIN O, NEW x \in O[t] PROVE x \in Joining!Joined(run.keys, R, d)
      BY <1>3, <1>4, <1>7, <1>8
    <2> QED BY <2>1, <2>2
  <1>10. ASSUME NEW t \in DOMAIN O, NEW u \in DOMAIN O, NEW x \in O[t] \cap O[u] PROVE t = u
    <2>1. PICK k \in Joining!KeyRows(t) : Of(k, x)
      BY <1>3, <1>8
    <2>2. PICK j \in Joining!KeyRows(u) : Of(j, x)
      BY <1>3, <1>8
    <2>3. k = j
      BY <2>1, <2>2, <1>5
    <2> QED BY <2>3, <1>7, <1>8
  <1>11. \A t, u \in DOMAIN O : t # u => O[t] \cap O[u] = {}
    BY <1>10
  <1>12. Exact(left, right, run.seen, O)
    BY <1>1, <1>9, <1>11 DEF Exact
  <1> QED BY <1>12 DEF O

-----------------------------------------------------------------------------
\* The n-th change is followed by one of the left side or of the file f, from l and r to m and q.
SideChanges(n, l, r, m, q, f) ==
  \/ q = r /\ m.time = n + 1
  \/ /\ m = l /\ \A e \in JoinFile \ {f} : q[e] = r[e]
     /\ q[f] = None \/ q[f].time = n + 1

\* A change leaves nothing unmoved that was seen of the side it changes.
LEMMA ChangesAreSeen ==
  ASSUME NEW n \in Nat, NEW l, NEW r, NEW m, NEW q, NEW s, NEW f,
         PastSeen(s, n), SideChanges(n, l, r, m, q, f), Unmoved(m, q, s)
  PROVE  Unmoved(l, r, s) /\ m = l /\ \A e \in SeenFiles(s) : q[e] = r[e]
  <1>1. s.left \in Nat /\ s.left <= n /\ s.left # n + 1
    BY DEF PastSeen
  <1>2. m = l /\ \A e \in JoinFile \ {f} : q[e] = r[e]
    BY <1>1 DEF Unmoved, SideChanges
  <1>3. \A e \in SeenFiles(s) : e \in JoinFile /\ s.right[e] \in Nat /\ s.right[e] <= n
    BY DEF PastSeen, PastTimes, SeenFiles
  <1>4. f \in SeenFiles(s) => q = r
    <2> SUFFICES ASSUME f \in SeenFiles(s), q # r PROVE FALSE
      OBVIOUS
    <2>1. q[f] # None /\ q[f].time = s.right[f]
      BY DEF Unmoved
    <2>2. s.right[f] = n + 1
      BY <2>1, <1>1 DEF Unmoved, SideChanges
    <2> QED BY <2>2, <1>3
  <1>5. \A e \in SeenFiles(s) : q[e] = r[e]
    BY <1>2, <1>3, <1>4
  <1> QED BY <1>2, <1>5 DEF Unmoved

LEMMA ExactStays ==
  ASSUME NEW l, NEW r, NEW q, NEW s, NEW O, Exact(l, r, s, O), \A e \in SeenFiles(s) : q[e] = r[e]
  PROVE  Exact(l, q, s, O)
  <1>1. RowsOf(q, SeenFiles(s)) = RowsOf(r, SeenFiles(s))
    BY DEF RowsOf
  <1> QED BY <1>1 DEF Exact

LEMMA PastGrows ==
  ASSUME NEW n \in Nat
  PROVE  /\ \A ts : PastTimes(ts, n) => PastTimes(ts, n + 1)
         /\ \A s : PastSeen(s, n) => PastSeen(s, n + 1)
  <1>1. ASSUME NEW ts, PastTimes(ts, n) PROVE PastTimes(ts, n + 1)
    BY <1>1 DEF PastTimes
  <1>2. ASSUME NEW s, PastSeen(s, n) PROVE PastSeen(s, n + 1)
    BY <1>1, <1>2 DEF PastSeen
  <1> QED BY <1>1, <1>2

LEMMA JoinNumbers ==
  None \notin Nat /\ MaxJoinChanges \in Nat /\ (JoinTypes => changes \in Nat)
  BY JoinConstants DEF Joining!JoinAssumption, JoinTypes, SidesTypes

\* The sides change: what is known of them is still known under its time.
LEMMA ChangeKeepsJoin ==
  ASSUME JoinInv, NEW f \in JoinFile, changes < MaxJoinChanges, changes' = changes + 1,
         UNCHANGED <<definition, manifest, frames, run, output, metadata, spoiled>>,
         left'.content \in LeftContents, DOMAIN right' = JoinFile,
         right'[f] # None => right'[f].content \in RightContents[f],
         SideChanges(changes, left, right, left', right', f)
  PROVE  JoinInv'
  <1>1. changes \in Nat /\ None \notin Nat /\ JoinTypes /\ SidesTypes /\ KeptTypes
    BY JoinNumbers DEF JoinInv, JoinTypes
  <1>2. ASSUME NEW s, PastSeen(s, changes), Unmoved(left', right', s)
        PROVE  Unmoved(left, right, s) /\ left' = left /\ \A e \in SeenFiles(s) : right'[e] = right[e]
    BY ONLY <1>1, <1>2, SideChanges(changes, left, right, left', right', f), ChangesAreSeen
  <1>3. ASSUME NEW ts, NEW d, PastTimes(ts, changes), Indexed(ts, d) PROVE Indexed(ts, d)'
    <2> SUFFICES ASSUME NEW e \in JoinFile, frames[e] # None, right'[e] # None, ts[e] = right'[e].time
                 PROVE  frames[e] = Joining!Candidates(right'[e].content, d)
      BY DEF Indexed
    <2>1. ts[e] # changes + 1
      BY <1>1, <1>3 DEF PastTimes
    <2>2. right'[e] = right[e]
      BY <2>1 DEF SideChanges
    <2> QED BY <1>3, <2>2 DEF Indexed
  <1>4. SidesTypes'
    <2>1. left'.time \in 0 .. changes + 1 /\ changes' \in 0 .. MaxJoinChanges
      BY <1>1, JoinNumbers DEF SidesTypes, SideChanges
    <2>2. ASSUME NEW e \in JoinFile, right'[e] # None
          PROVE  right'[e].content \in RightContents[e] /\ right'[e].time \in 0 .. changes + 1
      BY <1>1, <2>2 DEF SidesTypes, SideChanges
    <2> QED BY <1>1, <2>1, <2>2 DEF SidesTypes
  <1>5. KeptTypes'
    BY <1>1, PastGrows DEF KeptTypes
  <1>6. JoinRunTypes'
    <2>1. JoinRunTypes
      BY DEF JoinInv, JoinTypes
    <2> QED BY <1>1, <2>1, PastGrows DEF JoinRunTypes
  <1>7. FramesInv'
    <2> SUFFICES ASSUME manifest # None, manifest.contract = definition \/ (run.phase = "idle" /\ ~spoiled)
                 PROVE  Indexed(manifest.times, manifest.contract)'
      BY DEF FramesInv
    <2>1. PICK ts, d : ts = manifest.times /\ d = manifest.contract
      OBVIOUS
    <2>2. Indexed(ts, d) /\ PastTimes(ts, changes)
      BY <1>1, <2>1 DEF JoinInv, FramesInv, KeptTypes
    <2>3. Indexed(ts, d)'
      BY <1>3, <2>2
    <2> QED BY <2>1, <2>3 DEF Indexed
  <1>8. run.phase # "idle" => JoinRunInv'
    <2> SUFFICES ASSUME run.phase # "idle" PROVE JoinRunInv'
      OBVIOUS
    <2>1. JoinRunTypes /\ JoinRunInv
      BY DEF JoinInv, JoinTypes
    <2>2. run.phase # "keyspace" => Indexed(run.times, definition)'
      <3>1. PICK ts, d : ts = run.times /\ d = definition
        OBVIOUS
      <3>2. run.phase # "keyspace" => Indexed(ts, d)
        BY <2>1, <3>1 DEF JoinRunInv
      <3>3. run.phase # "keyspace" => Indexed(ts, d)'
        BY <1>3, <2>1, <3>1, <3>2 DEF JoinRunTypes
      <3> QED BY <3>1, <3>3 DEF Indexed
    <2>3. ASSUME Unmoved(left', right', run.seen)
          PROVE  /\ Unmoved(left, right, run.seen) /\ left' = left
                 /\ \A e \in run.files : right'[e] = right[e]
                 /\ \A O : Exact(left, right, run.seen, O) => Exact(left', right', run.seen, O)
      <3>1. PastSeen(run.seen, changes) /\ run.files = SeenFiles(run.seen)
        BY <2>1 DEF JoinRunTypes
      <3>2. /\ Unmoved(left, right, run.seen) /\ left' = left
            /\ \A e \in SeenFiles(run.seen) : right'[e] = right[e]
        BY <1>2, <2>3, <3>1
      <3> QED BY <3>1, <3>2, ExactStays
    <2> QED BY <2>1, <2>2, <2>3 DEF JoinRunInv
  <1>9. MetadataInv'
    <2> SUFFICES ASSUME metadata # None, Unmoved(left', right', metadata)
                 PROVE  Exact(left', right', metadata, output)
      BY DEF MetadataInv
    <2>1. Unmoved(left, right, metadata) /\ left' = left /\ \A e \in SeenFiles(metadata) : right'[e] = right[e]
      BY <1>1, <1>2 DEF KeptTypes
    <2> QED BY <2>1, ExactStays DEF JoinInv, MetadataInv
  <1> QED BY <1>4, <1>5, <1>6, <1>7, <1>8, <1>9 DEF JoinInv, JoinTypes

LEMMA ChangeRightKeeps ==
  ASSUME JoinInv, NEW f \in JoinFile, Joining!ChangeRight(f) PROVE JoinInv'
  <1>1. SidesTypes
    BY DEF JoinInv, JoinTypes
  <1>2. /\ changes < MaxJoinChanges /\ changes' = changes + 1 /\ left' = left
        /\ UNCHANGED <<definition, manifest, frames, run, output, metadata, spoiled>>
    BY DEF Joining!ChangeRight
  <1>3. /\ DOMAIN right' = JoinFile /\ \A e \in JoinFile \ {f} : right'[e] = right[e]
        /\ right'[f] = None \/ right'[f].time = changes + 1
        /\ right'[f] # None => right'[f].content \in RightContents[f]
    <2>1. CASE \E c \in RightContents[f] : right' = [right EXCEPT ![f] = [content |-> c, time |-> changes + 1]]
      BY <1>1, <2>1 DEF SidesTypes
    <2>2. CASE right' = [right EXCEPT ![f] = None]
      BY <1>1, <2>2 DEF SidesTypes
    <2> QED BY <2>1, <2>2 DEF Joining!ChangeRight
  <1>4. SideChanges(changes, left, right, left', right', f) /\ left'.content \in LeftContents
    BY <1>1, <1>2, <1>3 DEF SideChanges, SidesTypes
  <1> QED BY <1>2, <1>3, <1>4, ChangeKeepsJoin

LEMMA ChangeLeftKeeps ==
  ASSUME JoinInv, NEW f \in JoinFile, Joining!ChangeLeft PROVE JoinInv'
  <1>1. SidesTypes
    BY DEF JoinInv, JoinTypes
  <1>2. /\ changes < MaxJoinChanges /\ changes' = changes + 1 /\ right' = right
        /\ UNCHANGED <<definition, manifest, frames, run, output, metadata, spoiled>>
        /\ left'.content \in LeftContents /\ left'.time = changes + 1
    BY DEF Joining!ChangeLeft
  <1>3. SideChanges(changes, left, right, left', right', f)
    BY <1>2 DEF SideChanges
  <1>4. DOMAIN right' = JoinFile /\ (right'[f] # None => right'[f].content \in RightContents[f])
    BY <1>1, <1>2 DEF SidesTypes
  <1> QED BY <1>2, <1>3, <1>4, ChangeKeepsJoin

\* An earlier definition comes back only if its runs have left no index of another one.
LEMMA EditKeeps == ASSUME JoinInv, MayReturn = FALSE, Joining!Edit PROVE JoinInv'
  <1>1. /\ run.phase = "idle" /\ definition' \in Definition
        /\ definition' # definition
        /\ manifest # None /\ definition' = manifest.contract => ~spoiled
        /\ UNCHANGED <<left, right, manifest, frames, run, output, metadata, spoiled, changes>>
    BY DEF Joining!Edit, Joining!Earlier
  <1>2. JoinTypes'
    BY <1>1 DEF JoinInv, JoinTypes, SidesTypes, KeptTypes, JoinRunTypes
  <1>3. FramesInv'
    BY <1>1 DEF JoinInv, FramesInv, Indexed
  <1>4. MetadataInv'
    BY <1>1 DEF JoinInv, MetadataInv
  <1> QED BY <1>1, <1>2, <1>3, <1>4 DEF JoinInv

LEMMA ResetKeeps == ASSUME JoinInv, Joining!Reset PROVE JoinInv'
  <1>1. /\ run.phase = "idle" /\ metadata' = None
        /\ UNCHANGED <<definition, left, right, manifest, frames, run, spoiled, changes>>
    BY DEF Joining!Reset
  <1>2. JoinTypes'
    BY <1>1 DEF JoinInv, JoinTypes, SidesTypes, KeptTypes, JoinRunTypes
  <1>3. FramesInv'
    BY <1>1 DEF JoinInv, FramesInv, Indexed
  <1>4. MetadataInv'
    BY <1>1 DEF MetadataInv
  <1> QED BY <1>1, <1>2, <1>3, <1>4 DEF JoinInv

LEMMA SeenNow ==
  ASSUME JoinTypes
  PROVE  /\ PastSeen(Joining!Seen, changes) /\ Joining!Seen.definition = definition
         /\ SeenFiles(Joining!Seen) = Joining!Present /\ Joining!Present \subseteq JoinFile
         /\ Joining!Seen # None
  <1>1. SidesTypes /\ changes \in Nat /\ None \notin Nat
    BY JoinNumbers DEF JoinTypes
  <1>2. \A f \in JoinFile : IF right[f] = None THEN Joining!Times(right)[f] = None
                            ELSE Joining!Times(right)[f] \in Nat /\ Joining!Times(right)[f] <= changes
    BY <1>1 DEF Joining!Times, SidesTypes
  <1>3. PastTimes(Joining!Times(right), changes)
    <2>1. Joining!Times(right) \in [JoinFile -> Nat \cup {None}]
      BY <1>1, <1>2 DEF Joining!Times
    <2> QED BY <1>2, <2>1 DEF PastTimes
  <1>4. /\ Joining!Seen.definition = definition /\ Joining!Seen.left = left.time
        /\ Joining!Seen.right = Joining!Times(right)
        /\ Joining!Seen \in [definition : Definition, left : Nat, right : [JoinFile -> Nat \cup {None}]]
    BY <1>1, <1>3 DEF Joining!Seen, PastTimes, SidesTypes
  <1>5. PastSeen(Joining!Seen, changes)
    BY <1>1, <1>3, <1>4 DEF PastSeen, SidesTypes
  <1>6. SeenFiles(Joining!Seen) = Joining!Present /\ Joining!Present \subseteq JoinFile
    BY <1>1, <1>2, <1>4 DEF SeenFiles, Joining!Present
  <1>7. Joining!Seen # None
    BY <1>4, JoinConstants DEF Joining!JoinAssumption
  <1> QED BY <1>4, <1>5, <1>6, <1>7

LEMMA IdleJoin ==
  /\ RunShape(Joining!Idle) /\ Joining!Idle.phase = "idle" /\ Joining!Idle.full \in BOOLEAN
  /\ Joining!Idle.keys = {} /\ Joining!Idle.todo = {} /\ Joining!Idle.files = {}
  /\ DOMAIN Joining!Idle.index = JoinFile /\ Joining!Idle.times = [f \in JoinFile |-> None]
  /\ \A n : PastTimes(Joining!Idle.times, n)
  BY DEF Joining!Idle, RunShape, PastTimes

LEMMA BeginKeepsJoin == ASSUME JoinInv, Joining!Begin PROVE JoinInv'
  <1>1. /\ run.phase = "idle"
        /\ UNCHANGED <<definition, left, right, manifest, frames, output, metadata, spoiled, changes>>
        /\ run' = [Joining!Idle EXCEPT !.phase = "keyspace", !.seen = Joining!Seen,
                                       !.files = Joining!Present, !.todo = Joining!Present]
    BY DEF Joining!Begin
  <1>2. /\ RunShape(run') /\ run'.phase = "keyspace" /\ run'.seen = Joining!Seen
        /\ run'.files = Joining!Present /\ run'.todo = Joining!Present
        /\ run'.keys = {} /\ run'.full \in BOOLEAN /\ DOMAIN run'.index = JoinFile
        /\ run'.times = [f \in JoinFile |-> None]
    BY <1>1, IdleJoin DEF RunShape
  <1>3. JoinTypes
    BY DEF JoinInv
  <1>4. JoinRunTypes'
    BY <1>1, <1>2, <1>3, SeenNow, IdleJoin DEF JoinRunTypes, Joining!Phases
  <1>5. JoinTypes'
    BY <1>1, <1>3, <1>4 DEF JoinTypes, SidesTypes, KeptTypes
  <1>6. FramesInv'
    BY <1>1, <1>2 DEF JoinInv, FramesInv, Indexed
  <1>7. JoinRunInv'
    BY <1>1, <1>2, <1>3, SeenNow DEF JoinRunInv
  <1>8. MetadataInv'
    BY <1>1 DEF JoinInv, MetadataInv
  <1> QED BY <1>5, <1>6, <1>7, <1>8 DEF JoinInv

LEMMA MaterializeKeeps == ASSUME JoinInv, Joining!Materialize PROVE JoinInv'
  <1> DEFINE full == manifest = None \/ manifest.contract # run.seen.definition
  <1>1. PICK g : /\ run.phase = "keyspace"
                 /\ run' = [run EXCEPT !.phase = "index", !.keys = left.content \ {None}, !.group = g,
                                       !.full = full]
                 /\ frames' = IF full THEN [f \in JoinFile |-> None] ELSE frames
                 /\ UNCHANGED <<definition, left, right, manifest, output, metadata, spoiled, changes>>
    BY DEF Joining!Materialize
  <1>2. JoinTypes /\ JoinRunTypes /\ JoinRunInv
    BY <1>1 DEF JoinInv, JoinTypes
  <1>3. /\ RunShape(run') /\ run'.phase = "index" /\ run'.keys = left.content \ {None}
        /\ run'.full = full /\ run'.full \in BOOLEAN
        /\ run'.seen = run.seen /\ run'.files = run.files /\ run'.todo = run.todo
        /\ run'.index = run.index /\ run'.times = run.times
    BY <1>1, <1>2 DEF JoinRunTypes, RunShape
  <1>4. left.content \ {None} \subseteq JoinKey
    BY <1>2, JoinConstants DEF Joining!JoinAssumption, JoinTypes, SidesTypes
  <1>5. JoinRunTypes'
    BY <1>1, <1>2, <1>3, <1>4, SeenNow DEF JoinRunTypes, Joining!Phases
  <1>6. JoinTypes'
    BY <1>1, <1>2, <1>5 DEF JoinTypes, SidesTypes, KeptTypes
  <1>7. FramesInv'
    <2>1. FramesInv
      BY DEF JoinInv
    <2>2. CASE full
      <3>1. \A f \in JoinFile : frames'[f] = None
        BY <1>1, <2>2
      <3> QED BY <1>1, <3>1 DEF FramesInv, Indexed
    <2>3. CASE ~full
      BY <1>1, <1>3, <2>1, <2>3 DEF FramesInv, Indexed
    <2> QED BY <2>2, <2>3
  <1>8. JoinRunInv'
    <2>1. \A f \in JoinFile : run'.times[f] = None /\ (right'[f] # None => right'[f].time # None)
      BY <1>1, <1>2, <1>3, JoinNumbers DEF JoinRunInv, JoinTypes, SidesTypes
    <2>2. Indexed(run.times, definition)'
      BY <2>1 DEF Indexed
    <2>3. run'.files \ run'.todo = {}
      BY <1>1, <1>2, <1>3 DEF JoinRunInv
    <2> QED BY <1>1, <1>2, <1>3, <2>2, <2>3 DEF JoinRunInv
  <1>9. MetadataInv'
    BY <1>1 DEF JoinInv, MetadataInv
  <1> QED BY <1>6, <1>7, <1>8, <1>9 DEF JoinInv

\* A file is indexed for what it is now, whether its candidates are made or found.
LEMMA IndexFileKeeps ==
  ASSUME JoinInv, NEW f \in JoinFile, Joining!IndexFile(f) PROVE JoinInv'
  <1> DEFINE now == Joining!Candidates(right[f].content, definition)
             c == IF Joining!CanReuse(f) THEN frames[f]
                  ELSE Joining!Candidates(right[f].content, run.seen.definition)
  <1>1. /\ run.phase = "index" /\ f \in run.todo /\ right[f] # None
        /\ frames' = [frames EXCEPT ![f] = c]
        /\ run' = [run EXCEPT !.todo = @ \ {f}, !.index[f] = c, !.times[f] = right[f].time,
                              !.phase = IF run.todo = {f} THEN "manifest" ELSE "index"]
        /\ UNCHANGED <<definition, left, right, manifest, output, metadata, spoiled, changes>>
    BY DEF Joining!IndexFile
  <1>2. JoinTypes /\ SidesTypes /\ KeptTypes /\ JoinRunTypes /\ JoinRunInv /\ FramesInv
    BY <1>1 DEF JoinInv, JoinTypes
  <1>3. c = now
    <2>1. CASE Joining!CanReuse(f)
      <3>1. ~run.full /\ frames[f] # None /\ manifest.times[f] = right[f].time
        BY <2>1 DEF Joining!CanReuse
      <3>2. manifest # None /\ manifest.contract = definition
        BY <1>1, <1>2, <3>1 DEF JoinRunInv
      <3> QED BY <1>1, <1>2, <2>1, <3>1, <3>2 DEF FramesInv, Indexed
    <2>2. CASE ~Joining!CanReuse(f)
      BY <1>1, <1>2, <2>2 DEF JoinRunInv
    <2> QED BY <2>1, <2>2
  <1> HIDE DEF c, now
  <1>4. /\ RunShape(run') /\ run'.phase \in {"index", "manifest"}
        /\ run'.phase = "manifest" => run.todo = {f}
        /\ run'.seen = run.seen /\ run'.files = run.files /\ run'.keys = run.keys /\ run'.full = run.full
        /\ run'.todo = run.todo \ {f} /\ run'.index = [run.index EXCEPT ![f] = c]
        /\ run'.times = [run.times EXCEPT ![f] = right[f].time]
    BY <1>1, <1>2 DEF JoinRunTypes, RunShape
  <1>5. /\ frames'[f] = now /\ \A e \in JoinFile \ {f} : frames'[e] = frames[e]
        /\ DOMAIN frames' = JoinFile
    BY <1>1, <1>2, <1>3 DEF KeptTypes
  <1>6. JoinTypes'
    <2>1. right[f].time \in Nat /\ right[f].time <= changes
      BY <1>1, <1>2, JoinNumbers DEF SidesTypes
    <2>2. PastTimes(run'.times, changes)
      BY <1>2, <1>4, <2>1 DEF JoinRunTypes, PastTimes
    <2>3. JoinRunTypes'
      BY <1>1, <1>2, <1>4, <2>2 DEF JoinRunTypes, Joining!Phases
    <2> QED BY <1>1, <1>2, <1>5, <2>3 DEF JoinTypes, SidesTypes, KeptTypes
  <1>7. FramesInv'
    BY <1>1, <1>2, <1>4, <1>5 DEF FramesInv, Indexed, now
  <1>8. JoinRunInv'
    <2>1. Indexed(run.times, definition)
      BY <1>1, <1>2 DEF JoinRunInv
    <2>2. ASSUME NEW e \in JoinFile \ {f} PROVE run'.times[e] = run.times[e] /\ run'.index[e] = run.index[e]
      BY <1>2, <1>4 DEF JoinRunTypes, PastTimes
    <2>3. Indexed(run.times, definition)'
      BY <1>1, <1>5, <2>1, <2>2 DEF Indexed, now
    <2>4. run'.index[f] = now /\ run'.files \ run'.todo \subseteq (run.files \ run.todo) \cup {f}
      BY <1>2, <1>3, <1>4 DEF JoinRunTypes
    <2>5. Unmoved(left, right, run.seen) =>
            /\ run.keys = left.content \ {None}
            /\ \A e \in run'.files \ run'.todo : run'.index[e] = Joining!Candidates(right[e].content, definition)
      <3>1. run.files \subseteq JoinFile
        BY <1>1, <1>2 DEF JoinRunTypes, SeenFiles
      <3> QED BY <1>1, <1>2, <2>2, <2>4, <3>1 DEF JoinRunInv, now
    <2>6. run'.phase = "manifest" => run'.todo = {}
      BY <1>4
    <2> QED BY <1>1, <1>2, <1>4, <2>3, <2>5, <2>6 DEF JoinRunInv
  <1>9. MetadataInv'
    BY <1>1 DEF JoinInv, MetadataInv
  <1> QED BY <1>6, <1>7, <1>8, <1>9 DEF JoinInv

LEMMA DropStaleKeeps == ASSUME JoinInv, Joining!DropStale PROVE JoinInv'
  <1>1. PICK f : /\ run.phase = "manifest" /\ frames' = [frames EXCEPT ![f] = None]
                 /\ UNCHANGED <<definition, left, right, manifest, run, output, metadata, spoiled, changes>>
    BY DEF Joining!DropStale
  <1>2. JoinTypes /\ SidesTypes /\ KeptTypes /\ JoinRunTypes /\ JoinRunInv /\ FramesInv
    BY <1>1 DEF JoinInv, JoinTypes
  <1>3. DOMAIN frames' = JoinFile /\ \A e \in JoinFile : frames'[e] \in {frames[e], None}
    BY <1>1, <1>2 DEF KeptTypes
  <1>4. ASSUME NEW ts, NEW d, Indexed(ts, d) PROVE Indexed(ts, d)'
    BY <1>1, <1>3, <1>4 DEF Indexed
  <1>5. JoinTypes'
    BY <1>1, <1>2, <1>3 DEF JoinTypes, SidesTypes, KeptTypes, JoinRunTypes
  <1>6. FramesInv'
    BY <1>1, <1>2, <1>3 DEF FramesInv, Indexed
  <1>7. JoinRunInv'
    <2>1. Indexed(run.times, definition)'
      BY <1>1, <1>2, <1>3 DEF JoinRunInv, Indexed
    <2> QED BY <1>1, <1>2, <2>1 DEF JoinRunInv
  <1>8. MetadataInv'
    BY <1>1 DEF JoinInv, MetadataInv
  <1> QED BY <1>5, <1>6, <1>7, <1>8 DEF JoinInv

LEMMA WriteManifestKeeps == ASSUME JoinInv, Joining!WriteManifest PROVE JoinInv'
  <1>1. /\ run.phase = "manifest"
        /\ manifest' = [contract |-> run.seen.definition, times |-> run.times]
        /\ run' = [run EXCEPT !.phase = "join"]
        /\ UNCHANGED <<definition, left, right, frames, output, metadata, spoiled, changes>>
    BY DEF Joining!WriteManifest
  <1>2. JoinTypes /\ SidesTypes /\ KeptTypes /\ JoinRunTypes /\ JoinRunInv /\ FramesInv
    BY <1>1 DEF JoinInv, JoinTypes
  <1>3. /\ RunShape(run') /\ run'.phase = "join" /\ run'.seen = run.seen /\ run'.files = run.files
        /\ run'.keys = run.keys /\ run'.full = run.full /\ run'.todo = run.todo
        /\ run'.index = run.index /\ run'.times = run.times
    BY <1>1, <1>2 DEF JoinRunTypes, RunShape
  <1>4. manifest'.contract = definition /\ manifest'.times = run.times /\ definition \in Definition
    BY <1>1, <1>2 DEF JoinRunInv, SidesTypes
  <1>5. Indexed(run.times, definition) /\ PastTimes(run.times, changes)
    BY <1>1, <1>2 DEF JoinRunInv, JoinRunTypes
  <1>6. JoinRunTypes'
    BY <1>1, <1>2, <1>3 DEF JoinRunTypes, Joining!Phases
  <1>7. JoinTypes'
    BY <1>1, <1>2, <1>4, <1>5, <1>6 DEF JoinTypes, SidesTypes, KeptTypes
  <1>8. FramesInv'
    BY <1>1, <1>4, <1>5 DEF FramesInv, Indexed
  <1>9. JoinRunInv'
    <2>1. Indexed(run.times, definition)'
      BY <1>1, <1>5 DEF Indexed
    <2> QED BY <1>1, <1>2, <1>3, <2>1 DEF JoinRunInv
  <1>10. MetadataInv'
    BY <1>1 DEF JoinInv, MetadataInv
  <1> QED BY <1>7, <1>8, <1>9, <1>10 DEF JoinInv

\* The tasks read the sides as they are by now: if those are what the run has seen, their
\* rows are the join of what it has seen.
LEMMA JoinTasksKeeps == ASSUME JoinInv, NamedWhereTheyAre, Joining!JoinTasks PROVE JoinInv'
  <1> DEFINE rows == [t \in Joining!Tasks |-> Joining!TaskRows(t)]
  <1>1. /\ run.phase = "join"
        /\ run' = [run EXCEPT !.phase = "commit", !.staged = rows]
        /\ UNCHANGED <<definition, left, right, manifest, frames, output, metadata, spoiled, changes>>
    BY DEF Joining!JoinTasks
  <1>2. JoinTypes /\ JoinRunTypes /\ JoinRunInv /\ FramesInv
    BY <1>1 DEF JoinInv, JoinTypes
  <1>3. Unmoved(left, right, run.seen) => Exact(left, right, run.seen, rows)
    <2> SUFFICES ASSUME Unmoved(left, right, run.seen) PROVE Exact(left, right, run.seen, rows)
      OBVIOUS
    <2>1. run.keys = left.content \ {None} /\ run.todo = {} /\ run.seen.definition = definition
      BY <1>1, <1>2 DEF JoinRunInv
    <2>2. \A f \in run.files :
            right[f] # None /\ run.index[f] = Joining!Candidates(right[f].content, run.seen.definition)
      BY <1>1, <1>2, <2>1 DEF JoinRunInv, JoinRunTypes, Unmoved
    <2> QED BY <1>1, <1>2, <2>1, <2>2, TasksAreTheJoin
  <1> HIDE DEF rows
  <1>4. /\ RunShape(run') /\ run'.phase = "commit" /\ run'.staged = rows
        /\ run'.seen = run.seen /\ run'.files = run.files
        /\ run'.keys = run.keys /\ run'.full = run.full /\ run'.todo = run.todo
        /\ run'.index = run.index /\ run'.times = run.times
    BY <1>1, <1>2 DEF JoinRunTypes, RunShape
  <1>5. JoinRunTypes'
    BY <1>1, <1>2, <1>4 DEF JoinRunTypes, Joining!Phases
  <1>6. JoinTypes'
    BY <1>1, <1>2, <1>5 DEF JoinTypes, SidesTypes, KeptTypes
  <1>7. FramesInv'
    BY <1>1, <1>2, <1>4 DEF FramesInv, Indexed
  <1>8. JoinRunInv'
    <2>1. Indexed(run.times, definition)'
      BY <1>1, <1>2 DEF JoinRunInv, Indexed
    <2> QED BY <1>1, <1>2, <1>3, <1>4, <2>1 DEF JoinRunInv
  <1>9. MetadataInv'
    BY <1>1 DEF JoinInv, MetadataInv
  <1> QED BY <1>6, <1>7, <1>8, <1>9 DEF JoinInv

LEMMA CommitKeeps == ASSUME JoinInv, Joining!Commit PROVE JoinInv'
  <1>1. /\ run.phase = "commit" /\ output' = run.staged /\ metadata' = None
        /\ run' = [run EXCEPT !.phase = "metadata"]
        /\ UNCHANGED <<definition, left, right, manifest, frames, spoiled, changes>>
    BY DEF Joining!Commit
  <1>2. JoinTypes /\ JoinRunTypes /\ JoinRunInv /\ FramesInv
    BY <1>1 DEF JoinInv, JoinTypes
  <1>3. /\ RunShape(run') /\ run'.phase = "metadata" /\ run'.seen = run.seen /\ run'.files = run.files
        /\ run'.keys = run.keys /\ run'.full = run.full /\ run'.todo = run.todo
        /\ run'.index = run.index /\ run'.times = run.times
    BY <1>1, <1>2 DEF JoinRunTypes, RunShape
  <1>4. JoinRunTypes'
    BY <1>1, <1>2, <1>3 DEF JoinRunTypes, Joining!Phases
  <1>5. JoinTypes'
    BY <1>1, <1>2, <1>4 DEF JoinTypes, SidesTypes, KeptTypes
  <1>6. FramesInv'
    BY <1>1, <1>2, <1>3 DEF FramesInv, Indexed
  <1>7. JoinRunInv'
    <2>1. Indexed(run.times, definition)'
      BY <1>1, <1>2 DEF JoinRunInv, Indexed
    <2> QED BY <1>1, <1>2, <1>3, <2>1 DEF JoinRunInv
  <1>8. MetadataInv'
    BY <1>1 DEF MetadataInv
  <1> QED BY <1>5, <1>6, <1>7, <1>8 DEF JoinInv

LEMMA WriteMetadataKeeps == ASSUME JoinInv, Joining!WriteMetadata PROVE JoinInv'
  <1>1. /\ run.phase = "metadata" /\ metadata' = run.seen /\ run' = Joining!Idle /\ spoiled' = FALSE
        /\ UNCHANGED <<definition, left, right, manifest, frames, output, changes>>
    BY DEF Joining!WriteMetadata
  <1>2. JoinTypes /\ JoinRunTypes /\ JoinRunInv /\ FramesInv
    BY <1>1 DEF JoinInv, JoinTypes
  <1>3. manifest # None => manifest.contract = definition
    BY <1>1, <1>2 DEF JoinRunInv
  <1>4. JoinRunTypes'
    BY <1>1, IdleJoin DEF JoinRunTypes, Joining!Phases
  <1>5. JoinTypes'
    BY <1>1, <1>2, <1>4 DEF JoinTypes, SidesTypes, KeptTypes, JoinRunTypes
  <1>6. FramesInv'
    BY <1>1, <1>2, <1>3 DEF FramesInv, Indexed
  <1>7. MetadataInv'
    BY <1>1, <1>2 DEF JoinRunInv, MetadataInv
  <1>8. run'.phase = "idle"
    BY <1>1, IdleJoin
  <1> QED BY <1>5, <1>6, <1>7, <1>8 DEF JoinInv

LEMMA JoinFails == ASSUME JoinInv, Joining!Fail PROVE JoinInv'
  <1>1. /\ run' = Joining!Idle /\ spoiled' = TRUE
        /\ UNCHANGED <<definition, left, right, manifest, frames, output, metadata, changes>>
    BY DEF Joining!Fail
  <1>2. JoinTypes /\ FramesInv
    BY DEF JoinInv
  <1>3. JoinRunTypes'
    BY <1>1, IdleJoin DEF JoinRunTypes, Joining!Phases
  <1>4. JoinTypes'
    BY <1>1, <1>2, <1>3 DEF JoinTypes, SidesTypes, KeptTypes
  <1>5. FramesInv'
    BY <1>1, <1>2 DEF FramesInv, Indexed
  <1>6. MetadataInv'
    BY <1>1 DEF JoinInv, MetadataInv
  <1>7. run'.phase = "idle"
    BY <1>1, IdleJoin
  <1> QED BY <1>4, <1>5, <1>6, <1>7 DEF JoinInv

LEMMA JoinStutters == ASSUME JoinInv, UNCHANGED joinVars PROVE JoinInv'
  <1>1. UNCHANGED <<definition, left, right, manifest, frames, run, output, metadata, spoiled, changes>>
    BY DEF joinVars
  <1>2. JoinTypes'
    BY <1>1 DEF JoinInv, JoinTypes, SidesTypes, KeptTypes, JoinRunTypes
  <1>3. FramesInv'
    BY <1>1 DEF JoinInv, FramesInv, Indexed
  <1>4. run.phase # "idle" => JoinRunInv'
    BY <1>1 DEF JoinInv, JoinRunInv, Indexed
  <1>5. MetadataInv'
    BY <1>1 DEF JoinInv, MetadataInv
  <1> QED BY <1>1, <1>2, <1>3, <1>4, <1>5 DEF JoinInv

LEMMA JoinInit == ASSUME Joining!Init PROVE JoinInv
  <1>1. /\ definition \in Definition
        /\ left \in [content : LeftContents, time : {0}]
        /\ right \in [JoinFile -> [content : UNION {RightContents[f] : f \in JoinFile}, time : {0}]]
        /\ \A f \in JoinFile : right[f].content \in RightContents[f]
        /\ manifest = None /\ frames = [f \in JoinFile |-> None]
        /\ run = Joining!Idle /\ metadata = None /\ spoiled = FALSE /\ changes = 0
    BY DEF Joining!Init
  <1>2. MaxJoinChanges \in Nat
    BY JoinConstants DEF Joining!JoinAssumption
  <1>3. SidesTypes
    <2>1. left.content \in LeftContents /\ left.time = 0 /\ changes = 0
      BY <1>1
    <2>2. DOMAIN right = JoinFile /\ \A f \in JoinFile : right[f].time = 0
      BY <1>1
    <2>3. 0 \in 0 .. MaxJoinChanges /\ 0 \in 0 .. 0
      BY <1>2
    <2>4. \A f \in JoinFile : right[f].content \in RightContents[f] /\ right[f].time \in 0 .. changes
      BY <1>1, <2>1, <2>2, <2>3
    <2> QED BY <1>1, <2>1, <2>2, <2>3, <2>4 DEF SidesTypes
  <1>4. KeptTypes
    BY <1>1 DEF KeptTypes
  <1>5. JoinRunTypes
    BY <1>1, IdleJoin DEF JoinRunTypes, Joining!Phases
  <1>6. FramesInv /\ MetadataInv /\ run.phase = "idle"
    BY <1>1, IdleJoin DEF FramesInv, MetadataInv
  <1> QED BY <1>3, <1>4, <1>5, <1>6 DEF JoinInv, JoinTypes

LEMMA JoinStep == ASSUME JoinInv, MayReturn = FALSE, NamedWhereTheyAre, Joining!Next PROVE JoinInv'
  <1>1. ASSUME NEW f \in JoinFile, Joining!ChangeRight(f) PROVE JoinInv'
    BY <1>1, ChangeRightKeeps
  <1>2. ASSUME NEW f \in JoinFile, Joining!IndexFile(f) PROVE JoinInv'
    BY <1>2, IndexFileKeeps
  <1>3. CASE Joining!ChangeLeft
    <2>1. PICK f : f \in JoinFile
      BY JoinConstants DEF Joining!JoinAssumption
    <2> QED BY <1>3, <2>1, ChangeLeftKeeps
  <1>4. CASE Joining!Edit
    BY <1>4, EditKeeps
  <1>5. CASE Joining!Reset
    BY <1>5, ResetKeeps
  <1>6. CASE Joining!Begin
    BY <1>6, BeginKeepsJoin
  <1>7. CASE Joining!Materialize
    BY <1>7, MaterializeKeeps
  <1>8. CASE Joining!DropStale
    BY <1>8, DropStaleKeeps
  <1>9. CASE Joining!WriteManifest
    BY <1>9, WriteManifestKeeps
  <1>10. CASE Joining!JoinTasks
    BY <1>10, JoinTasksKeeps
  <1>11. CASE Joining!Commit
    BY <1>11, CommitKeeps
  <1>12. CASE Joining!WriteMetadata
    BY <1>12, WriteMetadataKeeps
  <1>13. CASE Joining!Fail
    BY <1>13, JoinFails
  <1> QED BY <1>1, <1>2, <1>3, <1>4, <1>5, <1>6, <1>7, <1>8, <1>9, <1>10, <1>11, <1>12, <1>13
          DEF Joining!Next

\* A run that would see what the last complete one saw finds the sides unmoved.
LEMMA JoinedIsExact == ASSUME JoinInv PROVE JoinIsExact
  <1>1. JoinTypes /\ SidesTypes /\ KeptTypes /\ JoinRunTypes
    BY DEF JoinInv, JoinTypes
  <1>2. Joining!TypeOK
    <2>1. \A f \in Joining!Present : right[f].content \in RightContents[f]
      BY <1>1 DEF SidesTypes, Joining!Present
    <2>2. manifest # None => manifest.contract \in Definition /\ DOMAIN manifest.times = JoinFile
      BY <1>1 DEF KeptTypes, PastTimes
    <2>3. metadata # None => metadata.definition \in Definition
      BY <1>1 DEF KeptTypes, PastSeen
    <2>4. run.todo \subseteq JoinFile
      BY <1>1, IdleJoin DEF JoinRunTypes, SeenFiles
    <2> QED BY <1>1, <2>1, <2>2, <2>3, <2>4 DEF SidesTypes, KeptTypes, JoinRunTypes, Joining!TypeOK
  <1>3. ASSUME run.phase = "idle", Joining!Unchanged
        PROVE  /\ UNION {output[t] : t \in DOMAIN output} = Joining!Expected
               /\ \A t, u \in DOMAIN output : t # u => output[t] \cap output[u] = {}
    <2>1. metadata = Joining!Seen
      BY <1>3 DEF Joining!Unchanged
    <2>2. metadata # None /\ SeenFiles(metadata) = Joining!Present
      BY <1>1, <2>1, SeenNow
    <2>3. Unmoved(left, right, metadata)
      <3>1. metadata.left = left.time /\ metadata.right = Joining!Times(right)
        BY <2>1 DEF Joining!Seen
      <3>2. \A f \in Joining!Present : right[f] # None /\ f \in JoinFile
        BY DEF Joining!Present
      <3> QED BY <2>2, <3>1, <3>2 DEF Unmoved, Joining!Times
    <2>4. Exact(left, right, metadata, output)
      BY <2>2, <2>3 DEF JoinInv, MetadataInv
    <2>5. metadata.definition = definition
      BY <2>1 DEF Joining!Seen
    <2> QED BY <2>2, <2>4, <2>5 DEF Exact, RowsOf, Joining!Expected
  <1> QED BY <1>2, <1>3 DEF JoinIsExact, Joining!JoinIsExact

\* JoinIsExact is an invariant: a dataset that the next run would take for up to date holds the join
\* of what is there, and no row of it twice, whatever changed while its run was going on, and
\* whatever index earlier runs, or ones that failed, left to it.
THEOREM JoinsAreExact ==
  ASSUME MayReturn = FALSE, NamedWhereTheyAre
  PROVE  StoresSpec => []JoinIsExact
  <1>1. StoresInit => JoinInv
    BY JoinInit DEF StoresInit
  <1>2. JoinInv /\ [StoresNext]_storesVars => JoinInv'
    <2> SUFFICES ASSUME JoinInv, [StoresNext]_storesVars PROVE JoinInv'
      OBVIOUS
    <2>1. CASE OfJoining /\ Joining!Next
      BY <2>1, JoinStep
    <2>2. CASE UNCHANGED joinVars
      BY <2>2, JoinStutters
    <2>3. (OfJoining /\ Joining!Next) \/ UNCHANGED joinVars
      BY DEF StoresNext, OfPublishing, OfReading, OfCalculations, storesVars
    <2> QED BY <2>1, <2>2, <2>3
  <1>3. JoinInv => JoinIsExact
    BY JoinedIsExact
  <1> QED BY <1>1, <1>2, <1>3, PTL DEF StoresSpec
=============================================================================
