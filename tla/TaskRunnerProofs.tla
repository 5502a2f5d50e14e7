--------------------------- MODULE TaskRunnerProofs ---------------------------
(***************************************************************************)
(* Proofs about TaskRunner for any number of tasks, workers and deaths.    *)
(* The first part is about the planning of batches: tasks are put in       *)
(* order, cut or dealt out, filtered, and none is lost or doubled.  The    *)
(* second follows each task through pools that break, children that hand   *)
(* work back, and calls that are repeated.                                 *)
(***************************************************************************)
EXTENDS TaskRunner, FiniteSetTheorems, TLAPS

-----------------------------------------------------------------------------
(* What is proved about *)

\* A sequence of batches: none is empty, no task is in two places.
Batch == {b \in Seq(Task) : b # <<>> /\ IsInjective(b)}
Disjoint(s) == \A i, j \in DOMAIN s : i # j => Range(s[i]) \cap Range(s[j]) = {}
Within(s) == UNION {Range(s[i]) : i \in DOMAIN s}

Plan(s, S) == s \in Seq(Batch) /\ Disjoint(s) /\ Within(s) = S

\* One result of each task.
OneEach(s) == \A i, j \in DOMAIN s : s[i].task = s[j].task => i = j

\* A batch of which some tasks are done and the rest is not.
Split(batch, done, rest) ==
  /\ OneEach(done) /\ IsInjective(rest)
  /\ TasksOf(done) \cup Range(rest) = Range(batch) /\ TasksOf(done) \cap Range(rest) = {}

\* Where the tasks of the call under way are.
Waiting == Within(pending)
Unseen == {f \in DOMAIN future : future[f].state # "seen"}
Out == UNION {Range(future[f].batch) : f \in Unseen}
Goal == Waiting \cup Out \cup TasksOf(results)

Future == [batch : Batch, state : {"unsent", "queued", "taken", "done", "broken", "escaped", "seen"},
           done : Seq(Result), rest : Seq(Task)]
Process == [pc : {"none", "idle", "busy", "reporting", "dead"}, future : Nat, left : Seq(Task),
            done : Seq(Result), ran : Nat, limit : Nat \cup {None}]

Types ==
  /\ deployment \in Deployments
  /\ phase \in {"planning", "between", "submitting", "waiting", "leaving", "settled", "returned", "raised"}
  /\ failing \in BOOLEAN /\ broken \in BOOLEAN
  /\ mode \in {"explicit", "single", "limited"} /\ size \in (Nat \ {0}) \cup {None}
  /\ asked \in SUBSET Task /\ todo \in SUBSET Task
  /\ pending \in Seq(Batch) /\ future \in Seq(Future) /\ child \in [Child -> Process]
  /\ results \in Seq(Result) /\ answer \in Seq(Result)
  /\ runs \in [Task -> Nat] /\ deaths \in 0..deployment.deaths

\* No task of a call is in two places, ...
PlacesInv ==
  /\ Disjoint(pending) /\ OneEach(results)
  /\ \A f, g \in DOMAIN future : f # g => Range(future[f].batch) \cap Range(future[g].batch) = {}
  /\ Waiting \cap Out = {} /\ Waiting \cap TasksOf(results) = {} /\ Out \cap TasksOf(results) = {}

\* ... a pool is left only when all it was given has been seen, ...
AtWork == phase \in {"submitting", "waiting", "leaving"}
FutureInv ==
  /\ failing => phase \in {"leaving", "raised"}
  /\ phase = "raised" => failing /\ \A f \in DOMAIN future : future[f].state # "queued"
  /\ ~failing /\ phase \notin {"submitting", "waiting"} => Unseen = {}
  /\ \A f \in DOMAIN future :
       future[f].state = "done" => Split(future[f].batch, future[f].done, future[f].rest)

\* ... a child has a batch of its own, and so has one that a broken pool left behind, ...
AtTask(c) == child[c].pc \in {"busy", "reporting"}
ChildInv ==
  /\ \A c \in Child :
       /\ child[c].pc = "none" \/ ~AtWork => child[c] = NoChild
       /\ child[c].pc \in {"idle", "dead"} => child[c].limit = None
       /\ child[c].pc = "busy" => child[c].left # <<>>
       /\ AtTask(c) =>
            /\ child[c].future \in DOMAIN future
            /\ LET f == future[child[c].future] IN
               /\ f.state \in {"taken", "broken", "seen"} /\ (~broken => f.state = "taken")
               /\ Split(f.batch, child[c].done, child[c].left)
               /\ Range(f.batch) \cap Waiting = {}
  /\ \A c, d \in Child : AtTask(c) /\ AtTask(d) /\ c # d => child[c].future # child[d].future

\* ... with no more tasks than it may run, ...
LimitInv ==
  /\ mode = "limited" => /\ size # None
                         /\ \A i \in DOMAIN pending : Len(pending[i]) <= size
                         /\ \A f \in Unseen : Len(future[f].batch) <= size
  /\ \A c \in Child :
       /\ mode = "limited" => child[c].pc # "idle"
       /\ AtTask(c) => child[c].limit = IF mode = "limited" THEN size ELSE None
       /\ mode = "limited" /\ child[c].pc = "busy" => child[c].ran + Len(child[c].left) <= size + 1
       /\ mode = "limited" /\ child[c].pc = "reporting" => child[c].ran <= size
  /\ deployment.caller = "candidates" /\ phase # "planning" => mode # "single" /\ size # None
  /\ todo # {} => deployment.caller = "candidates"
  /\ mode # "single" => Len(future) <= deployment.workers

\* ... and what waits has not run.
FreshInv ==
  /\ \A t \in Task : runs[t] <= 1
  /\ \A t \in Waiting : runs[t] = 0
  /\ \A f \in DOMAIN future :
       /\ future[f].state \in {"unsent", "queued"} => \A t \in Range(future[f].batch) : runs[t] = 0
       /\ future[f].state = "done" => \A t \in Range(future[f].rest) : runs[t] = 0
  /\ \A c \in Child :
       /\ child[c].pc = "busy" => \A t \in Range(Tail(child[c].left)) : runs[t] = 0
       /\ child[c].pc = "reporting" => \A t \in Range(child[c].left) : runs[t] = 0

\* A call is about tasks that have no answer yet, or about all that may be tried again.
CallInv ==
  /\ OneEach(answer) /\ todo \cap TasksOf(answer) = {}
  /\ phase = "planning" => /\ pending = <<>> /\ future = <<>> /\ results = <<>> /\ answer = <<>>
                           /\ todo = {} /\ asked = {} /\ mode = "single"
  /\ AtWork \/ phase = "between" =>
       \/ /\ Goal \cap TasksOf(answer) = {} /\ Goal \cap todo = {}
          /\ Goal \cup TasksOf(answer) \cup todo = asked
       \/ /\ todo = {} /\ TasksOf(answer) = asked /\ Goal \subseteq asked
          /\ \A r \in Range(answer) : r.task \in Goal => r.kind \in {"abnormal", "memory"}
  /\ phase \in {"settled", "returned"} => TasksOf(answer) \cup todo = asked /\ pending = <<>>
  /\ phase = "returned" => todo = {}
  /\ todo \subseteq asked

RunnerInv == Types /\ PlacesInv /\ FutureInv /\ ChildInv /\ LimitInv /\ FreshInv /\ CallInv
-----------------------------------------------------------------------------
(* Sequences *)

\* What makes a function a sequence.
LEMMA SeqOf ==
  ASSUME NEW T, NEW m \in Nat, NEW f, f = [i \in 1 .. m |-> f[i]], \A i \in 1 .. m : f[i] \in T
  PROVE  f \in Seq(T) /\ Len(f) = m /\ DOMAIN f = 1 .. m
  OBVIOUS

LEMMA SeqWiden ==
  ASSUME NEW S, NEW T, S \subseteq T, NEW s \in Seq(S)
  PROVE  s \in Seq(T)
  OBVIOUS

\* The numbers of a finite set in their order are each of them, once.
LEMMA InOrderIs ==
  ASSUME NEW S \in SUBSET Nat, IsFiniteSet(S)
  PROVE  /\ Cardinality(S) \in Nat /\ InOrder(S) \in Seq(S) /\ Len(InOrder(S)) = Cardinality(S)
         /\ IsInjective(InOrder(S)) /\ Range(InOrder(S)) = S
  <1> DEFINE n == Cardinality(S)
             below(t) == {m \in S : m <= t}
             rank == [t \in S |-> Cardinality(below(t))]
  <1>1. n \in Nat
    BY FS_CardinalityType
  <1>2. ASSUME NEW t \in S PROVE rank[t] \in 1 .. n /\ IsFiniteSet(below(t))
    <2>0. below(t) \in SUBSET S
      OBVIOUS
    <2> HIDE DEF below
    <2>1. IsFiniteSet(below(t)) /\ Cardinality(below(t)) <= n
      BY <2>0, FS_Subset
    <2>2. Cardinality(below(t)) \in Nat
      BY <2>1, FS_CardinalityType
    <2>3. t \in below(t)
      BY DEF below
    <2>4. Cardinality(below(t)) # 0
      BY <2>1, <2>3, FS_EmptySet
    <2> QED BY <1>1, <2>1, <2>2, <2>4
  <1>3. ASSUME NEW t \in S, NEW u \in S, t < u PROVE rank[t] # rank[u]
    <2>0. S \subseteq Nat /\ t < u /\ u \in below(u)
      BY <1>3
    <2>4. u \notin below(t)
      BY <2>0
    <2>5. ASSUME NEW m \in below(t) PROVE m \in below(u)
      <3>1. m \in S /\ m <= t /\ m <= u
        BY <2>0
      <3> QED BY <3>1
    <2>1. below(t) \in SUBSET below(u) /\ u \in below(u) /\ u \notin below(t)
      BY <2>0, <2>4, <2>5
    <2>2. IsFiniteSet(below(u))
      BY <1>2
    <2>3. Cardinality(below(t)) # Cardinality(below(u))
      BY <2>1, <2>2, FS_Subset
    <2> QED BY <2>3
  <1>4. rank \in [S -> 1 .. n] /\ \A t, u \in S : rank[t] = rank[u] => t = u
    BY <1>2, <1>3
  <1>5. rank \in Injection(S, 1 .. n)
    BY <1>4 DEF Injection, IsInjective
  <1>6. rank \in Surjection(S, 1 .. n)
    <2>1. IsFiniteSet(1 .. n) /\ Cardinality(1 .. n) = n
      BY <1>1, FS_Interval
    <2> HIDE DEF rank
    <2> QED BY <1>5, <2>1, FS_Injection
  <1>7. \A i \in 1 .. n : \E t \in S : rank[t] = i
    BY <1>6 DEF Surjection
  <1>8. \A i \in 1 .. n : InOrder(S)[i] \in S /\ rank[InOrder(S)[i]] = i
    BY <1>7 DEF InOrder
  <1>9. \A t \in S : rank[t] \in 1 .. n /\ InOrder(S)[rank[t]] = t
    BY <1>4, <1>8
  <1>10. DOMAIN InOrder(S) = 1 .. n /\ InOrder(S) = [i \in 1 .. n |-> InOrder(S)[i]]
    BY DEF InOrder
  <1> HIDE DEF rank, n
  <1>11. InOrder(S) \in Seq(S) /\ Len(InOrder(S)) = n
    BY <1>1, <1>8, <1>10
  <1>12. IsInjective(InOrder(S))
    BY <1>8, <1>10 DEF IsInjective
  <1>13. Range(InOrder(S)) = S
    BY <1>8, <1>9, <1>10 DEF Range
  <1> QED BY <1>1, <1>11, <1>12, <1>13 DEF n

\* What a sequence has at some positions comes from different positions, and from all of them.
LEMMA AtIs ==
  ASSUME NEW T, NEW s \in Seq(T), NEW K \in SUBSET DOMAIN s
  PROVE  /\ At(s, K) \in Seq(T)
         /\ \A k \in K : \E i \in DOMAIN At(s, K) : At(s, K)[i] = s[k]
         /\ \A i \in DOMAIN At(s, K) : \E k \in K : At(s, K)[i] = s[k]
         /\ \A i, j \in DOMAIN At(s, K) : i # j =>
              \E k, l \in K : k # l /\ At(s, K)[i] = s[k] /\ At(s, K)[j] = s[l]
  <1> DEFINE n == Cardinality(K)
             o == InOrder(K)
  <1>1. DOMAIN s = 1 .. Len(s) /\ Len(s) \in Nat
    OBVIOUS
  <1>2. IsFiniteSet(1 .. Len(s))
    BY <1>1, FS_Interval
  <1>3. K \in SUBSET Nat /\ IsFiniteSet(K)
    BY <1>1, <1>2, FS_Subset
  <1>4. n \in Nat /\ o \in Seq(K) /\ Len(o) = n /\ IsInjective(o) /\ Range(o) = K
    BY <1>3, InOrderIs
  <1>5. At(s, K) = [i \in 1 .. n |-> s[o[i]]]
    BY DEF At
  <1> HIDE DEF n, o
  <1>6. \A i \in 1 .. n : o[i] \in K /\ s[o[i]] \in T
    BY <1>1, <1>4
  <1>7. At(s, K) \in Seq(T) /\ DOMAIN At(s, K) = 1 .. n
    BY <1>4, <1>5, <1>6
  <1>8. \A k \in K : \E i \in 1 .. n : o[i] = k
    BY <1>4 DEF Range
  <1>9. \A i, j \in 1 .. n : i # j => o[i] # o[j]
    BY <1>4 DEF IsInjective
  <1>10. \A i \in 1 .. n : At(s, K)[i] = s[o[i]]
    BY <1>5
  <1> QED BY <1>6, <1>7, <1>8, <1>9, <1>10

-----------------------------------------------------------------------------
(* Batches *)

\* Batches that take each position of a sequence once.
Covers(pos, len, m, n) ==
  /\ \A i \in 1 .. m : len[i] \in Nat \ {0}
  /\ \A i \in 1 .. m : \A k \in 1 .. len[i] : pos[i][k] \in 1 .. n
  /\ \A i, j \in 1 .. m : \A k \in 1 .. len[i] : \A h \in 1 .. len[j] :
       pos[i][k] = pos[j][h] => i = j /\ k = h
  /\ \A p \in 1 .. n : \E i \in 1 .. m : \E k \in 1 .. len[i] : pos[i][k] = p

Picked(s, pos, len, m) == [i \in 1 .. m |-> [k \in 1 .. len[i] |-> s[pos[i][k]]]]

LEMMA CoversPlan ==
  ASSUME NEW s \in Seq(Task), IsInjective(s), NEW m \in Nat, NEW len, NEW pos, Covers(pos, len, m, Len(s))
  PROVE  Plan(Picked(s, pos, len, m), Range(s))
  <1> DEFINE b == Picked(s, pos, len, m)
  <1> HIDE DEF b
  <1>1. DOMAIN s = 1 .. Len(s) /\ \A p \in DOMAIN s : s[p] \in Task
    OBVIOUS
  <1>2. ASSUME NEW i \in 1 .. m
        PROVE  /\ b[i] \in Seq(Task) /\ DOMAIN b[i] = 1 .. len[i] /\ b[i] # <<>>
               /\ \A k \in 1 .. len[i] : b[i][k] = s[pos[i][k]] /\ pos[i][k] \in DOMAIN s
    <2>1. b[i] = [k \in 1 .. len[i] |-> s[pos[i][k]]]
      BY DEF b, Picked
    <2>2. \A k \in 1 .. len[i] : pos[i][k] \in DOMAIN s
      BY <1>1 DEF Covers
    <2>3. len[i] \in Nat /\ len[i] # 0
      BY DEF Covers
    <2>4. b[i] \in Seq(Task) /\ Len(b[i]) = len[i] /\ DOMAIN b[i] = 1 .. len[i]
      BY <1>1, <2>1, <2>2, <2>3
    <2>5. \A k \in 1 .. len[i] : b[i][k] = s[pos[i][k]]
      BY <2>1
    <2> QED BY <2>2, <2>3, <2>4, <2>5
  <1>3. DOMAIN b = 1 .. m /\ b = [i \in 1 .. m |-> b[i]]
    BY DEF b, Picked
  <1>4. ASSUME NEW i \in 1 .. m, NEW j \in 1 .. m, NEW k \in DOMAIN b[i], NEW h \in DOMAIN b[j], b[i][k] = b[j][h]
        PROVE  i = j /\ k = h
    <2>1. k \in 1 .. len[i] /\ h \in 1 .. len[j]
      BY <1>2
    <2>2. s[pos[i][k]] = s[pos[j][h]] /\ pos[i][k] \in DOMAIN s /\ pos[j][h] \in DOMAIN s
      BY <1>2, <1>4, <2>1
    <2>3. pos[i][k] = pos[j][h]
      BY <2>2 DEF IsInjective
    <2> QED BY <2>1, <2>3 DEF Covers
  <1>5. \A i \in 1 .. m : b[i] \in Batch
    <2>1. ASSUME NEW i \in 1 .. m PROVE IsInjective(b[i])
      BY <1>4, Zenon DEF IsInjective
    <2> QED BY <1>2, <2>1, Zenon DEF Batch
  <1>6. b \in Seq(Batch)
    BY <1>3, <1>5, SeqOf
  <1>7. Disjoint(b)
    <2>1. ASSUME NEW i \in 1 .. m, NEW j \in 1 .. m, i # j, NEW x \in Range(b[i]), x \in Range(b[j]) PROVE FALSE
      <3>1. PICK k \in DOMAIN b[i] : x = b[i][k]
        BY Zenon DEF Range
      <3>2. PICK h \in DOMAIN b[j] : x = b[j][h]
        BY <2>1, Zenon DEF Range
      <3> QED BY <1>4, <2>1, <3>1, <3>2, Zenon
    <2> QED BY <1>3, <2>1, Zenon DEF Disjoint
  <1>8. ASSUME NEW i \in 1 .. m, NEW x \in Range(b[i]) PROVE x \in Range(s)
    <2>1. PICK k \in DOMAIN b[i] : x = b[i][k]
      BY Zenon DEF Range
    <2>2. x = s[pos[i][k]] /\ pos[i][k] \in DOMAIN s
      BY <1>2, <2>1
    <2> QED BY <2>2, Zenon DEF Range
  <1>9. ASSUME NEW x \in Range(s) PROVE \E i \in 1 .. m : x \in Range(b[i])
    <2>1. PICK p \in DOMAIN s : x = s[p]
      BY Zenon DEF Range
    <2>2. PICK i \in 1 .. m : \E k \in 1 .. len[i] : pos[i][k] = p
      BY <1>1, Zenon DEF Covers
    <2>3. PICK k \in 1 .. len[i] : pos[i][k] = p
      BY <2>2, Zenon
    <2>4. x = b[i][k] /\ k \in DOMAIN b[i]
      BY <1>2, <2>1, <2>3, Zenon
    <2> QED BY <2>4, Zenon DEF Range
  <1>10. Within(b) = Range(s)
    BY <1>3, <1>8, <1>9, Zenon DEF Within
  <1> QED BY <1>6, <1>7, <1>10 DEF Plan, b

\* Rounding up.
LEMMA PartsIs ==
  ASSUME NEW a \in Nat, NEW n \in Nat \ {0}
  PROVE  Parts(a, n) \in Nat /\ \A k \in Nat \ {0} : k <= Parts(a, n) <=> (k - 1) * n < a
  <1> DEFINE q == (a + n - 1) \div n
             r == (a + n - 1) % n
  <1>1. q \in Int /\ r \in 0 .. n - 1 /\ a + n - 1 = n * q + r
    OBVIOUS
  <1> HIDE DEF q, r
  <1>2. q >= 0
    <2>1. CASE q <= -1
      <3>1. n * q <= -n
        BY <1>1, <2>1
      <3> QED BY <1>1, <3>1
    <2> QED BY <1>1, <2>1
  <1>3. ASSUME NEW k \in Nat \ {0} PROVE k <= q <=> (k - 1) * n < a
    <2>1. CASE k <= q
      <3>1. n * k <= n * q
        BY <1>1, <2>1
      <3>2. (k - 1) * n = n * k - n
        OBVIOUS
      <3> QED BY <1>1, <2>1, <3>1, <3>2
    <2>2. CASE q + 1 <= k
      <3>1. n * (q + 1) <= n * k
        BY <1>1, <2>2
      <3>2. (k - 1) * n = n * k - n /\ n * (q + 1) = n * q + n
        BY <1>1
      <3> QED BY <1>1, <2>2, <3>1, <3>2
    <2> QED BY <1>1, <2>1, <2>2
  <1> QED BY <1>1, <1>2, <1>3 DEF Parts, q

\* A number is found in one way as a multiple and a remainder.
LEMMA Unique ==
  ASSUME NEW n \in Nat \ {0}, NEW a \in Nat, NEW b \in Nat, NEW c \in 1 .. n, NEW d \in 1 .. n,
         a * n + c = b * n + d
  PROVE  a = b /\ c = d
  <1>1. CASE a < b
    <2>1. b * n = (b - a) * n + a * n
      OBVIOUS
    <2>2. (b - a) * n >= n
      BY <1>1
    <2> QED BY <2>1, <2>2
  <1>2. CASE b < a
    <2>1. a * n = (a - b) * n + b * n
      OBVIOUS
    <2>2. (a - b) * n >= n
      BY <1>2
    <2> QED BY <2>1, <2>2
  <1> QED BY <1>1, <1>2
LEMMA Found ==
  ASSUME NEW n \in Nat \ {0}, NEW p \in Nat \ {0}
  PROVE  \E a \in Nat : \E c \in 1 .. n : p = a * n + c
  <1> DEFINE q == (p - 1) \div n
             r == (p - 1) % n
  <1>1. q \in Int /\ r \in 0 .. n - 1 /\ p - 1 = n * q + r
    OBVIOUS
  <1> HIDE DEF q, r
  <1>2. q \in Nat
    <2>1. CASE q <= -1
      <3>1. n * q <= -n
        BY <1>1, <2>1
      <3> QED BY <1>1, <3>1
    <2> QED BY <1>1, <2>1
  <1>3. r + 1 \in 1 .. n /\ p = q * n + (r + 1)
    BY <1>1, <1>2
  <1> QED BY <1>2, <1>3

\* Cutting a sequence into batches of n.
LEMMA ChunksPlan ==
  ASSUME NEW s \in Seq(Task), IsInjective(s), NEW n \in Nat \ {0}
  PROVE  /\ Plan(Chunks(s, n), Range(s))
         /\ \A i \in DOMAIN Chunks(s, n) : Len(Chunks(s, n)[i]) <= n
  <1> DEFINE a == Len(s)
             m == Parts(a, n)
             len == [i \in 1 .. m |-> Smaller(i * n, a) - (i - 1) * n]
             pos == [i \in 1 .. m |-> [k \in 1 .. len[i] |-> (i - 1) * n + k]]
  <1>0. a \in Nat
    OBVIOUS
  <1> HIDE DEF a
  <1>1. a \in Nat /\ m \in Nat /\ \A k \in Nat \ {0} : k <= m <=> (k - 1) * n < a
    BY <1>0, PartsIs
  <1> HIDE DEF m
  <1>2. ASSUME NEW i \in 1 .. m
        PROVE  /\ (i - 1) * n \in Nat /\ i * n = (i - 1) * n + n /\ (i - 1) * n < a
               /\ len[i] \in 1 .. n
               /\ \A k \in 1 .. n : k <= len[i] <=> (i - 1) * n + k <= a
               /\ \A k \in 1 .. len[i] : pos[i][k] = (i - 1) * n + k
    <2>1. i \in Nat \ {0} /\ (i - 1) * n < a
      BY <1>1
    <2>2. (i - 1) * n \in Nat /\ i * n = (i - 1) * n + n
      BY <2>1
    <2>3. len[i] = IF i * n < a THEN n ELSE a - (i - 1) * n
      BY <1>1, <2>1, <2>2 DEF Smaller
    <2> QED BY <1>1, <2>1, <2>2, <2>3
  <1>3. \A i \in 1 .. m : SubSeq(s, (i - 1) * n + 1, Smaller(i * n, a)) = [k \in 1 .. len[i] |-> s[pos[i][k]]]
    <2> TAKE i \in 1 .. m
    <2> DEFINE u == (i - 1) * n + 1
               v == Smaller(i * n, a)
    <2>1. u \in Int /\ v \in Int /\ v - u + 1 = len[i] /\ \A k \in 1 .. len[i] : pos[i][k] = u + k - 1
      BY <1>1, <1>2 DEF Smaller
    <2> HIDE DEF u, v, len, pos
    <2>2. SubSeq(s, u, v) = [k \in 1 .. (v - u + 1) |-> s[u + k - 1]]
      BY <2>1
    <2>3. SubSeq(s, u, v) = [k \in 1 .. len[i] |-> s[pos[i][k]]]
      BY <2>1, <2>2
    <2> QED BY <2>3 DEF u, v
  <1>4. Chunks(s, n) = Picked(s, pos, len, m)
    BY <1>3, Zenon DEF Chunks, Picked, m, a
  <1>5. Covers(pos, len, m, a)
    <2>1. \A i \in 1 .. m : len[i] \in Nat \ {0}
      BY <1>2
    <2>2. ASSUME NEW i \in 1 .. m, NEW k \in 1 .. len[i] PROVE pos[i][k] \in 1 .. a
      BY <1>1, <1>2
    <2>3. ASSUME NEW i \in 1 .. m, NEW j \in 1 .. m, NEW k \in 1 .. len[i], NEW h \in 1 .. len[j],
                 pos[i][k] = pos[j][h]
          PROVE  i = j /\ k = h
      <3>1. (i - 1) * n + k = (j - 1) * n + h /\ k \in 1 .. n /\ h \in 1 .. n
        BY <1>2, <2>3
      <3>2. i - 1 \in Nat /\ j - 1 \in Nat
        OBVIOUS
      <3>3. i - 1 = j - 1 /\ k = h
        BY <3>1, <3>2, Unique
      <3> QED BY <3>3
    <2>4. ASSUME NEW p \in 1 .. a PROVE \E i \in 1 .. m : \E k \in 1 .. len[i] : pos[i][k] = p
      <3>1. PICK c \in Nat, k \in 1 .. n : p = c * n + k
        <4>1. p \in Nat \ {0}
          BY <1>1
        <4> QED BY <4>1, Found
      <3>2. c + 1 \in Nat \ {0} /\ (c + 1) - 1 = c /\ c * n < a
        BY <1>1, <3>1
      <3>3. c + 1 \in 1 .. m
        BY <1>1, <3>2
      <3> DEFINE i == c + 1
      <3>4. i - 1 = c /\ i \in 1 .. m
        BY <3>2, <3>3
      <3> HIDE DEF i, len, pos
      <3>5. len[i] \in 1 .. n /\ (k <= len[i] <=> c * n + k <= a)
        BY <1>2, <3>4
      <3>6. k \in 1 .. len[i]
        BY <1>1, <3>1, <3>5
      <3>7. pos[i][k] = p
        BY <1>2, <3>1, <3>4, <3>6
      <3> QED BY <3>4, <3>6, <3>7
    <2> QED BY <2>1, <2>2, <2>3, <2>4 DEF Covers
  <1> HIDE DEF len, pos
  <1>6. Plan(Chunks(s, n), Range(s))
    BY <1>1, <1>4, <1>5, CoversPlan DEF a
  <1>7. ASSUME NEW i \in DOMAIN Chunks(s, n) PROVE Len(Chunks(s, n)[i]) <= n
    <2>1. i \in 1 .. m /\ Chunks(s, n)[i] = [k \in 1 .. len[i] |-> s[pos[i][k]]]
      BY <1>4 DEF Picked
    <2>2. Len(Chunks(s, n)[i]) = len[i]
      BY <1>2, <2>1
    <2> QED BY <1>2, <2>1, <2>2
  <1> QED BY <1>6, <1>7

\* Dealing a sequence out to n batches.
LEMMA DealtPlan ==
  ASSUME NEW s \in Seq(Task), IsInjective(s), NEW n \in Nat, n <= Len(s), n = 0 => s = <<>>
  PROVE  Plan(Dealt(s, n), Range(s))
  <1> DEFINE a == Len(s)
             len == [i \in 1 .. n |-> Parts(a - i + 1, n)]
             pos == [i \in 1 .. n |-> [k \in 1 .. len[i] |-> (k - 1) * n + i]]
  <1>1. a \in Nat /\ n <= a /\ (n = 0 => a = 0)
    OBVIOUS
  <1>2. ASSUME NEW i \in 1 .. n
        PROVE  /\ len[i] \in Nat \ {0}
               /\ \A k \in Nat \ {0} : k <= len[i] <=> (k - 1) * n + i <= a
               /\ \A k \in 1 .. len[i] : pos[i][k] = (k - 1) * n + i
    <2>1. a - i + 1 \in Nat /\ n \in Nat \ {0}
      BY <1>1
    <2>2. len[i] \in Nat /\ \A k \in Nat \ {0} : k <= len[i] <=> (k - 1) * n < a - i + 1
      BY <2>1, PartsIs
    <2>3. \A k \in Nat \ {0} : (k - 1) * n \in Nat /\ ((k - 1) * n < a - i + 1 <=> (k - 1) * n + i <= a)
      BY <1>1
    <2>4. (1 - 1) * n + i <= a
      BY <1>1
    <2>5. 1 <= len[i]
      BY <2>2, <2>3, <2>4
    <2> HIDE DEF a
    <2>6. \A k \in 1 .. len[i] : pos[i][k] = (k - 1) * n + i
      OBVIOUS
    <2> HIDE DEF len, pos
    <2>7. \A k \in Nat \ {0} : k <= len[i] <=> (k - 1) * n + i <= a
      BY <2>2, <2>3, Zenon
    <2>8. len[i] \in Nat \ {0}
      BY <2>2, <2>5
    <2> QED BY <2>6, <2>7, <2>8
  <1>3. Dealt(s, n) = Picked(s, pos, len, n)
    <2>1. \A i \in 1 .. n : [k \in 1 .. Parts(a - i + 1, n) |-> s[(k - 1) * n + i]]
                             = [k \in 1 .. len[i] |-> s[pos[i][k]]]
      OBVIOUS
    <2> QED BY <2>1, Zenon DEF Dealt, Picked
  <1> HIDE DEF a, len, pos
  <1>4. Covers(pos, len, n, a)
    <2>1. \A i \in 1 .. n : len[i] \in Nat \ {0}
      BY <1>2
    <2>2. ASSUME NEW i \in 1 .. n, NEW k \in 1 .. len[i] PROVE pos[i][k] \in 1 .. a
      <3>1. len[i] \in Nat
        BY <1>2
      <3>2. k \in Nat \ {0} /\ k <= len[i] /\ k - 1 \in Nat
        BY <3>1
      <3>3. (k - 1) * n \in Nat
        BY <3>2
      <3>4. (k - 1) * n + i <= a
        BY <1>2, <3>2
      <3>5. pos[i][k] = (k - 1) * n + i
        BY <1>2
      <3> QED BY <1>1, <3>3, <3>4, <3>5
    <2>3. ASSUME NEW i \in 1 .. n, NEW j \in 1 .. n, NEW k \in 1 .. len[i], NEW h \in 1 .. len[j],
                 pos[i][k] = pos[j][h]
          PROVE  i = j /\ k = h
      <3>1. (k - 1) * n + i = (h - 1) * n + j
        BY <1>2, <2>3
      <3>2. k - 1 \in Nat /\ h - 1 \in Nat /\ n \in Nat \ {0}
        BY <1>2
      <3>3. k - 1 = h - 1 /\ i = j
        BY <3>1, <3>2, Unique
      <3> QED BY <1>2, <3>3
    <2>4. ASSUME NEW p \in 1 .. a PROVE \E i \in 1 .. n : \E k \in 1 .. len[i] : pos[i][k] = p
      <3>0. p \in Nat \ {0} /\ n \in Nat \ {0}
        BY <1>1
      <3>1. PICK c \in Nat, i \in 1 .. n : p = c * n + i
        BY <3>0, Found
      <3>2. c + 1 \in Nat \ {0} /\ (c + 1) - 1 = c /\ c * n + i <= a
        BY <1>1, <3>1
      <3> DEFINE k == c + 1
      <3>3. k - 1 = c /\ k \in Nat \ {0}
        BY <3>2
      <3> HIDE DEF k
      <3>4. len[i] \in Nat /\ k <= len[i]
        BY <1>2, <3>2, <3>3
      <3>5. k \in 1 .. len[i]
        BY <3>3, <3>4
      <3>6. pos[i][k] = p
        BY <1>2, <3>1, <3>3, <3>5
      <3> QED BY <3>5, <3>6
    <2> QED BY <2>1, <2>2, <2>3, <2>4 DEF Covers
  <1> QED BY <1>3, <1>4, CoversPlan DEF a

\* Plans put together.
LEMMA WithinIs ==
  ASSUME NEW s, NEW x
  PROVE  x \in Within(s) <=> \E i \in DOMAIN s : x \in Range(s[i])
  BY Zenon DEF Within

LEMMA ConcatPlan ==
  ASSUME NEW a, NEW b, NEW A, NEW B, Plan(a, A), Plan(b, B), A \cap B = {}
  PROVE  Plan(a \o b, A \cup B)
  <1>1. /\ a \in Seq(Batch) /\ b \in Seq(Batch) /\ Disjoint(a) /\ Disjoint(b) /\ Within(a) = A /\ Within(b) = B
    BY DEF Plan
  <1> DEFINE c == a \o b
             n == Len(a)
  <1>2. /\ c \in Seq(Batch) /\ n \in Nat /\ DOMAIN c = 1 .. n + Len(b) /\ Len(b) \in Nat
        /\ DOMAIN a = 1 .. n /\ DOMAIN b = 1 .. Len(b)
        /\ \A i \in DOMAIN c : c[i] = IF i <= n THEN a[i] ELSE b[i - n]
    BY <1>1
  <1> HIDE DEF c, n
  <1>3. \A i \in DOMAIN c : (i \in DOMAIN a /\ c[i] = a[i]) \/ (i - n \in DOMAIN b /\ c[i] = b[i - n])
    BY <1>2
  <1>4. \A i \in DOMAIN a : i \in DOMAIN c /\ c[i] = a[i]
    BY <1>2
  <1>5. \A i \in DOMAIN b : i + n \in DOMAIN c /\ c[i + n] = b[i]
    BY <1>2
  <1>6. \A x : x \in Within(c) <=> x \in Within(a) \/ x \in Within(b)
    <2>1. ASSUME NEW x, NEW i \in DOMAIN c, x \in Range(c[i]) PROVE x \in Within(a) \/ x \in Within(b)
      <3>1. CASE i \in DOMAIN a /\ c[i] = a[i]
        BY <2>1, <3>1, WithinIs
      <3>2. CASE i - n \in DOMAIN b /\ c[i] = b[i - n]
        BY <2>1, <3>2, WithinIs
      <3> QED BY <1>3, <3>1, <3>2
    <2>2. ASSUME NEW x, NEW i \in DOMAIN a, x \in Range(a[i]) PROVE x \in Within(c)
      BY <1>4, <2>2, WithinIs
    <2>3. ASSUME NEW x, NEW i \in DOMAIN b, x \in Range(b[i]) PROVE x \in Within(c)
      BY <1>5, <2>3, WithinIs
    <2> QED BY <2>1, <2>2, <2>3, WithinIs
  <1>7. Within(c) = A \cup B
    BY <1>1, <1>6
  <1>8. ASSUME NEW i \in DOMAIN c, NEW j \in DOMAIN c, i # j, NEW x \in Range(c[i]), x \in Range(c[j])
        PROVE  FALSE
    <2>1. CASE i \in DOMAIN a /\ c[i] = a[i] /\ j \in DOMAIN a /\ c[j] = a[j]
      BY <1>1, <1>8, <2>1 DEF Disjoint
    <2>2. CASE i - n \in DOMAIN b /\ c[i] = b[i - n] /\ j - n \in DOMAIN b /\ c[j] = b[j - n]
      <3>1. i - n # j - n
        BY <1>2, <1>8
      <3> QED BY <1>1, <1>8, <2>2, <3>1 DEF Disjoint
    <2>3. CASE i \in DOMAIN a /\ c[i] = a[i] /\ j - n \in DOMAIN b /\ c[j] = b[j - n]
      <3>1. x \in A /\ x \in B
        BY <1>1, <1>8, <2>3, WithinIs
      <3> QED BY <3>1
    <2>4. CASE j \in DOMAIN a /\ c[j] = a[j] /\ i - n \in DOMAIN b /\ c[i] = b[i - n]
      <3>1. x \in A /\ x \in B
        BY <1>1, <1>8, <2>4, WithinIs
      <3> QED BY <3>1
    <2> QED BY <1>3, <2>1, <2>2, <2>3, <2>4
  <1>9. Disjoint(c)
    BY <1>8, Zenon DEF Disjoint
  <1> QED BY <1>2, <1>7, <1>9 DEF Plan, c

LEMMA AppendPlan ==
  ASSUME NEW a, NEW A, Plan(a, A), NEW b \in Batch, A \cap Range(b) = {}
  PROVE  Plan(Append(a, b), A \cup Range(b))
  <1>1. a \in Seq(Batch)
    BY DEF Plan
  <1>2. Append(a, b) = a \o <<b>>
    BY <1>1
  <1>3. <<b>> \in Seq(Batch) /\ DOMAIN <<b>> = {1} /\ <<b>>[1] = b
    OBVIOUS
  <1> DEFINE s == <<b>>
  <1> HIDE DEF s
  <1>4. s \in Seq(Batch) /\ DOMAIN s = {1} /\ s[1] = b
    BY <1>3 DEF s
  <1>5. Plan(s, Range(b))
    <2>1. Within(s) = Range(b)
      BY <1>4, Zenon DEF Within
    <2>2. Disjoint(s)
      BY <1>4, Zenon DEF Disjoint
    <2> QED BY <1>4, <2>1, <2>2 DEF Plan
  <1> QED BY <1>2, <1>5, ConcatPlan DEF s

LEMMA EmptyPlan == Plan(<<>>, {})
  <1> DEFINE s == <<>>
  <1>1. s \in Seq(Batch) /\ DOMAIN s = {}
    OBVIOUS
  <1> HIDE DEF s
  <1>2. Plan(s, {})
    BY <1>1, Zenon DEF Plan, Disjoint, Within
  <1> QED BY <1>2 DEF s

\* What is planned is every task, or nothing is.
LEMMA PlannedPlan ==
  ASSUME deployment \in Deployments, NEW eligible \in SUBSET (1 .. deployment.tasks)
  PROVE  Planned(eligible) = <<>> \/ Plan(Planned(eligible), 1 .. deployment.tasks)
  <1> DEFINE limit == IF deployment.perChild = None THEN 4 ELSE Smaller(4, deployment.perChild)
             together == InOrder(eligible)
             count == Smaller(Len(together),
                              Larger(Smaller(deployment.workers, Len(together)), Parts(Len(together), limit)))
             rest == (1 .. deployment.tasks) \ eligible
             alone == InOrder(rest)
  <1>1. SUFFICES ASSUME Planned(eligible) # <<>> PROVE Plan(Planned(eligible), 1 .. deployment.tasks)
    OBVIOUS
  <1>2. ~ (limit <= 1) /\ Planned(eligible) = Dealt(together, count) \o Chunks(alone, 1)
    BY <1>1, Zenon DEF Planned
  <1>3. /\ deployment.tasks \in Task /\ deployment.workers \in Nat \ {0}
        /\ deployment.perChild \in (Nat \ {0}) \cup {None}
    BY RunnerAssumption DEF Deployment, Child
  <1>4. deployment.tasks \in Nat /\ 1 .. deployment.tasks \subseteq Task
    BY <1>3, RunnerAssumption DEF Task
  <1>5. IsFiniteSet(1 .. deployment.tasks)
    BY <1>4, FS_Interval
  <1>6. eligible \in SUBSET Nat /\ rest \in SUBSET Nat /\ IsFiniteSet(eligible) /\ IsFiniteSet(rest)
    <2>1. rest \in SUBSET (1 .. deployment.tasks)
      OBVIOUS
    <2>2. IsFiniteSet(eligible) /\ IsFiniteSet(rest)
      BY <1>5, <2>1, FS_Subset
    <2> QED BY <1>4, <2>2
  <1>7. limit \in Nat \ {0}
    BY <1>3 DEF Smaller
  <1> HIDE DEF limit
  <1>8. /\ together \in Seq(eligible) /\ IsInjective(together) /\ Range(together) = eligible
        /\ alone \in Seq(rest) /\ IsInjective(alone) /\ Range(alone) = rest
    BY <1>6, InOrderIs
  <1> HIDE DEF together, alone
  <1>9. together \in Seq(Task) /\ alone \in Seq(Task)
    <2>1. eligible \subseteq Task /\ rest \subseteq Task
      BY <1>4
    <2> QED BY <1>8, <2>1, SeqWiden
  <1>10. Plan(Dealt(together, count), eligible)
    <2>1. Len(together) \in Nat /\ (Len(together) = 0 => together = <<>>)
      BY <1>9
    <2>2. Parts(Len(together), limit) \in Nat
      BY <1>7, <2>1, PartsIs
    <2>3. (1 - 1) * limit = 0
      BY <1>7
    <2>4. count \in Nat /\ count <= Len(together) /\ (count = 0 => together = <<>>)
      BY <1>3, <2>1, <2>2 DEF Smaller, Larger
    <2> HIDE DEF count
    <2> QED BY <1>8, <1>9, <2>4, DealtPlan
  <1> HIDE DEF count
  <1>11. Plan(Chunks(alone, 1), rest)
    <2>1. 1 \in Nat \ {0}
      OBVIOUS
    <2> HIDE DEF rest
    <2> QED BY <1>8, <1>9, <2>1, ChunksPlan
  <1>12. eligible \cap rest = {} /\ eligible \cup rest = 1 .. deployment.tasks
    OBVIOUS
  <1> HIDE DEF rest
  <1>13. Plan(Dealt(together, count) \o Chunks(alone, 1), eligible \cup rest)
    BY <1>10, <1>11, <1>12, ConcatPlan, Zenon
  <1> QED BY <1>2, <1>12, <1>13

\* What drops out of a plan is what is not dirty.
LEMMA ReboundPlan ==
  ASSUME NEW b, NEW S, Plan(b, S), NEW D
  PROVE  Plan(Rebound(b, D), S \cap D)
  <1> DEFINE kept(i) == {k \in DOMAIN b[i] : b[i][k] \in D}
             rest == [i \in DOMAIN b |-> At(b[i], kept(i))]
             some == {i \in DOMAIN rest : rest[i] # <<>>}
             r == At(rest, some)
  <1>1. Rebound(b, D) = r
    BY Zenon DEF Rebound
  <1>2. b \in Seq(Batch) /\ Disjoint(b) /\ Within(b) = S
    BY DEF Plan
  <1>3. ASSUME NEW i \in DOMAIN b
        PROVE  /\ rest[i] \in Seq(Task) /\ IsInjective(rest[i])
               /\ \A x : x \in Range(rest[i]) <=> x \in Range(b[i]) /\ x \in D
    <2>1. b[i] \in Batch
      BY <1>2
    <2>2. b[i] \in Seq(Task) /\ IsInjective(b[i]) /\ kept(i) \in SUBSET DOMAIN b[i]
      BY <2>1 DEF Batch
    <2> DEFINE K == kept(i)
               a == At(b[i], K)
    <2>3. \A k : k \in K <=> k \in DOMAIN b[i] /\ b[i][k] \in D
      OBVIOUS
    <2>4. rest[i] = a
      OBVIOUS
    <2>9. K \in SUBSET DOMAIN b[i]
      BY <2>2
    <2> HIDE DEF kept, rest
    <2> HIDE DEF K
    <2>5. /\ a \in Seq(Task)
          /\ \A k \in K : \E j \in DOMAIN a : a[j] = b[i][k]
          /\ \A j \in DOMAIN a : \E k \in K : a[j] = b[i][k]
          /\ \A j, h \in DOMAIN a : j # h =>
               \E k, l \in K : k # l /\ a[j] = b[i][k] /\ a[h] = b[i][l]
      BY <2>2, <2>9, AtIs
    <2> HIDE DEF a
    <2>6. IsInjective(a)
      <3>1. ASSUME NEW j \in DOMAIN a, NEW h \in DOMAIN a, j # h, a[j] = a[h] PROVE FALSE
        <4>1. PICK k \in K : \E l \in K : k # l /\ a[j] = b[i][k] /\ a[h] = b[i][l]
          BY <2>5, <3>1
        <4>2. PICK l \in K : k # l /\ a[j] = b[i][k] /\ a[h] = b[i][l]
          BY <4>1
        <4>3. k \in DOMAIN b[i] /\ l \in DOMAIN b[i] /\ b[i][k] = b[i][l]
          BY <2>3, <3>1, <4>2
        <4> QED BY <2>2, <4>2, <4>3 DEF IsInjective
      <3> QED BY <3>1 DEF IsInjective
    <2>7. ASSUME NEW x, x \in Range(a) PROVE x \in Range(b[i]) /\ x \in D
      <3>1. PICK j \in DOMAIN a : x = a[j]
        BY <2>7 DEF Range
      <3>2. PICK k \in K : a[j] = b[i][k]
        BY <2>5
      <3> QED BY <2>3, <3>1, <3>2 DEF Range
    <2>8. ASSUME NEW x \in Range(b[i]), x \in D PROVE x \in Range(a)
      <3>1. PICK k \in DOMAIN b[i] : x = b[i][k]
        BY DEF Range
      <3>2. k \in K
        BY <2>3, <2>8, <3>1
      <3>3. PICK j \in DOMAIN a : a[j] = b[i][k]
        BY <2>5, <3>2
      <3> QED BY <3>1, <3>3 DEF Range
    <2> QED BY <2>4, <2>5, <2>6, <2>7, <2>8
  <1>4. DOMAIN rest = DOMAIN b /\ rest \in Seq(Seq(Task))
    <2>1. DOMAIN b = 1 .. Len(b) /\ Len(b) \in Nat
      BY <1>2
    <2>2. DOMAIN rest = DOMAIN b /\ rest = [i \in 1 .. Len(b) |-> rest[i]]
      BY <2>1
    <2> HIDE DEF rest
    <2> QED BY <1>3, <2>1, <2>2, SeqOf
  <1>5. some \in SUBSET DOMAIN rest /\ \A i : i \in some <=> i \in DOMAIN b /\ rest[i] # <<>>
    BY <1>4
  <1> HIDE DEF rest, some
  <1>6. /\ r \in Seq(Seq(Task))
        /\ \A k \in some : \E i \in DOMAIN r : r[i] = rest[k]
        /\ \A i \in DOMAIN r : \E k \in some : r[i] = rest[k]
        /\ \A i, j \in DOMAIN r : i # j => \E k, l \in some : k # l /\ r[i] = rest[k] /\ r[j] = rest[l]
    BY <1>4, <1>5, AtIs
  <1> HIDE DEF r
  <1>7. r \in Seq(Batch)
    <2>1. DOMAIN r = 1 .. Len(r) /\ Len(r) \in Nat /\ r = [i \in 1 .. Len(r) |-> r[i]]
      BY <1>6
    <2>2. ASSUME NEW i \in DOMAIN r PROVE r[i] \in Batch
      <3>1. PICK k \in some : r[i] = rest[k]
        BY <1>6
      <3>2. k \in DOMAIN b /\ rest[k] # <<>>
        BY <1>5
      <3> QED BY <1>3, <3>1, <3>2 DEF Batch
    <2> QED BY <2>1, <2>2, SeqOf
  <1>8. Disjoint(r)
    <2>1. ASSUME NEW i \in DOMAIN r, NEW j \in DOMAIN r, i # j, NEW x \in Range(r[i]), x \in Range(r[j]) PROVE FALSE
      <3>1. PICK k \in some : \E l \in some : k # l /\ r[i] = rest[k] /\ r[j] = rest[l]
        BY <1>6, <2>1
      <3>2. PICK l \in some : k # l /\ r[i] = rest[k] /\ r[j] = rest[l]
        BY <3>1
      <3>3. k \in DOMAIN b /\ l \in DOMAIN b
        BY <1>5
      <3>4. x \in Range(b[k]) /\ x \in Range(b[l])
        BY <1>3, <2>1, <3>2, <3>3
      <3> QED BY <1>2, <3>2, <3>3, <3>4 DEF Disjoint
    <2> QED BY <2>1, Zenon DEF Disjoint
  <1>9. Within(r) = S \cap D
    <2>1. ASSUME NEW x \in Within(r) PROVE x \in S \cap D
      <3>1. PICK i \in DOMAIN r : x \in Range(r[i])
        BY WithinIs
      <3>2. PICK k \in some : r[i] = rest[k]
        BY <1>6
      <3>3. k \in DOMAIN b /\ x \in Range(b[k]) /\ x \in D
        BY <1>3, <1>5, <3>1, <3>2
      <3> QED BY <1>2, <3>3, WithinIs
    <2>2. ASSUME NEW x \in S, x \in D PROVE x \in Within(r)
      <3>1. PICK k \in DOMAIN b : x \in Range(b[k])
        BY <1>2, WithinIs
      <3>2. x \in Range(rest[k])
        BY <1>3, <2>2, <3>1
      <3>3. rest[k] # <<>>
        BY <3>2 DEF Range
      <3>4. PICK i \in DOMAIN r : r[i] = rest[k]
        BY <1>5, <1>6, <3>3
      <3> QED BY <3>2, <3>4, WithinIs
    <2> QED BY <2>1, <2>2
  <1> QED BY <1>1, <1>7, <1>8, <1>9 DEF Plan

\* Without batches nothing is left of them.
LEMMA ReboundEmpty ==
  ASSUME NEW D
  PROVE  Rebound(<<>>, D) = <<>>
  <1>1. Plan(Rebound(<<>>, D), {} \cap D)
    BY EmptyPlan, ReboundPlan
  <1> DEFINE r == Rebound(<<>>, D)
  <1>2. r \in Seq(Batch) /\ Within(r) = {}
    BY <1>1 DEF Plan
  <1> HIDE DEF r
  <1>3. ASSUME r # <<>> PROVE FALSE
    <2>1. 1 \in DOMAIN r /\ r[1] \in Batch
      BY <1>2, <1>3
    <2>2. r[1] \in Seq(Task) /\ r[1] # <<>>
      BY <2>1 DEF Batch
    <2>3. r[1][1] \in Range(r[1])
      BY <2>2 DEF Range
    <2> QED BY <1>2, <2>1, <2>3, WithinIs
  <1> QED BY <1>3 DEF r

-----------------------------------------------------------------------------
(* Results *)

LEMMA TasksIs ==
  ASSUME NEW s, NEW x
  PROVE  x \in TasksOf(s) <=> \E i \in DOMAIN s : x = s[i].task
  BY Zenon DEF TasksOf, Range

\* Two lots of results.
LEMMA ConcatResults ==
  ASSUME NEW a \in Seq(Result), NEW b \in Seq(Result), OneEach(a), OneEach(b),
         TasksOf(a) \cap TasksOf(b) = {}
  PROVE  /\ a \o b \in Seq(Result) /\ OneEach(a \o b) /\ TasksOf(a \o b) = TasksOf(a) \cup TasksOf(b)
         /\ \A r \in Range(a) : r \in Range(a \o b)
  <1> DEFINE c == a \o b
             n == Len(a)
  <1>2. /\ c \in Seq(Result) /\ n \in Nat /\ DOMAIN c = 1 .. n + Len(b) /\ Len(b) \in Nat
        /\ DOMAIN a = 1 .. n /\ DOMAIN b = 1 .. Len(b)
        /\ \A i \in DOMAIN c : c[i] = IF i <= n THEN a[i] ELSE b[i - n]
    OBVIOUS
  <1> HIDE DEF c, n
  <1>3. ASSUME NEW i \in DOMAIN c
        PROVE  (i \in DOMAIN a /\ c[i] = a[i]) \/ (i - n \in DOMAIN b /\ c[i] = b[i - n])
    BY <1>2
  <1>4. \A i \in DOMAIN a : i \in DOMAIN c /\ c[i] = a[i]
    BY <1>2
  <1>5. \A i \in DOMAIN b : i + n \in DOMAIN c /\ c[i + n] = b[i]
    BY <1>2
  <1>6. ASSUME NEW x PROVE x \in TasksOf(c) <=> x \in TasksOf(a) \/ x \in TasksOf(b)
    <2>1. ASSUME NEW i \in DOMAIN c, x = c[i].task PROVE x \in TasksOf(a) \/ x \in TasksOf(b)
      BY <1>3, <2>1, TasksIs
    <2>2. ASSUME NEW i \in DOMAIN a, x = a[i].task PROVE x \in TasksOf(c)
      BY <1>4, <2>2, TasksIs
    <2>3. ASSUME NEW i \in DOMAIN b, x = b[i].task PROVE x \in TasksOf(c)
      BY <1>5, <2>3, TasksIs
    <2> QED BY <2>1, <2>2, <2>3, TasksIs
  <1>7. ASSUME NEW i \in DOMAIN c, NEW j \in DOMAIN c, c[i].task = c[j].task PROVE i = j
    <2>1. CASE i \in DOMAIN a /\ c[i] = a[i] /\ j \in DOMAIN a /\ c[j] = a[j]
      BY <1>7, <2>1 DEF OneEach
    <2>2. CASE i - n \in DOMAIN b /\ c[i] = b[i - n] /\ j - n \in DOMAIN b /\ c[j] = b[j - n]
      <3>1. i - n = j - n
        BY <1>7, <2>2 DEF OneEach
      <3>2. i \in Int /\ j \in Int /\ n \in Int
        BY <1>2
      <3> QED BY <3>1, <3>2
    <2>3. CASE i \in DOMAIN a /\ c[i] = a[i] /\ j - n \in DOMAIN b /\ c[j] = b[j - n]
      <3>1. c[i].task \in TasksOf(a) /\ c[i].task \in TasksOf(b)
        BY <1>7, <2>3, TasksIs
      <3> QED BY <3>1
    <2>4. CASE j \in DOMAIN a /\ c[j] = a[j] /\ i - n \in DOMAIN b /\ c[i] = b[i - n]
      <3>1. c[i].task \in TasksOf(a) /\ c[i].task \in TasksOf(b)
        BY <1>7, <2>4, TasksIs
      <3> QED BY <3>1
    <2> QED BY <1>3, <2>1, <2>2, <2>3, <2>4
  <1>8. OneEach(c)
    BY <1>7, Zenon DEF OneEach
  <1>9. \A r \in Range(a) : r \in Range(c)
    BY <1>4, Zenon DEF Range
  <1> QED BY <1>2, <1>6, <1>8, <1>9 DEF c

\* A lost batch has one result for each of its tasks.
LEMMA AbnormalIs ==
  ASSUME NEW b \in Seq(Task), IsInjective(b)
  PROVE  Abnormal(b) \in Seq(Result) /\ OneEach(Abnormal(b)) /\ TasksOf(Abnormal(b)) = Range(b)
  <1> DEFINE a == Abnormal(b)
  <1>1. DOMAIN b = 1 .. Len(b) /\ Len(b) \in Nat /\ DOMAIN a = DOMAIN b /\ a = [i \in 1 .. Len(b) |-> a[i]]
    BY DEF Abnormal
  <1>2. \A i \in DOMAIN b : a[i] = [task |-> b[i], kind |-> "abnormal"] /\ b[i] \in Task
    BY <1>1 DEF Abnormal
  <1> HIDE DEF a
  <1>3. ASSUME NEW i \in DOMAIN b PROVE a[i] \in Result /\ a[i].task = b[i]
    <2>1. a[i] = [task |-> b[i], kind |-> "abnormal"] /\ b[i] \in Task
      BY <1>2
    <2> QED BY <2>1 DEF Result, Kind
  <1>4. a \in Seq(Result)
    BY <1>1, <1>3, SeqOf
  <1>5. OneEach(a)
    BY <1>1, <1>3 DEF OneEach, IsInjective
  <1>6. \A x : x \in TasksOf(a) <=> x \in Range(b)
    <2>1. \A x : x \in Range(b) <=> \E i \in DOMAIN b : x = b[i]
      BY Zenon DEF Range
    <2>2. \A x : x \in TasksOf(a) <=> \E i \in DOMAIN a : x = a[i].task
      BY TasksIs, Zenon
    <2> QED BY <1>1, <1>3, <2>1, <2>2
  <1> QED BY <1>4, <1>5, <1>6 DEF a

\* The first task of a batch and the others.
LEMMA HeadTail ==
  ASSUME NEW s \in Seq(Task), IsInjective(s), s # <<>>
  PROVE  /\ Head(s) \in Task /\ Tail(s) \in Seq(Task) /\ IsInjective(Tail(s)) /\ Len(Tail(s)) = Len(s) - 1
         /\ Range(s) = {Head(s)} \cup Range(Tail(s)) /\ Head(s) \notin Range(Tail(s))
  <1> DEFINE t == Tail(s)
             n == Len(s)
  <1>1. /\ n \in Nat \ {0} /\ DOMAIN s = 1 .. n /\ DOMAIN t = 1 .. (n - 1)
        /\ Head(s) = s[1] /\ t \in Seq(Task) /\ Len(t) = n - 1 /\ Head(s) \in Task
        /\ \A i \in 1 .. (n - 1) : t[i] = s[i + 1] /\ i + 1 \in 1 .. n
    OBVIOUS
  <1> HIDE DEF t, n
  <1>2. IsInjective(t)
    <2>1. ASSUME NEW i \in DOMAIN t, NEW j \in DOMAIN t, t[i] = t[j] PROVE i = j
      <3>1. i + 1 \in DOMAIN s /\ j + 1 \in DOMAIN s /\ s[i + 1] = s[j + 1]
        BY <1>1, <2>1
      <3>2. i + 1 = j + 1
        BY <3>1 DEF IsInjective
      <3>3. i \in Nat /\ j \in Nat
        BY <1>1
      <3> QED BY <3>2, <3>3
    <2> QED BY <2>1, Zenon DEF IsInjective
  <1>3. s[1] \notin Range(t)
    <2>1. ASSUME NEW i \in DOMAIN t, s[1] = t[i] PROVE FALSE
      <3>1. 1 = i + 1
        BY <1>1, <2>1 DEF IsInjective
      <3>2. i \in Nat \ {0}
        BY <1>1
      <3> QED BY <3>1, <3>2
    <2> QED BY <2>1, Zenon DEF Range
  <1>4. ASSUME NEW x \in Range(s) PROVE x = s[1] \/ x \in Range(t)
    <2>1. PICK i \in DOMAIN s : x = s[i]
      BY Zenon DEF Range
    <2>2. CASE i # 1
      <3>1. i - 1 \in 1 .. (n - 1) /\ (i - 1) + 1 = i
        BY <1>1, <2>2
      <3>2. x = t[i - 1] /\ i - 1 \in DOMAIN t
        BY <1>1, <2>1, <3>1
      <3> QED BY <3>2, Zenon DEF Range
    <2> QED BY <2>1, <2>2
  <1>5. ASSUME NEW x \in Range(t) PROVE x \in Range(s)
    <2>1. PICK i \in DOMAIN t : x = t[i]
      BY Zenon DEF Range
    <2>2. x = s[i + 1] /\ i + 1 \in DOMAIN s
      BY <1>1, <2>1
    <2> QED BY <2>2, Zenon DEF Range
  <1>6. s[1] \in Range(s)
    <2>1. 1 \in DOMAIN s
      BY <1>1
    <2> QED BY <2>1, Zenon DEF Range
  <1>7. Range(s) = {s[1]} \cup Range(t)
    BY <1>4, <1>5, <1>6
  <1> QED BY <1>1, <1>2, <1>3, <1>7 DEF t, n

\* A batch at its start, and after one more task.
LEMMA SplitStart ==
  ASSUME NEW b \in Batch
  PROVE  Split(b, <<>>, b)
  <1> DEFINE e == <<>>
  <1>1. DOMAIN e = {}
    OBVIOUS
  <1> HIDE DEF e
  <1>2. TasksOf(e) = {} /\ OneEach(e)
    BY <1>1, TasksIs DEF OneEach
  <1>3. Split(b, e, b)
    BY <1>2 DEF Split, Batch
  <1> QED BY <1>3 DEF e

LEMMA SplitNext ==
  ASSUME NEW b, NEW done \in Seq(Result), NEW left \in Seq(Task), Split(b, done, left), left # <<>>,
         NEW kind \in Kind
  PROVE  /\ Append(done, [task |-> Head(left), kind |-> kind]) \in Seq(Result)
         /\ Split(b, Append(done, [task |-> Head(left), kind |-> kind]), Tail(left))
  <1> DEFINE r == [task |-> Head(left), kind |-> kind]
             one == <<r>>
  <1>1. OneEach(done) /\ IsInjective(left) /\ TasksOf(done) \cup Range(left) = Range(b)
        /\ TasksOf(done) \cap Range(left) = {}
    BY DEF Split
  <1>2. /\ Head(left) \in Task /\ IsInjective(Tail(left))
        /\ Range(left) = {Head(left)} \cup Range(Tail(left)) /\ Head(left) \notin Range(Tail(left))
    BY <1>1, HeadTail
  <1>3. r \in Result /\ r.task = Head(left)
    BY <1>2 DEF Result
  <1> HIDE DEF r
  <1>4. one \in Seq(Result) /\ DOMAIN one = {1} /\ one[1] = r /\ Append(done, r) = done \o one
    BY <1>3
  <1> HIDE DEF one
  <1>5. OneEach(one)
    BY <1>4 DEF OneEach
  <1>6. TasksOf(one) = {Head(left)}
    <2>1. ASSUME NEW x PROVE x \in TasksOf(one) <=> x = Head(left)
      BY <1>3, <1>4, TasksIs
    <2> QED BY <2>1
  <1>7. TasksOf(done) \cap TasksOf(one) = {}
    BY <1>1, <1>2, <1>6
  <1>8. /\ done \o one \in Seq(Result) /\ OneEach(done \o one)
        /\ TasksOf(done \o one) = TasksOf(done) \cup TasksOf(one)
    BY <1>4, <1>5, <1>7, <1>1, ConcatResults
  <1>9. Split(b, done \o one, Tail(left))
    BY <1>1, <1>2, <1>6, <1>8 DEF Split
  <1> QED BY <1>4, <1>8, <1>9 DEF r

-----------------------------------------------------------------------------
(* What the steps have in common *)

LEMMA DeploymentIs ==
  ASSUME deployment \in Deployments
  PROVE  /\ deployment.caller \in {"join", "candidates"}
         /\ deployment.tasks \in Nat \ {0} /\ 1 .. deployment.tasks \in SUBSET Task
         /\ deployment.workers \in Nat \ {0} /\ deployment.perChild \in (Nat \ {0}) \cup {None}
         /\ deployment.deaths \in Nat /\ deployment.deaths <= MaxDeaths
         /\ deployment.caller = "candidates" => deployment.perChild # None
         /\ Task \subseteq Nat \ {0} /\ None \notin Nat
  <1>1. deployment \in Deployment /\ MaxTasks \in Nat /\ MaxWorkers \in Nat /\ MaxDeaths \in Nat /\ None \notin Nat
    BY RunnerAssumption
  <1>2. deployment.caller = "candidates" => deployment.perChild # None
    BY RunnerAssumption
  <1>3. /\ deployment.caller \in {"join", "candidates"} /\ deployment.tasks \in Task /\ deployment.workers \in Child
        /\ deployment.perChild \in (Nat \ {0}) \cup {None} /\ deployment.deaths \in 0 .. MaxDeaths
    BY <1>1 DEF Deployment
  <1> QED BY <1>1, <1>2, <1>3 DEF Task, Child

LEMMA TasksFinite ==
  ASSUME NEW S \in SUBSET Task
  PROVE  S \in SUBSET Nat /\ IsFiniteSet(S)
  <1>1. IsFiniteSet(Task) /\ Task \subseteq Nat
    BY RunnerAssumption, FS_Interval DEF Task
  <1> QED BY <1>1, FS_Subset

\* Taking the first batches of a plan.
Leaves(p, S, g, q) == Plan(p, S) /\ g \in 1 .. Len(p) /\ q = SubSeq(p, g + 1, Len(p))

LEMMA RestPlan ==
  ASSUME NEW p, NEW S, NEW g, NEW q, Leaves(p, S, g, q)
  PROVE  /\ q \in Seq(Batch) /\ Disjoint(q) /\ \A i \in DOMAIN q : i + g \in DOMAIN p /\ q[i] = p[i + g]
         /\ \A i \in 1 .. g : i \in DOMAIN p /\ p[i] \in Batch /\ Range(p[i]) \cap Within(q) = {}
         /\ \A i, j \in 1 .. g : i # j => Range(p[i]) \cap Range(p[j]) = {}
         /\ \A x : x \in S <=> x \in Within(q) \/ \E i \in 1 .. g : x \in Range(p[i])
  <1>1. p \in Seq(Batch) /\ Disjoint(p) /\ Within(p) = S /\ g \in 1 .. Len(p)
    BY DEF Plan, Leaves
  <1> DEFINE n == Len(p)
  <1>2. n \in Nat /\ g \in 1 .. n /\ DOMAIN p = 1 .. n /\ \A i \in 1 .. n : p[i] \in Batch
    BY <1>1
  <1>3. /\ q \in Seq(Batch) /\ DOMAIN q = 1 .. (n - g)
        /\ \A i \in 1 .. (n - g) : q[i] = p[i + g]
    <2>1. g + 1 \in Int /\ n \in Int /\ \A i \in (g + 1) .. n : p[i] \in Batch
      BY <1>2
    <2>2. Len(q) = n - g /\ q \in Seq(Batch) /\ \A i \in 1 .. (n - g) : q[i] = p[(g + 1) + i - 1]
      <3>1. q = [i \in 1 .. (n - (g + 1) + 1) |-> p[(g + 1) + i - 1]]
        BY <2>1 DEF Leaves
      <3>2. n - (g + 1) + 1 = n - g /\ n - g \in Nat /\ g \in Nat
        BY <1>2
      <3>3. q = [i \in 1 .. (n - g) |-> p[(g + 1) + i - 1]]
        BY <3>1, <3>2
      <3>4. \A i \in 1 .. (n - g) : q[i] = p[(g + 1) + i - 1]
        BY <3>3
      <3>5. \A i \in 1 .. (n - g) : (g + 1) + i - 1 \in 1 .. n
        BY <1>2, <3>2
      <3>6. \A i \in 1 .. (n - g) : q[i] \in Batch
        BY <1>2, <3>4, <3>5
      <3>7. q = [i \in 1 .. (n - g) |-> q[i]]
        BY <3>3
      <3>8. q \in Seq(Batch) /\ Len(q) = n - g
        <4> DEFINE m == n - g
        <4>1. m \in Nat /\ q = [i \in 1 .. m |-> q[i]] /\ \A i \in 1 .. m : q[i] \in Batch
          BY <3>2, <3>6, <3>7
        <4> HIDE DEF m
        <4>2. ASSUME NEW f, f = q PROVE f \in Seq(Batch) /\ Len(f) = m
          <5>1. f = [i \in 1 .. m |-> f[i]] /\ \A i \in 1 .. m : f[i] \in Batch
            BY <4>1, <4>2
          <5> QED BY <4>1, <5>1, SeqOf
        <4> QED BY <4>2 DEF m
      <3> QED BY <3>4, <3>8
    <2>3. DOMAIN q = 1 .. (n - g)
      BY <2>2
    <2>4. \A i \in 1 .. (n - g) : (g + 1) + i - 1 = i + g
      BY <1>2
    <2> QED BY <2>2, <2>3, <2>4
  <1>4. \A i \in DOMAIN q : i + g \in DOMAIN p /\ q[i] = p[i + g] /\ i \in Nat /\ i + g > g
    BY <1>2, <1>3
  <1>5. \A i \in 1 .. g : i \in DOMAIN p /\ p[i] \in Batch
    BY <1>2
  <1>6. Disjoint(q)
    <2>1. ASSUME NEW i \in DOMAIN q, NEW j \in DOMAIN q, i # j PROVE Range(q[i]) \cap Range(q[j]) = {}
      <3>1. i + g # j + g
        BY <1>2, <1>4, <2>1
      <3> QED BY <1>1, <1>4, <3>1 DEF Disjoint
    <2> QED BY <2>1 DEF Disjoint
  <1>7. ASSUME NEW i \in 1 .. g, NEW x \in Range(p[i]), x \in Within(q) PROVE FALSE
    <2>1. PICK j \in DOMAIN q : x \in Range(q[j])
      BY <1>7, WithinIs
    <2>2. i # j + g
      BY <1>2, <1>4
    <2> QED BY <1>1, <1>4, <1>5, <2>1, <2>2 DEF Disjoint
  <1>8. \A i, j \in 1 .. g : i # j => Range(p[i]) \cap Range(p[j]) = {}
    BY <1>1, <1>5 DEF Disjoint
  <1>9. ASSUME NEW x \in S PROVE x \in Within(q) \/ \E i \in 1 .. g : x \in Range(p[i])
    <2>1. PICK i \in DOMAIN p : x \in Range(p[i])
      BY <1>1, WithinIs
    <2>2. CASE g < i
      <3>1. i - g \in DOMAIN q /\ (i - g) + g = i
        BY <1>2, <1>3, <2>2
      <3>2. x \in Range(q[i - g])
        BY <1>4, <2>1, <3>1
      <3> QED BY <3>1, <3>2, WithinIs
    <2> QED BY <1>2, <2>1, <2>2
  <1>10. ASSUME NEW i \in 1 .. g, NEW x \in Range(p[i]) PROVE x \in S
    BY <1>1, <1>5, WithinIs
  <1>11. ASSUME NEW x \in Within(q) PROVE x \in S
    <2>1. PICK j \in DOMAIN q : x \in Range(q[j])
      BY WithinIs
    <2> QED BY <1>1, <1>4, <2>1, WithinIs
  <1> QED BY <1>3, <1>4, <1>5, <1>6, <1>7, <1>8, <1>9, <1>10, <1>11

\* A call begins with its tasks planned.
LEMMA CallIs ==
  ASSUME NEW tasks \in SUBSET Task, NEW perChild \in (Nat \ {0}) \cup {None}, NEW batches,
         batches = <<>> \/ Plan(batches, tasks), Call(tasks, perChild, batches), None \notin Nat
  PROVE  /\ Plan(pending', tasks)
         /\ mode' \in {"explicit", "single", "limited"} /\ size' = perChild
         /\ results' = <<>> /\ runs' \in [Task -> Nat] /\ \A t \in Task : runs'[t] = 0
         /\ mode' = "limited" => perChild # None /\ \A i \in DOMAIN pending' : Len(pending'[i]) <= perChild
         /\ batches = <<>> /\ perChild # None => mode' = "limited"
  <1>1. mode' = IF batches # <<>> THEN "explicit" ELSE IF perChild = None THEN "single" ELSE "limited"
    BY Zenon DEF Call
  <1>2. size' = perChild /\ results' = <<>> /\ runs' = [t \in Task |-> 0]
    BY Zenon DEF Call
  <1>3. /\ mode' = "explicit" => pending' = batches
        /\ mode' = "single" => pending' = Chunks(InOrder(tasks), 1)
        /\ mode' = "limited" => pending' = Chunks(InOrder(tasks), perChild)
    BY DEF Call
  <1>4. tasks \in SUBSET Nat /\ IsFiniteSet(tasks)
    BY TasksFinite
  <1> DEFINE s == InOrder(tasks)
  <1>5. s \in Seq(tasks) /\ IsInjective(s) /\ Range(s) = tasks
    BY <1>4, InOrderIs
  <1> HIDE DEF s
  <1>6. s \in Seq(Task)
    BY <1>5, SeqWiden
  <1>7. CASE mode' = "explicit"
    <2>1. batches # <<>>
      BY <1>1, <1>7
    <2> QED BY <1>1, <1>2, <1>3, <1>7, <2>1
  <1>8. CASE mode' = "single"
    <2>1. Plan(Chunks(s, 1), tasks)
      <3>1. 1 \in Nat \ {0}
        OBVIOUS
      <3> QED BY <1>5, <1>6, <3>1, ChunksPlan
    <2>2. batches = <<>> /\ perChild = None
      BY <1>1, <1>8
    <2>3. Plan(pending', tasks)
      BY <1>3, <1>8, <2>1 DEF s
    <2> QED BY <1>1, <1>2, <1>8, <2>2, <2>3
  <1>9. CASE mode' = "limited"
    <2>1. perChild # None
      BY <1>1, <1>9
    <2>2. /\ Plan(Chunks(s, perChild), tasks)
          /\ \A i \in DOMAIN Chunks(s, perChild) : Len(Chunks(s, perChild)[i]) <= perChild
      <3>1. perChild \in Nat \ {0}
        BY <2>1
      <3> QED BY <1>5, <1>6, <3>1, ChunksPlan
    <2>3. Plan(pending', tasks) /\ \A i \in DOMAIN pending' : Len(pending'[i]) <= perChild
      BY <1>3, <1>9, <2>2 DEF s
    <2> QED BY <1>1, <1>2, <1>9, <2>1, <2>3
  <1> QED BY <1>1, <1>7, <1>8, <1>9

\* Marking a future.
States == {"unsent", "queued", "taken", "done", "broken", "escaped", "seen"}

LEMMA SetIs ==
  ASSUME future \in Seq(Future), NEW f \in DOMAIN future, NEW state \in States, Set(f, state)
  PROVE  /\ future' \in Seq(Future) /\ DOMAIN future' = DOMAIN future /\ Len(future') = Len(future)
         /\ \A g \in DOMAIN future :
              /\ future'[g].batch = future[g].batch /\ future'[g].done = future[g].done
              /\ future'[g].rest = future[g].rest
              /\ future'[g].state = IF g = f THEN state ELSE future[g].state
  <1>1. \A g \in DOMAIN future : future[g] \in Future
    OBVIOUS
  <1>2. DOMAIN future = 1 .. Len(future) /\ Len(future) \in Nat
    OBVIOUS
  <1>3. future' = [future EXCEPT ![f].state = state]
    BY DEF Set
  <1>4. DOMAIN future' = DOMAIN future /\ future' = [g \in 1 .. Len(future) |-> future'[g]]
    BY <1>2, <1>3
  <1>5. \A g \in DOMAIN future : future'[g] = IF g = f THEN [future[g] EXCEPT !.state = state] ELSE future[g]
    BY <1>3
  <1>6. ASSUME NEW g \in DOMAIN future
        PROVE  /\ future'[g] \in Future
               /\ future'[g].batch = future[g].batch /\ future'[g].done = future[g].done
               /\ future'[g].rest = future[g].rest
               /\ future'[g].state = IF g = f THEN state ELSE future[g].state
    <2>1. future[g] \in Future /\ future'[g] = IF g = f THEN [future[g] EXCEPT !.state = state] ELSE future[g]
      BY <1>1, <1>5
    <2> HIDE DEF Batch
    <2> QED BY <2>1 DEF Future, States
  <1>7. \A g \in 1 .. Len(future) : future'[g] \in Future
    BY <1>2, <1>6
  <1>8. future' \in Seq(Future) /\ Len(future') = Len(future)
    BY <1>2, <1>4, <1>7, SeqOf
  <1> QED BY <1>4, <1>6, <1>8

\* A step that moves no task.
Steady ==
  /\ pending' = pending /\ results' = results
  /\ DOMAIN future' = DOMAIN future
  /\ \A f \in DOMAIN future :
       /\ future'[f].batch = future[f].batch
       /\ (future'[f].state = "seen") <=> (future[f].state = "seen")

LEMMA SteadyPlaces ==
  ASSUME PlacesInv, Steady
  PROVE  /\ PlacesInv' /\ Waiting' = Waiting /\ Out' = Out /\ Unseen' = Unseen /\ Goal' = Goal
         /\ \A f \in DOMAIN future : future'[f].batch = future[f].batch
  <1>1. pending' = pending /\ results' = results /\ DOMAIN future' = DOMAIN future
        /\ \A f \in DOMAIN future : future'[f].batch = future[f].batch
    BY DEF Steady
  <1>2. Waiting' = Waiting
    BY <1>1 DEF Waiting
  <1>3. Unseen' = Unseen
    BY DEF Unseen, Steady
  <1>4. Out' = Out
    <2>1. ASSUME NEW f \in Unseen PROVE Range(future'[f].batch) = Range(future[f].batch)
      BY <1>1 DEF Unseen
    <2> QED BY <1>3, <2>1, Zenon DEF Out
  <1>5. Goal' = Goal
    BY <1>1, <1>2, <1>4 DEF Goal
  <1>6. PlacesInv'
    BY <1>1, <1>2, <1>4 DEF PlacesInv
  <1> QED BY <1>1, <1>2, <1>3, <1>4, <1>5, <1>6

LEMMA SteadyCall ==
  ASSUME CallInv, PlacesInv, Steady, UNCHANGED <<answer, todo, asked>>,
         AtWork \/ phase = "between", AtWork' \/ phase' = "between"
  PROVE  CallInv'
  <1>1. Goal' = Goal
    BY SteadyPlaces
  <1>2. answer' = answer /\ todo' = todo /\ asked' = asked
    OBVIOUS
  <1>3. phase' \notin {"planning", "settled", "returned"}
    BY DEF AtWork
  <1>4. /\ OneEach(answer) /\ todo \cap TasksOf(answer) = {} /\ todo \subseteq asked
        /\ \/ /\ Goal \cap TasksOf(answer) = {} /\ Goal \cap todo = {}
              /\ Goal \cup TasksOf(answer) \cup todo = asked
           \/ /\ todo = {} /\ TasksOf(answer) = asked /\ Goal \subseteq asked
              /\ \A r \in Range(answer) : r.task \in Goal => r.kind \in {"abnormal", "memory"}
    BY DEF CallInv
  <1> HIDE DEF Goal
  <1> QED BY <1>1, <1>2, <1>3, <1>4 DEF CallInv

\* What waits, and what has been submitted, are tasks.
LEMMA PlacesTyped ==
  ASSUME Types
  PROVE  Waiting \subseteq Task /\ \A g \in DOMAIN future : Range(future[g].batch) \subseteq Task
  <1>1. ASSUME NEW g \in DOMAIN future PROVE future[g].batch \in Seq(Task)
    <2>1. future[g] \in Future
      BY DEF Types
    <2> QED BY <2>1 DEF Future, Batch
  <1>2. \A g \in DOMAIN future : Range(future[g].batch) \subseteq Task
    BY <1>1 DEF Range
  <1>3. \A i \in DOMAIN pending : pending[i] \in Seq(Task)
    BY DEF Types, Batch
  <1>4. \A i \in DOMAIN pending : Range(pending[i]) \subseteq Task
    BY <1>3 DEF Range
  <1>5. Waiting \subseteq Task
    BY <1>4, WithinIs DEF Waiting
  <1> QED BY <1>2, <1>5

\* One child changes.
LEMMA ChildIs ==
  ASSUME child \in [Child -> Process], NEW c \in Child, NEW p \in Process, child' = [child EXCEPT ![c] = p]
  PROVE  child' \in [Child -> Process] /\ child'[c] = p /\ \A d \in Child : d # c => child'[d] = child[d]
  OBVIOUS

LEMMA NoChildIs ==
  /\ NoChild \in Process /\ NoChild.pc = "none" /\ NoChild.limit = None /\ NoChild.ran = 0
  /\ [NoChild EXCEPT !.pc = "dead"] \in Process
  /\ [NoChild EXCEPT !.pc = "dead"].pc = "dead" /\ [NoChild EXCEPT !.pc = "dead"].limit = None
  <1>1. <<>> \in Seq(Task) /\ <<>> \in Seq(Result) /\ 0 \in Nat
    OBVIOUS
  <1>2. NoChild = [pc |-> "none", future |-> 0, left |-> <<>>, done |-> <<>>, ran |-> 0, limit |-> None]
    BY DEF NoChild
  <1>3. [NoChild EXCEPT !.pc = "dead"]
          = [pc |-> "dead", future |-> 0, left |-> <<>>, done |-> <<>>, ran |-> 0, limit |-> None]
    BY <1>2
  <1>4. ASSUME NEW pc \in {"none", "dead"}
        PROVE  [pc |-> pc, future |-> 0, left |-> <<>>, done |-> <<>>, ran |-> 0, limit |-> None] \in Process
    BY <1>1 DEF Process
  <1> QED BY <1>2, <1>3, <1>4

-----------------------------------------------------------------------------
(* The steps of a generation *)

LEMMA SubmitStep ==
  ASSUME RunnerInv, Submit
  PROVE  RunnerInv'
  <1>1. Types /\ PlacesInv /\ FutureInv /\ ChildInv /\ LimitInv /\ FreshInv /\ CallInv
    BY DEF RunnerInv
  <1>2. PICK f \in DOMAIN future : future[f].state = "unsent" /\ Set(f, "queued")
    BY DEF Submit, Unsent
  <1>3. /\ phase = "submitting" /\ phase' \in {"submitting", "waiting"} /\ broken' = broken /\ child' = child
        /\ UNCHANGED <<caller, failing, call, history>>
    BY DEF Submit
  <1>4. /\ future' \in Seq(Future) /\ DOMAIN future' = DOMAIN future /\ Len(future') = Len(future)
        /\ \A g \in DOMAIN future :
             /\ future'[g].batch = future[g].batch /\ future'[g].done = future[g].done
             /\ future'[g].rest = future[g].rest
             /\ future'[g].state = IF g = f THEN "queued" ELSE future[g].state
    <2>1. future \in Seq(Future) /\ "queued" \in States
      BY <1>1 DEF Types, States
    <2> QED BY <1>2, <2>1, SetIs
  <1>5. Steady
    BY <1>2, <1>3, <1>4 DEF Steady, call
  <1>6. /\ PlacesInv' /\ Waiting' = Waiting /\ Unseen' = Unseen
    BY <1>1, <1>5, SteadyPlaces
  <1>7. Types'
    BY <1>1, <1>3, <1>4 DEF Types, caller, call, history
  <1>8. FutureInv'
    BY <1>1, <1>2, <1>3, <1>4 DEF FutureInv
  <1>9. ChildInv'
    BY <1>1, <1>2, <1>3, <1>4, <1>6 DEF ChildInv, AtWork, AtTask
  <1>10. LimitInv'
    <2>1. \A g \in Unseen : g \in DOMAIN future
      BY DEF Unseen
    <2> QED BY <1>1, <1>3, <1>4, <1>6, <2>1 DEF LimitInv, AtTask, caller, call
  <1>11. FreshInv'
    BY <1>1, <1>2, <1>3, <1>4, <1>6 DEF FreshInv, history
  <1>12. CallInv'
    BY <1>1, <1>3, <1>5, SteadyCall DEF AtWork, caller, call
  <1> QED BY <1>6, <1>7, <1>8, <1>9, <1>10, <1>11, <1>12 DEF RunnerInv

\* An exception leaves the loop.
LEMMA RaiseStep ==
  ASSUME RunnerInv, SubmitRaises \/ \E f \in DOMAIN future : HarvestRaises(f)
  PROVE  RunnerInv'
  <1>1. Types /\ PlacesInv /\ FutureInv /\ ChildInv /\ LimitInv /\ FreshInv /\ CallInv
    BY DEF RunnerInv
  <1>2. /\ phase \in {"submitting", "waiting"} /\ phase' = "leaving" /\ failing' = TRUE
        /\ UNCHANGED <<caller, call, pool, history>>
    BY DEF SubmitRaises, HarvestRaises
  <1>3. Steady
    BY <1>2 DEF Steady, call, pool
  <1>4. /\ PlacesInv' /\ Waiting' = Waiting /\ Unseen' = Unseen
    BY <1>1, <1>3, SteadyPlaces
  <1>5. Types'
    BY <1>1, <1>2 DEF Types, caller, call, pool, history
  <1>6. FutureInv'
    BY <1>1, <1>2 DEF FutureInv, pool
  <1>7. ChildInv'
    BY <1>1, <1>2, <1>4 DEF ChildInv, AtWork, AtTask, pool
  <1>8. LimitInv'
    BY <1>1, <1>2, <1>4 DEF LimitInv, AtTask, caller, call, pool
  <1>9. FreshInv'
    BY <1>1, <1>2, <1>4 DEF FreshInv, pool, history
  <1>10. CallInv'
    BY <1>1, <1>2, <1>3, SteadyCall DEF AtWork, caller, call
  <1> QED BY <1>4, <1>5, <1>6, <1>7, <1>8, <1>9, <1>10 DEF RunnerInv

\* The pool is closed when nothing runs in it any more.
LEMMA LeaveStep ==
  ASSUME RunnerInv, LeavePool
  PROVE  RunnerInv'
  <1>1. Types /\ PlacesInv /\ FutureInv /\ ChildInv /\ LimitInv /\ FreshInv /\ CallInv
    BY DEF RunnerInv
  <1>2. /\ phase = "leaving" /\ child' = [c \in Child |-> NoChild]
        /\ phase' = IF failing THEN "raised" ELSE "between"
        /\ \A f \in DOMAIN future : future[f].state # "queued"
        /\ UNCHANGED <<caller, failing, call, future, broken, history>>
    BY DEF LeavePool, Closed
  <1>3. Steady
    BY <1>2 DEF Steady, call
  <1>4. /\ PlacesInv' /\ Waiting' = Waiting /\ Unseen' = Unseen
    BY <1>1, <1>3, SteadyPlaces
  <1>5. \A c \in Child : child'[c] = NoChild
    BY <1>2
  <1>6. Types'
    <2>1. child' \in [Child -> Process]
      BY <1>2, NoChildIs
    <2> QED BY <1>1, <1>2, <2>1 DEF Types, caller, call, history
  <1>7. FutureInv'
    BY <1>1, <1>2, <1>4 DEF FutureInv, Types
  <1>8. ChildInv'
    BY <1>5, NoChildIs DEF ChildInv, AtWork, AtTask
  <1>9. LimitInv'
    BY <1>1, <1>2, <1>4, <1>5, NoChildIs DEF LimitInv, AtTask, caller, call
  <1>10. FreshInv'
    BY <1>1, <1>2, <1>4, <1>5, NoChildIs DEF FreshInv, history
  <1>11. CallInv'
    <2>1. CASE failing
      <3>1. phase' = "raised"
        BY <1>2, <2>1
      <3>2. answer' = answer /\ todo' = todo /\ asked' = asked
        BY <1>2 DEF caller, call
      <3> QED BY <1>1, <3>1, <3>2 DEF CallInv, AtWork
    <2>2. CASE ~failing
      <3>1. phase' = "between" /\ AtWork
        BY <1>2, <2>2 DEF AtWork
      <3>2. UNCHANGED <<answer, todo, asked>>
        BY <1>2 DEF caller, call
      <3> QED BY <1>1, <1>3, <3>1, <3>2, SteadyCall
    <2> QED BY <2>1, <2>2
  <1> QED BY <1>4, <1>6, <1>7, <1>8, <1>9, <1>10, <1>11 DEF RunnerInv

\* A pool gets the first batches.
LEMMA BeginStep ==
  ASSUME RunnerInv, BeginGeneration
  PROVE  RunnerInv'
  <1>1. Types /\ PlacesInv /\ FutureInv /\ ChildInv /\ LimitInv /\ FreshInv /\ CallInv
    BY DEF RunnerInv
  <1> DEFINE g == GenerationSize
  <1>2. /\ phase = "between" /\ phase' = "submitting" /\ pending # <<>>
        /\ future' = [i \in 1 .. g |-> [batch |-> pending[i], state |-> "unsent", done |-> <<>>, rest |-> <<>>]]
        /\ pending' = SubSeq(pending, g + 1, Len(pending)) /\ broken' = FALSE
        /\ UNCHANGED <<caller, failing, mode, size, todo, results, child, history>>
    BY DEF BeginGeneration
  <1>3. /\ ~failing /\ Unseen = {} /\ \A c \in Child : child[c] = NoChild
    BY <1>1, <1>2 DEF FutureInv, ChildInv, AtWork
  <1>4. g \in 1 .. Len(pending) /\ (mode # "single" => g <= deployment.workers)
    <2>1. Len(pending) \in Nat \ {0} /\ deployment.workers \in Nat \ {0}
      BY <1>1, <1>2, DeploymentIs DEF Types
    <2> QED BY <2>1 DEF GenerationSize, Smaller
  <1>5. Plan(pending, Waiting)
    BY <1>1 DEF Types, PlacesInv, Plan, Waiting
  <1>6. /\ pending' \in Seq(Batch) /\ Disjoint(pending')
        /\ \A i \in DOMAIN pending' : i + g \in DOMAIN pending /\ pending'[i] = pending[i + g]
        /\ \A i \in 1 .. g : i \in DOMAIN pending /\ pending[i] \in Batch /\ Range(pending[i]) \cap Waiting' = {}
        /\ \A i, j \in 1 .. g : i # j => Range(pending[i]) \cap Range(pending[j]) = {}
        /\ \A x : x \in Waiting <=> x \in Waiting' \/ \E i \in 1 .. g : x \in Range(pending[i])
    <2> HIDE DEF g
    <2>1. pending' = SubSeq(pending, g + 1, Len(pending))
      BY <1>2
    <2>2. Waiting' = Within(pending')
      BY DEF Waiting
    <2>3. PICK p, S : p = pending /\ S = Waiting
      OBVIOUS
    <2>4. PICK q : q = SubSeq(p, g + 1, Len(p))
      OBVIOUS
    <2>5. Leaves(p, S, g, q)
      BY <1>4, <1>5, <2>3, <2>4 DEF Leaves
    <2>6. q \in Seq(Batch) /\ Disjoint(q)
      BY <2>5, RestPlan
    <2>7. \A i \in DOMAIN q : i + g \in DOMAIN p /\ q[i] = p[i + g]
      BY <2>5, RestPlan
    <2>8. \A i \in 1 .. g : i \in DOMAIN p /\ p[i] \in Batch /\ Range(p[i]) \cap Within(q) = {}
      BY <2>5, RestPlan
    <2>9. \A i, j \in 1 .. g : i # j => Range(p[i]) \cap Range(p[j]) = {}
      BY <2>5, RestPlan
    <2>10. \A x : x \in S <=> x \in Within(q) \/ \E i \in 1 .. g : x \in Range(p[i])
      BY <2>5, RestPlan
    <2>11. q = pending' /\ p = pending /\ S = Waiting
      BY <2>1, <2>3, <2>4
    <2> QED BY <2>2, <2>6, <2>7, <2>8, <2>9, <2>10, <2>11
  <1> HIDE DEF g
  <1>7. /\ DOMAIN future' = 1 .. g /\ Len(future') = g /\ future' \in Seq(Future)
        /\ \A f \in 1 .. g : future'[f].batch = pending[f] /\ future'[f].state = "unsent"
    <2>1. g \in Nat /\ DOMAIN future' = 1 .. g
      BY <1>2, <1>4
    <2>2. \A f \in 1 .. g :
            future'[f] = [batch |-> pending[f], state |-> "unsent", done |-> <<>>, rest |-> <<>>]
      BY <1>2
    <2>3. <<>> \in Seq(Result) /\ <<>> \in Seq(Task)
      OBVIOUS
    <2>4. \A f \in 1 .. g :
            future'[f] \in Future /\ future'[f].batch = pending[f] /\ future'[f].state = "unsent"
      <3>1. ASSUME NEW f \in 1 .. g
            PROVE  future'[f] \in Future /\ future'[f].batch = pending[f] /\ future'[f].state = "unsent"
        <4>1. pending[f] \in Batch
          BY <1>6
        <4>2. future'[f] = [batch |-> pending[f], state |-> "unsent", done |-> <<>>, rest |-> <<>>]
          BY <2>2
        <4> QED BY <2>3, <4>1, <4>2 DEF Future
      <3> QED BY <3>1
    <2>5. future' = [f \in 1 .. g |-> future'[f]]
      BY <1>2, <2>2
    <2> QED BY <2>1, <2>4, <2>5, SeqOf
  <1>8. Unseen' = 1 .. g
    BY <1>7 DEF Unseen
  <1>9. \A x : x \in Out' <=> \E i \in 1 .. g : x \in Range(pending[i])
    <2>1. \A x : x \in Out' <=> \E i \in 1 .. g : x \in Range(future'[i].batch)
      BY <1>8, Zenon DEF Out
    <2> QED BY <1>7, <2>1
  <1>10. Waiting' \cup Out' = Waiting /\ Waiting' \cap Out' = {}
    <2>1. ASSUME NEW x \in Waiting', x \in Out' PROVE FALSE
      BY <1>6, <1>9, <2>1
    <2> QED BY <1>6, <1>9, <2>1
  <1>11. Out = {}
    BY <1>3 DEF Out
  <1>12. Goal' = Goal
    BY <1>2, <1>10, <1>11 DEF Goal
  <1>13. Types'
    BY <1>1, <1>2, <1>6, <1>7 DEF Types, caller, history
  <1>14. PlacesInv'
    <2>1. OneEach(results)' /\ TasksOf(results)' = TasksOf(results) /\ Waiting \cap TasksOf(results) = {}
      BY <1>1, <1>2 DEF PlacesInv
    <2>2. \A e, f \in DOMAIN future' : e # f => Range(future'[e].batch) \cap Range(future'[f].batch) = {}
      <3>1. \A e \in DOMAIN future' : e \in 1 .. g /\ future'[e].batch = pending[e]
        BY <1>7
      <3>2. \A i, j \in 1 .. g : i # j => Range(pending[i]) \cap Range(pending[j]) = {}
        BY <1>6
      <3> QED BY <3>1, <3>2, Zenon
    <2> QED BY <1>6, <1>10, <2>1, <2>2 DEF PlacesInv
  <1>15. FutureInv'
    BY <1>2, <1>3, <1>7 DEF FutureInv
  <1>16. ChildInv'
    BY <1>2, <1>3, NoChildIs DEF ChildInv, AtTask
  <1>17. LimitInv'
    <2>1. /\ mode' = mode /\ size' = size /\ deployment' = deployment /\ child' = child /\ todo' = todo
          /\ phase # "planning"
      BY <1>2 DEF caller
    <2>2. mode = "limited" => \A i \in DOMAIN pending : Len(pending[i]) <= size
      BY <1>1 DEF LimitInv
    <2>3. mode = "limited" => \A i \in DOMAIN pending' : Len(pending'[i]) <= size
      BY <1>6, <2>2
    <2>4. mode = "limited" => \A f \in Unseen' : Len(future'[f].batch) <= size
      BY <1>6, <1>7, <1>8, <2>2
    <2> QED BY <1>1, <1>3, <1>4, <1>7, <2>1, <2>3, <2>4, NoChildIs DEF LimitInv, AtTask
  <1>18. FreshInv'
    <2>1. \A t \in Waiting : runs[t] = 0
      BY <1>1 DEF FreshInv
    <2>2. \A t \in Waiting' : runs[t] = 0
      BY <1>6, <2>1
    <2>3. \A f \in DOMAIN future' : \A t \in Range(future'[f].batch) : runs[t] = 0
      BY <1>6, <1>7, <2>1
    <2>4. runs' = runs /\ child' = child
      BY <1>2 DEF history
    <2> QED BY <1>1, <1>3, <1>7, <2>2, <2>3, <2>4, NoChildIs DEF FreshInv
  <1>19. CallInv'
    <2>1. answer' = answer /\ todo' = todo /\ asked' = asked
      BY <1>2 DEF caller
    <2> HIDE DEF Goal
    <2> QED BY <1>1, <1>2, <1>12, <2>1 DEF CallInv
  <1> QED BY <1>13, <1>14, <1>15, <1>16, <1>17, <1>18, <1>19 DEF RunnerInv

\* What a future leaves when it has been seen: its tasks are no longer out.
LEMMA SeenIs ==
  ASSUME Types, PlacesInv, NEW f \in Unseen, Set(f, "seen"), Seen(f), phase = "waiting"
  PROVE  /\ future' \in Seq(Future) /\ DOMAIN future' = DOMAIN future /\ Len(future') = Len(future)
         /\ \A g \in DOMAIN future :
              /\ future'[g].batch = future[g].batch /\ future'[g].done = future[g].done
              /\ future'[g].rest = future[g].rest
              /\ future'[g].state = IF g = f THEN "seen" ELSE future[g].state
         /\ f \in DOMAIN future /\ future[f] \in Future /\ Unseen' = Unseen \ {f}
         /\ Out' = Out \ Range(future[f].batch) /\ Range(future[f].batch) \subseteq Out
         /\ phase' \in {"waiting", "leaving"} /\ (phase' = "leaving" => Unseen' = {})
  <1>1. f \in DOMAIN future /\ future \in Seq(Future) /\ "seen" \in States
    BY DEF Unseen, Types, States
  <1>2. /\ future' \in Seq(Future) /\ DOMAIN future' = DOMAIN future /\ Len(future') = Len(future)
        /\ \A g \in DOMAIN future :
             /\ future'[g].batch = future[g].batch /\ future'[g].done = future[g].done
             /\ future'[g].rest = future[g].rest
             /\ future'[g].state = IF g = f THEN "seen" ELSE future[g].state
    BY <1>1, SetIs
  <1>3. Unseen' = Unseen \ {f}
    <2>1. ASSUME NEW g PROVE g \in Unseen' <=> g \in Unseen /\ g # f
      BY <1>2 DEF Unseen
    <2> QED BY <2>1
  <1>4. \A x : x \in Out <=> \E g \in Unseen : x \in Range(future[g].batch)
    BY Zenon DEF Out
  <1>5. \A x : x \in Out' <=> \E g \in Unseen' : x \in Range(future'[g].batch)
    BY Zenon DEF Out
  <1>6. \A g \in Unseen : g \in DOMAIN future
    BY DEF Unseen
  <1>7. \A g \in Unseen : g # f => Range(future[g].batch) \cap Range(future[f].batch) = {}
    BY <1>1, <1>6 DEF PlacesInv
  <1>8. ASSUME NEW x PROVE x \in Out' <=> x \in Out /\ x \notin Range(future[f].batch)
    <2>1. ASSUME x \in Out' PROVE x \in Out /\ x \notin Range(future[f].batch)
      <3>1. PICK g \in Unseen' : x \in Range(future'[g].batch)
        BY <1>5, <2>1
      <3>2. g \in Unseen /\ g # f /\ x \in Range(future[g].batch)
        BY <1>2, <1>3, <1>6, <3>1
      <3> QED BY <1>4, <1>7, <3>2
    <2>2. ASSUME x \in Out, x \notin Range(future[f].batch) PROVE x \in Out'
      <3>1. PICK g \in Unseen : x \in Range(future[g].batch)
        BY <1>4, <2>2
      <3>2. g \in Unseen' /\ x \in Range(future'[g].batch)
        BY <1>2, <1>3, <1>6, <2>2, <3>1
      <3> QED BY <1>5, <3>2
    <2> QED BY <2>1, <2>2
  <1>9. Range(future[f].batch) \subseteq Out
    BY <1>4
  <1>10. phase' \in {"waiting", "leaving"} /\ (phase' = "leaving" => Unseen' = {})
    <2>1. CASE \A g \in DOMAIN future \ {f} : future[g].state = "seen"
      <3>1. phase' = "leaving" /\ Unseen' = {}
        BY <1>2, <2>1 DEF Seen, Unseen
      <3> QED BY <3>1
    <2>2. CASE ~ \A g \in DOMAIN future \ {f} : future[g].state = "seen"
      <3>1. phase' = "waiting"
        BY <2>2 DEF Seen
      <3> QED BY <3>1
    <2> QED BY <2>1, <2>2
  <1>11. future[f] \in Future
    BY <1>1
  <1>12. Out' = Out \ Range(future[f].batch)
    BY <1>8
  <1> QED BY <1>1, <1>2, <1>3, <1>9, <1>10, <1>11, <1>12

\* The tasks of a future that has been seen are in the results or wait again.
LEMMA HarvestStep ==
  ASSUME RunnerInv, NEW f \in DOMAIN future, HarvestDone(f) \/ HarvestBroken(f)
  PROVE  RunnerInv'
  <1>1. Types /\ PlacesInv /\ FutureInv /\ ChildInv /\ LimitInv /\ FreshInv /\ CallInv
    BY DEF RunnerInv
  <1>2. /\ phase = "waiting" /\ future[f].state \in {"done", "broken"} /\ Set(f, "seen") /\ Seen(f)
        /\ UNCHANGED <<caller, failing, mode, size, todo, broken, child, history>>
    BY DEF HarvestDone, HarvestBroken
  <1>3. f \in Unseen
    BY <1>2 DEF Unseen
  <1>4. /\ future' \in Seq(Future) /\ DOMAIN future' = DOMAIN future /\ Len(future') = Len(future)
        /\ \A g \in DOMAIN future :
             /\ future'[g].batch = future[g].batch /\ future'[g].done = future[g].done
             /\ future'[g].rest = future[g].rest
             /\ future'[g].state = IF g = f THEN "seen" ELSE future[g].state
        /\ future[f] \in Future /\ Unseen' = Unseen \ {f}
        /\ Out' = Out \ Range(future[f].batch) /\ Range(future[f].batch) \subseteq Out
        /\ phase' \in {"waiting", "leaving"} /\ (phase' = "leaving" => Unseen' = {})
    BY <1>1, <1>2, <1>3, SeenIs
  <1> DEFINE batch == future[f].batch
             done == future[f].done
             rest == future[f].rest
  <1>5. /\ batch \in Seq(Task) /\ IsInjective(batch) /\ done \in Seq(Result) /\ rest \in Seq(Task)
    BY <1>4 DEF Future, Batch
  <1>6. future[f].state = "done" => Split(batch, done, rest) /\ \A t \in Range(rest) : runs[t] = 0
    BY <1>1 DEF FutureInv, FreshInv
  <1>7. /\ Waiting \cap Out = {} /\ Waiting \cap TasksOf(results) = {} /\ Out \cap TasksOf(results) = {}
        /\ OneEach(results) /\ results \in Seq(Result) /\ Plan(pending, Waiting)
    BY <1>1 DEF PlacesInv, Types, Plan, Waiting
  \* What is handed back, and what there is a result of.
  <1>8. \E back, got :
          /\ results' = results \o got /\ got \in Seq(Result) /\ OneEach(got)
          /\ back \cup TasksOf(got) = Range(batch) /\ back \cap TasksOf(got) = {}
          /\ Plan(pending', Waiting \cup back) /\ \A t \in back : runs[t] = 0
          /\ mode = "limited" => pending' = pending
    <2>1. CASE HarvestBroken(f)
      <3> DEFINE got == Abnormal(batch)
      <3>1. got \in Seq(Result) /\ OneEach(got) /\ TasksOf(got) = Range(batch)
        BY <1>5, AbnormalIs
      <3>2. results' = results \o got /\ pending' = pending
        BY <2>1 DEF HarvestBroken
      <3> HIDE DEF got, batch
      <3>3. Plan(pending', Waiting \cup {})
        BY <1>7, <3>2
      <3> WITNESS {}, got
      <3> QED BY <3>1, <3>2, <3>3
    <2>2. CASE HarvestDone(f) /\ mode = "explicit" /\ rest = <<>>
      <3>1. results' = results \o done /\ pending' = pending
        BY <2>2 DEF HarvestDone
      <3>2. Split(batch, done, rest)
        BY <1>6, <2>2 DEF HarvestDone
      <3>3. Range(rest) = {}
        BY <2>2 DEF Range
      <3>4. OneEach(done) /\ TasksOf(done) = Range(batch)
        BY <3>2, <3>3 DEF Split
      <3> HIDE DEF batch, done, rest
      <3>5. Plan(pending', Waiting \cup {})
        BY <1>7, <3>1
      <3> WITNESS {}, done
      <3> QED BY <1>5, <3>1, <3>4, <3>5
    <2>3. CASE HarvestDone(f) /\ mode = "explicit" /\ rest # <<>>
      <3>1. results' = results \o done /\ pending' = Append(pending, rest) /\ mode # "limited"
        BY <2>3 DEF HarvestDone
      <3>2. Split(batch, done, rest) /\ \A t \in Range(rest) : runs[t] = 0
        BY <1>6, <2>3 DEF HarvestDone
      <3> HIDE DEF batch, done, rest
      <3>3. OneEach(done) /\ IsInjective(rest) /\ Range(rest) \cup TasksOf(done) = Range(batch)
            /\ Range(rest) \cap TasksOf(done) = {}
        BY <3>2 DEF Split
      <3>4. rest \in Batch
        BY <1>5, <2>3, <3>3 DEF Batch
      <3>5. Waiting \cap Range(rest) = {}
        <4>1. Range(batch) \subseteq Out
          BY <1>4 DEF batch
        <4> QED BY <1>7, <3>3, <4>1
      <3>6. Plan(pending', Waiting \cup Range(rest))
        BY <1>7, <3>1, <3>4, <3>5, AppendPlan
      <3> WITNESS Range(rest), done
      <3> QED BY <1>5, <3>1, <3>2, <3>3, <3>6
    <2>4. CASE HarvestDone(f) /\ mode # "explicit"
      <3> DEFINE lost == Abnormal(rest)
                 got == done \o lost
      <3>1. results' = results \o done \o lost /\ pending' = pending
        BY <2>4 DEF HarvestDone
      <3>2. Split(batch, done, rest)
        BY <1>6, <2>4 DEF HarvestDone
      <3> HIDE DEF batch, done, rest
      <3>3. OneEach(done) /\ IsInjective(rest) /\ TasksOf(done) \cup Range(rest) = Range(batch)
            /\ TasksOf(done) \cap Range(rest) = {}
        BY <3>2 DEF Split
      <3>4. lost \in Seq(Result) /\ OneEach(lost) /\ TasksOf(lost) = Range(rest)
        BY <1>5, <3>3, AbnormalIs
      <3> HIDE DEF lost
      <3>5. /\ got \in Seq(Result) /\ OneEach(got) /\ TasksOf(got) = TasksOf(done) \cup TasksOf(lost)
        BY <1>5, <3>3, <3>4, ConcatResults
      <3>6. results' = results \o got
        BY <1>5, <1>7, <3>1, <3>4
      <3> HIDE DEF got
      <3>7. Plan(pending', Waiting \cup {})
        BY <1>7, <3>1
      <3> WITNESS {}, got
      <3> QED BY <3>1, <3>3, <3>4, <3>5, <3>6, <3>7
    <2> QED BY <2>1, <2>2, <2>3, <2>4
  <1> HIDE DEF batch, done, rest
  <1>9. PICK back, got :
          /\ results' = results \o got /\ got \in Seq(Result) /\ OneEach(got)
          /\ back \cup TasksOf(got) = Range(batch) /\ back \cap TasksOf(got) = {}
          /\ Plan(pending', Waiting \cup back) /\ \A t \in back : runs[t] = 0
          /\ mode = "limited" => pending' = pending
    BY <1>8
  <1>10. /\ Out' = Out \ Range(batch) /\ Range(batch) \subseteq Out
    BY <1>4 DEF batch
  <1>11. /\ results' \in Seq(Result) /\ OneEach(results') /\ TasksOf(results') = TasksOf(results) \cup TasksOf(got)
    <2>1. TasksOf(results) \cap TasksOf(got) = {}
      BY <1>7, <1>9, <1>10
    <2> QED BY <1>7, <1>9, <2>1, ConcatResults
  <1>12. /\ pending' \in Seq(Batch) /\ Disjoint(pending') /\ Waiting' = Waiting \cup back
    BY <1>9 DEF Plan, Waiting
  <1>13. Goal' = Goal
    <2>1. Goal' = Waiting' \cup Out' \cup TasksOf(results')
      BY DEF Goal
    <2> QED BY <1>9, <1>10, <1>11, <1>12, <2>1 DEF Goal
  <1>14. Types'
    BY <1>1, <1>2, <1>4, <1>11, <1>12 DEF Types, caller, history
  <1>15. PlacesInv'
    <2>1. \A e, g \in DOMAIN future' : e # g => Range(future'[e].batch) \cap Range(future'[g].batch) = {}
      BY <1>1, <1>4 DEF PlacesInv
    <2>2. Waiting' \cap Out' = {} /\ Waiting' \cap TasksOf(results') = {} /\ Out' \cap TasksOf(results') = {}
      BY <1>7, <1>9, <1>10, <1>11, <1>12
    <2> QED BY <1>11, <1>12, <2>1, <2>2 DEF PlacesInv
  <1>16. FutureInv'
    BY <1>1, <1>2, <1>4 DEF FutureInv
  <1>17. ChildInv'
    <2>1. child' = child /\ broken' = broken /\ AtWork /\ AtWork'
      BY <1>2, <1>4 DEF AtWork
    <2>2. ASSUME NEW c \in Child, AtTask(c)
          PROVE  /\ child[c].future \in DOMAIN future'
                 /\ LET e == future'[child[c].future] IN
                    /\ e.state \in {"taken", "broken", "seen"} /\ (~broken => e.state = "taken")
                    /\ Split(e.batch, child[c].done, child[c].left)
                    /\ Range(e.batch) \cap Waiting' = {}
      <3> DEFINE h == child[c].future
      <3>1. /\ h \in DOMAIN future /\ future[h].state \in {"taken", "broken", "seen"}
            /\ (~broken => future[h].state = "taken") /\ Split(future[h].batch, child[c].done, child[c].left)
            /\ Range(future[h].batch) \cap Waiting = {}
        BY <1>1, <2>2 DEF ChildInv
      <3> HIDE DEF h
      <3>2. future'[h].batch = future[h].batch /\ future'[h].state = IF h = f THEN "seen" ELSE future[h].state
        BY <1>4, <3>1
      <3>3. broken \/ h # f
        BY <1>2, <3>1
      <3>4. Range(future[h].batch) \cap Waiting' = {}
        <4>1. CASE h = f
          <5>1. future[f].state = "broken"
            BY <1>2, <3>1, <4>1
          <5>2. HarvestBroken(f)
            BY <5>1 DEF HarvestDone
          <5>3. pending' = pending
            BY <5>2 DEF HarvestBroken
          <5> QED BY <3>1, <5>3 DEF Waiting
        <4>2. CASE h # f
          <5>1. Range(future[h].batch) \cap Range(batch) = {}
            BY <1>1, <3>1, <4>2 DEF PlacesInv, batch
          <5> QED BY <1>9, <1>12, <3>1, <5>1
        <4> QED BY <4>1, <4>2
      <3> QED BY <1>4, <3>1, <3>2, <3>3, <3>4 DEF h
    <2> QED BY <1>1, <2>1, <2>2 DEF ChildInv, AtTask, AtWork
  <1>18. LimitInv'
    <2>1. /\ mode' = mode /\ size' = size /\ deployment' = deployment /\ child' = child /\ todo' = todo
          /\ phase # "planning"
      BY <1>2 DEF caller
    <2>2. \A g \in Unseen' : g \in Unseen /\ future'[g].batch = future[g].batch
      BY <1>4 DEF Unseen
    <2> QED BY <1>1, <1>4, <1>9, <2>1, <2>2 DEF LimitInv, AtTask
  <1>19. FreshInv'
    <2>1. runs' = runs /\ child' = child
      BY <1>2 DEF history
    <2> QED BY <1>1, <1>4, <1>9, <1>12, <2>1 DEF FreshInv
  <1>20. CallInv'
    <2>1. answer' = answer /\ todo' = todo /\ asked' = asked
      BY <1>2 DEF caller
    <2> HIDE DEF Goal
    <2> QED BY <1>1, <1>2, <1>4, <1>13, <2>1 DEF CallInv, AtWork
  <1> QED BY <1>14, <1>15, <1>16, <1>17, <1>18, <1>19, <1>20 DEF RunnerInv

-----------------------------------------------------------------------------
(* The steps of the children *)

\* Children are at work while the caller is, and each has a batch of its own.
LEMMA AtWorkIs ==
  ASSUME RunnerInv, NEW c \in Child, child[c].pc # "none"
  PROVE  AtWork /\ phase \in {"submitting", "waiting", "leaving"}
  <1>1. AtWork
    BY NoChildIs DEF RunnerInv, ChildInv
  <1> QED BY <1>1 DEF AtWork

\* A child ends a task.
LEMMA EndIs ==
  ASSUME RunnerInv, NEW c \in Child, NEW kind \in Kind, EndTask(c, kind) \/ EndBatch(c, kind) \/ Recycle(c, kind)
  PROVE  /\ child[c].pc = "busy" /\ child[c].left \in Seq(Task) /\ child[c].left # <<>> /\ IsInjective(child[c].left)
         /\ child' \in [Child -> Process] /\ \A d \in Child : d # c => child'[d] = child[d]
         /\ child'[c].future = child[c].future /\ child'[c].limit = child[c].limit
         /\ child'[c].left = Tail(child[c].left)
         /\ child'[c].done = Ended(c, kind)
         /\ \/ /\ child'[c].pc = "busy" /\ Len(child[c].left) > 1 /\ child'[c].ran = child[c].ran + 1
               /\ runs' = [runs EXCEPT ![child[c].left[2]] = @ + 1] /\ EndTask(c, kind)
            \/ child'[c].pc = "reporting" /\ child'[c].ran = child[c].ran /\ runs' = runs
         /\ UNCHANGED <<caller, phase, failing, call, future, broken, deaths>>
  <1>1. Types /\ ChildInv
    BY DEF RunnerInv
  <1> DEFINE left == child[c].left
  <1>2. /\ child \in [Child -> Process] /\ child[c] \in Process
        /\ left \in Seq(Task) /\ child[c].done \in Seq(Result) /\ child[c].ran \in Nat
        /\ child[c].future \in Nat /\ child[c].limit \in Nat \cup {None}
    BY <1>1 DEF Types, Process
  <1>3. child[c].pc = "busy" /\ UNCHANGED <<caller, phase, failing, call, future, broken, deaths>> /\ Len(left) >= 1
    BY DEF EndTask, EndBatch, Recycle, history
  <1>4. left # <<>>
    BY <1>3
  <1>5. PICK b : Split(b, child[c].done, left)
    BY <1>1, <1>3 DEF ChildInv, AtTask
  <1>6. Ended(c, kind) \in Seq(Result)
    BY <1>2, <1>4, <1>5, SplitNext DEF Ended
  <1>7. IsInjective(left) /\ Tail(left) \in Seq(Task) /\ Len(Tail(left)) = Len(left) - 1
    BY <1>2, <1>4, <1>5, HeadTail DEF Split
  <1>8. CASE EndTask(c, kind)
    <2>1. /\ child' = [child EXCEPT ![c].done = Ended(c, kind), ![c].left = Tail(@), ![c].ran = @ + 1]
          /\ Len(left) > 1 /\ runs' = [runs EXCEPT ![left[2]] = @ + 1]
      BY <1>8 DEF EndTask
    <2> DEFINE p == [child[c] EXCEPT !.done = Ended(c, kind), !.left = Tail(@), !.ran = @ + 1]
    <2>2. child' = [child EXCEPT ![c] = p]
      BY <1>2, <2>1
    <2>3. /\ p \in Process /\ p.pc = "busy" /\ p.future = child[c].future /\ p.limit = child[c].limit
          /\ p.left = Tail(left) /\ p.done = Ended(c, kind) /\ p.ran = child[c].ran + 1
      <3> DEFINE e == Ended(c, kind)
                 n == child[c].ran + 1
                 t == Tail(left)
      <3>1. e \in Seq(Result) /\ n \in Nat /\ t \in Seq(Task)
        BY <1>2, <1>6, <1>7
      <3>2. p = [child[c] EXCEPT !.done = e, !.left = t, !.ran = n]
        OBVIOUS
      <3> HIDE DEF e, n, t, p
      <3>3. /\ p \in Process /\ p.pc = "busy" /\ p.future = child[c].future /\ p.limit = child[c].limit
            /\ p.left = t /\ p.done = e /\ p.ran = n
        BY <1>2, <1>3, <3>1, <3>2 DEF Process
      <3> QED BY <3>3 DEF e, n, t
    <2> HIDE DEF p
    <2>4. child' \in [Child -> Process] /\ child'[c] = p /\ \A d \in Child : d # c => child'[d] = child[d]
      BY <1>2, <2>2, <2>3, ChildIs
    <2> QED BY <1>2, <1>3, <1>4, <1>7, <1>8, <2>1, <2>3, <2>4
  <1>9. CASE EndBatch(c, kind)
    <2>1. /\ child' = [child EXCEPT ![c].pc = "reporting", ![c].done = Ended(c, kind), ![c].left = <<>>]
          /\ Len(left) = 1 /\ runs' = runs
      BY <1>9 DEF EndBatch, history
    <2> DEFINE p == [child[c] EXCEPT !.pc = "reporting", !.done = Ended(c, kind), !.left = <<>>]
    <2>2. child' = [child EXCEPT ![c] = p]
      BY <1>2, <2>1
    <2>3. Tail(left) = <<>> /\ <<>> \in Seq(Task)
      <3>1. Len(Tail(left)) = 0
        BY <1>7, <2>1
      <3> DEFINE t == Tail(left)
      <3>2. t \in Seq(Task) /\ Len(t) = 0
        BY <1>7, <3>1
      <3> HIDE DEF t
      <3>3. t = <<>>
        BY <3>2
      <3> QED BY <3>3 DEF t
    <2>4. /\ p \in Process /\ p.pc = "reporting" /\ p.future = child[c].future /\ p.limit = child[c].limit
          /\ p.left = Tail(left) /\ p.done = Ended(c, kind) /\ p.ran = child[c].ran
      BY <1>2, <1>3, <1>6, <2>3 DEF Process
    <2> HIDE DEF p
    <2>5. child' \in [Child -> Process] /\ child'[c] = p /\ \A d \in Child : d # c => child'[d] = child[d]
      BY <1>2, <2>2, <2>4, ChildIs
    <2> QED BY <1>2, <1>3, <1>4, <1>7, <1>9, <2>1, <2>4, <2>5
  <1>10. CASE Recycle(c, kind)
    <2>1. /\ child' = [child EXCEPT ![c].pc = "reporting", ![c].done = Ended(c, kind), ![c].left = Tail(@)]
          /\ runs' = runs
      BY <1>10 DEF Recycle, history
    <2> DEFINE p == [child[c] EXCEPT !.pc = "reporting", !.done = Ended(c, kind), !.left = Tail(@)]
    <2>2. child' = [child EXCEPT ![c] = p]
      BY <1>2, <2>1
    <2>3. /\ p \in Process /\ p.pc = "reporting" /\ p.future = child[c].future /\ p.limit = child[c].limit
          /\ p.left = Tail(left) /\ p.done = Ended(c, kind) /\ p.ran = child[c].ran
      BY <1>2, <1>3, <1>6, <1>7 DEF Process
    <2> HIDE DEF p
    <2>4. child' \in [Child -> Process] /\ child'[c] = p /\ \A d \in Child : d # c => child'[d] = child[d]
      BY <1>2, <2>2, <2>3, ChildIs
    <2> QED BY <1>2, <1>3, <1>4, <1>7, <1>10, <2>1, <2>3, <2>4
  <1> QED BY <1>8, <1>9, <1>10

LEMMA EndStep ==
  ASSUME RunnerInv, NEW c \in Child, NEW kind \in Kind, EndTask(c, kind) \/ EndBatch(c, kind) \/ Recycle(c, kind)
  PROVE  RunnerInv'
  <1>1. Types /\ PlacesInv /\ FutureInv /\ ChildInv /\ LimitInv /\ FreshInv /\ CallInv
    BY DEF RunnerInv
  <1> DEFINE left == child[c].left
             f == child[c].future
  <1>2. /\ child[c].pc = "busy" /\ left \in Seq(Task) /\ left # <<>> /\ IsInjective(left)
        /\ child' \in [Child -> Process] /\ \A d \in Child : d # c => child'[d] = child[d]
        /\ child'[c].future = f /\ child'[c].limit = child[c].limit
        /\ child'[c].left = Tail(left)
        /\ child'[c].done = Ended(c, kind)
    BY EndIs
  <1>3. \/ /\ child'[c].pc = "busy" /\ Len(left) > 1 /\ child'[c].ran = child[c].ran + 1
           /\ runs' = [runs EXCEPT ![left[2]] = @ + 1] /\ EndTask(c, kind)
        \/ child'[c].pc = "reporting" /\ child'[c].ran = child[c].ran /\ runs' = runs
    BY EndIs
  <1>4. UNCHANGED <<caller, phase, failing, call, future, broken, deaths>>
    BY EndIs
  <1>5. AtWork /\ AtWork' /\ phase \in {"submitting", "waiting", "leaving"} /\ phase' = phase
    <2>1. AtWork
      BY <1>2, AtWorkIs
    <2> QED BY <1>4, <2>1 DEF AtWork
  <1>6. Steady
    BY <1>4 DEF Steady, call
  <1>7. /\ PlacesInv' /\ Waiting' = Waiting /\ Unseen' = Unseen
    BY <1>1, <1>6, SteadyPlaces
  <1>8. /\ f \in DOMAIN future /\ future[f].state \in {"taken", "broken", "seen"}
        /\ (~broken => future[f].state = "taken")
        /\ Split(future[f].batch, child[c].done, left) /\ Range(future[f].batch) \cap Waiting = {}
        /\ \A d \in Child : AtTask(d) /\ d # c => child[d].future # f
    BY <1>1, <1>2 DEF ChildInv, AtTask
  <1>9. /\ child[c] \in Process /\ child[c].done \in Seq(Result) /\ child[c].ran \in Nat
    BY <1>1 DEF Types, Process
  <1> HIDE DEF left, f
  <1>10. /\ Tail(left) \in Seq(Task) /\ IsInjective(Tail(left)) /\ Len(Tail(left)) = Len(left) - 1
         /\ Range(left) = {Head(left)} \cup Range(Tail(left))
    BY <1>2, HeadTail
  <1>11. Split(future[f].batch, Ended(c, kind), Tail(left))
    BY <1>2, <1>8, <1>9, SplitNext DEF Ended, left
  <1>12. Range(left) \subseteq Range(future[f].batch)
    BY <1>8 DEF Split
  <1>13. \A g \in DOMAIN future : g # f => Range(future[g].batch) \cap Range(left) = {}
    BY <1>1, <1>8, <1>12 DEF PlacesInv
  \* A task that starts has waited in this child only.
  <1>14. \A t \in Task : runs'[t] # runs[t] =>
            /\ t \in Range(Tail(left)) /\ runs'[t] = 1 /\ child'[c].pc = "busy"
            /\ t = Head(Tail(left))
    <2>1. CASE /\ child'[c].pc = "busy" /\ Len(left) > 1 /\ runs' = [runs EXCEPT ![left[2]] = @ + 1]
      <3>1. left[2] = Tail(left)[1] /\ 1 \in DOMAIN Tail(left) /\ Head(Tail(left)) = Tail(left)[1]
        BY <1>2, <1>10, <2>1
      <3>2. left[2] \in Range(Tail(left))
        BY <3>1 DEF Range
      <3>3. runs[left[2]] = 0
        BY <1>1, <1>2, <3>2 DEF FreshInv, left
      <3>4. left[2] \in Task /\ runs \in [Task -> Nat]
        BY <1>1, <1>10, <3>1 DEF Types
      <3> QED BY <2>1, <3>1, <3>2, <3>3, <3>4
    <2> QED BY <1>3, <2>1
  <1>15. runs' \in [Task -> Nat]
    BY <1>1, <1>3 DEF Types
  <1>16. Types'
    BY <1>1, <1>2, <1>4, <1>15 DEF Types, caller, call
  <1>17. FutureInv'
    BY <1>1, <1>4, <1>7 DEF FutureInv
  <1>18. ChildInv'
    <2>1. child'[c].pc \in {"busy", "reporting"} /\ (child'[c].pc = "busy" => Tail(left) # <<>>)
      <3>1. Len(left) > 1 => Len(Tail(left)) # 0
        BY <1>2, <1>10
      <3>2. Len(left) > 1 => Tail(left) # <<>>
        BY <3>1
      <3> QED BY <1>3, <3>2
    <2>2. future' = future /\ broken' = broken
      BY <1>4
    <2>3. \A d \in Child : d # c => child'[d] = child[d] /\ (AtTask(d)' <=> AtTask(d))
      BY <1>2 DEF AtTask
    <2>4. AtTask(c)' /\ AtTask(c)
      BY <1>2, <2>1 DEF AtTask
    <2>5. ASSUME NEW d \in Child
          PROVE  /\ child'[d].pc = "none" \/ ~AtWork' => child'[d] = NoChild
                 /\ child'[d].pc \in {"idle", "dead"} => child'[d].limit = None
                 /\ child'[d].pc = "busy" => child'[d].left # <<>>
                 /\ AtTask(d)' =>
                      /\ child'[d].future \in DOMAIN future
                      /\ LET e == future[child'[d].future] IN
                         /\ e.state \in {"taken", "broken", "seen"} /\ (~broken => e.state = "taken")
                         /\ Split(e.batch, child'[d].done, child'[d].left)
                         /\ Range(e.batch) \cap Waiting = {}
      <3>1. CASE d = c
        BY <1>2, <1>5, <1>8, <1>11, <2>1, <3>1
      <3>2. CASE d # c
        BY <1>1, <1>5, <2>3, <3>2 DEF ChildInv
      <3> QED BY <3>1, <3>2
    <2>6. \A d, e \in Child : AtTask(d)' /\ AtTask(e)' /\ d # e => child'[d].future # child'[e].future
      <3>1. \A d \in Child : child'[d].future = child[d].future
        BY <1>2 DEF f
      <3> QED BY <1>1, <2>3, <2>4, <3>1 DEF ChildInv
    <2> QED BY <1>7, <2>2, <2>5, <2>6 DEF ChildInv
  <1>19. LimitInv'
    <2>1. /\ mode' = mode /\ size' = size /\ deployment' = deployment /\ todo' = todo /\ pending' = pending
          /\ future' = future
      BY <1>4 DEF caller, call
    <2>2. child[c].limit = (IF mode = "limited" THEN size ELSE None)
          /\ (mode = "limited" => child[c].ran + Len(left) <= size + 1 /\ size \in Nat)
      BY <1>1, <1>2 DEF LimitInv, AtTask, Types, left
    <2>3. /\ mode = "limited" => child'[c].pc # "idle"
          /\ AtTask(c)' => child'[c].limit = IF mode = "limited" THEN size ELSE None
          /\ mode = "limited" /\ child'[c].pc = "busy" => child'[c].ran + Len(child'[c].left) <= size + 1
          /\ mode = "limited" /\ child'[c].pc = "reporting" => child'[c].ran <= size
      <3>1. Len(left) \in Nat \ {0}
        BY <1>2
      <3> QED BY <1>2, <1>3, <1>9, <1>10, <2>2, <3>1
    <2>4. \A d \in Child : d # c => child'[d] = child[d] /\ (AtTask(d)' <=> AtTask(d))
      BY <1>2 DEF AtTask
    <2> QED BY <1>1, <1>4, <1>7, <2>1, <2>3, <2>4 DEF LimitInv
  <1>20. FreshInv'
    <2>1. future' = future
      BY <1>4
    <2>2. \A t \in Waiting : t \notin Range(left)
      BY <1>8, <1>12
    <2>3. \A g \in DOMAIN future : future[g].state \in {"unsent", "queued", "done"} => g # f
      BY <1>8
    <2>4. \A g \in DOMAIN future : future[g].state = "done" => Range(future[g].rest) \subseteq Range(future[g].batch)
      BY <1>1 DEF FutureInv, Split
    <2>5. \A t \in Task : t \notin Range(left) => runs'[t] = runs[t]
      BY <1>10, <1>14
    <2>6. Waiting \subseteq Task /\ \A g \in DOMAIN future : Range(future[g].batch) \subseteq Task
      BY <1>1, PlacesTyped
    <2>7. \A t \in Waiting' : runs'[t] = 0
      BY <1>1, <1>7, <2>2, <2>5, <2>6 DEF FreshInv
    <2>8. \A t \in Task : runs'[t] <= 1
      BY <1>1, <1>14 DEF FreshInv
    <2>9. \A g \in DOMAIN future :
            /\ future[g].state \in {"unsent", "queued"} => \A t \in Range(future[g].batch) : runs'[t] = 0
            /\ future[g].state = "done" => \A t \in Range(future[g].rest) : runs'[t] = 0
      <3> TAKE g \in DOMAIN future
      <3>1. CASE future[g].state \in {"unsent", "queued"}
        <4>1. \A t \in Range(future[g].batch) : t \in Task /\ t \notin Range(left) /\ runs[t] = 0
          BY <1>1, <1>13, <2>3, <2>6, <3>1 DEF FreshInv
        <4> QED BY <2>5, <3>1, <4>1
      <3>2. CASE future[g].state = "done"
        <4>1. \A t \in Range(future[g].rest) : t \in Task /\ t \notin Range(left) /\ runs[t] = 0
          BY <1>1, <1>13, <2>3, <2>4, <2>6, <3>2 DEF FreshInv
        <4> QED BY <2>5, <3>2, <4>1
      <3> QED BY <3>1, <3>2
    <2>10. ASSUME NEW d \in Child
           PROVE  /\ child'[d].pc = "busy" => \A t \in Range(Tail(child'[d].left)) : runs'[t] = 0
                  /\ child'[d].pc = "reporting" => \A t \in Range(child'[d].left) : runs'[t] = 0
      <3>1. CASE d = c /\ child'[c].pc = "busy"
        <4>1. Tail(left) # <<>>
          BY <1>3, <1>10, <3>1
        <4>2. /\ Head(Tail(left)) \notin Range(Tail(Tail(left)))
              /\ Range(Tail(left)) = {Head(Tail(left))} \cup Range(Tail(Tail(left)))
              /\ Tail(Tail(left)) \in Seq(Task)
          BY <1>10, <4>1, HeadTail
        <4>3. Range(Tail(Tail(left))) \subseteq Task
          BY <4>2 DEF Range
        <4>4. \A t \in Range(Tail(Tail(left))) : runs[t] = 0
          BY <1>1, <1>2, <4>2 DEF FreshInv, left
        <4>5. \A t \in Range(Tail(Tail(left))) : runs'[t] = 0
          BY <1>14, <4>2, <4>3, <4>4
        <4> QED BY <1>2, <3>1, <4>5
      <3>2. CASE d = c /\ child'[c].pc = "reporting"
        <4>1. \A t \in Range(Tail(left)) : runs[t] = 0
          BY <1>1, <1>2 DEF FreshInv, left
        <4>2. runs' = runs
          BY <1>3, <3>2
        <4> QED BY <1>2, <3>2, <4>1, <4>2
      <3>3. CASE d # c /\ AtTask(d)
        <4> DEFINE l == child[d].left
                   g == child[d].future
        <4>1. g \in DOMAIN future /\ g # f /\ Split(future[g].batch, child[d].done, l)
          BY <1>1, <1>8, <3>3 DEF ChildInv
        <4>2. Range(l) \subseteq Range(future[g].batch) /\ IsInjective(l)
          BY <4>1 DEF Split
        <4>3. \A t \in Range(l) : t \in Task /\ runs'[t] = runs[t]
          BY <1>13, <2>5, <2>6, <4>1, <4>2
        <4>4. l \in Seq(Task) /\ (child[d].pc = "busy" => l # <<>>)
          BY <1>1 DEF Types, Process, ChildInv
        <4>5. child[d].pc = "busy" => Range(Tail(l)) \subseteq Range(l)
          BY <4>2, <4>4, HeadTail
        <4>6. child'[d] = child[d]
          BY <1>2, <3>3
        <4> QED BY <1>1, <4>3, <4>5, <4>6 DEF FreshInv
      <3>4. CASE d # c /\ ~ AtTask(d)
        BY <1>2, <3>4 DEF AtTask
      <3> QED BY <1>3, <3>1, <3>2, <3>3, <3>4
    <2> QED BY <2>1, <2>7, <2>8, <2>9, <2>10 DEF FreshInv
  <1>21. CallInv'
    BY <1>1, <1>4, <1>5, <1>6, SteadyCall DEF caller, call
  <1> QED BY <1>7, <1>16, <1>17, <1>18, <1>19, <1>20, <1>21 DEF RunnerInv

\* A child is gone.
LEMMA GoneStep ==
  ASSUME RunnerInv, NEW c \in Child, Die(c) \/ Terminate(c)
  PROVE  RunnerInv'
  <1>1. Types /\ PlacesInv /\ FutureInv /\ ChildInv /\ LimitInv /\ FreshInv /\ CallInv
    BY DEF RunnerInv
  <1>2. /\ child[c].pc # "none" /\ UNCHANGED <<caller, phase, failing, call, future, broken, runs>>
        /\ deaths' \in 0 .. deployment.deaths
        /\ child' = [child EXCEPT ![c] = NoChild] \/ child' = [child EXCEPT ![c] = [NoChild EXCEPT !.pc = "dead"]]
    <2>1. deployment.deaths \in Nat /\ deaths \in 0 .. deployment.deaths
      BY <1>1, DeploymentIs DEF Types
    <2>2. CASE Die(c)
      <3>1. deaths' = deaths + 1 /\ deaths < deployment.deaths
        BY <2>2 DEF Die
      <3>2. deaths' \in 0 .. deployment.deaths
        BY <2>1, <3>1
      <3> QED BY <2>2, <3>2 DEF Die
    <2>3. CASE Terminate(c)
      <3>1. deaths' = deaths /\ runs' = runs
        BY <2>3 DEF Terminate, history
      <3> QED BY <2>1, <2>3, <3>1 DEF Terminate
    <2> QED BY <2>2, <2>3
  <1>3. AtWork /\ AtWork' /\ phase \in {"submitting", "waiting", "leaving"} /\ phase' = phase
    <2>1. AtWork
      BY <1>2, AtWorkIs
    <2> QED BY <1>2, <2>1 DEF AtWork
  <1>4. /\ child' \in [Child -> Process] /\ \A d \in Child : d # c => child'[d] = child[d]
        /\ child'[c].limit = None
        /\ (child'[c].pc = "none" /\ child'[c] = NoChild) \/ child'[c].pc = "dead"
    <2>1. child \in [Child -> Process]
      BY <1>1 DEF Types
    <2>2. CASE child' = [child EXCEPT ![c] = NoChild]
      BY <2>1, <2>2, NoChildIs
    <2>3. CASE child' = [child EXCEPT ![c] = [NoChild EXCEPT !.pc = "dead"]]
      <3> DEFINE p == [NoChild EXCEPT !.pc = "dead"]
      <3>1. p \in Process /\ p.pc = "dead" /\ p.limit = None
        BY NoChildIs
      <3> HIDE DEF p
      <3> QED BY <2>1, <2>3, <3>1, ChildIs DEF p
    <2> QED BY <1>2, <2>2, <2>3
  <1>5. Steady
    BY <1>2 DEF Steady, call
  <1>6. /\ PlacesInv' /\ Waiting' = Waiting /\ Unseen' = Unseen
    BY <1>1, <1>5, SteadyPlaces
  <1>7. Types'
    <2>1. /\ deployment' = deployment /\ asked' = asked /\ answer' = answer /\ phase' = phase /\ failing' = failing
          /\ mode' = mode /\ size' = size /\ todo' = todo /\ pending' = pending /\ results' = results
          /\ future' = future /\ broken' = broken /\ runs' = runs
      BY <1>2 DEF caller, call
    <2>2. deaths' \in 0 .. deployment'.deaths
      BY <1>2, <2>1
    <2> QED BY <1>1, <1>4, <2>1, <2>2 DEF Types
  <1>8. FutureInv'
    <2>1. phase' = phase /\ failing' = failing /\ future' = future
      BY <1>2
    <2> QED BY <1>1, <1>6, <2>1 DEF FutureInv
  <1>9. ~ AtTask(c)' /\ \A d \in Child : d # c => (AtTask(d)' <=> AtTask(d))
    BY <1>4 DEF AtTask
  <1>10. ChildInv'
    BY <1>1, <1>2, <1>3, <1>4, <1>6, <1>9 DEF ChildInv
  <1>11. LimitInv'
    BY <1>1, <1>2, <1>4, <1>6, <1>9 DEF LimitInv, caller, call
  <1>12. FreshInv'
    BY <1>1, <1>2, <1>4, <1>6 DEF FreshInv
  <1>13. CallInv'
    BY <1>1, <1>2, <1>3, <1>5, SteadyCall DEF caller, call
  <1> QED BY <1>6, <1>7, <1>8, <1>10, <1>11, <1>12, <1>13 DEF RunnerInv

\* What a child that has handed in its batch becomes.
LEMMA KeptIs ==
  ASSUME NEW c \in Child, child[c] \in Process
  PROVE  /\ Kept(c) \in Process /\ Kept(c).limit = None
         /\ Kept(c).pc = "none" => Kept(c) = NoChild
         /\ Kept(c).pc = IF mode = "limited" THEN "none" ELSE "idle"
  <1>1. child[c].ran \in Nat
    BY DEF Process
  <1>2. NoChild \in Process /\ NoChild.pc = "none" /\ NoChild.limit = None
    BY NoChildIs
  <1> DEFINE p == [NoChild EXCEPT !.pc = "idle", !.ran = child[c].ran]
  <1>3. p \in Process /\ p.pc = "idle" /\ p.limit = None
    BY <1>1, <1>2 DEF Process
  <1> HIDE DEF p
  <1>4. Kept(c) = IF mode = "limited" THEN NoChild ELSE p
    BY DEF Kept, p
  <1> QED BY <1>2, <1>3, <1>4

\* A child hands in its batch, or an exception.
LEMMA ReportStep ==
  ASSUME RunnerInv, NEW c \in Child, Report(c) \/ Escape(c)
  PROVE  RunnerInv'
  <1>1. Types /\ PlacesInv /\ FutureInv /\ ChildInv /\ LimitInv /\ FreshInv /\ CallInv
    BY DEF RunnerInv
  <1> DEFINE f == child[c].future
  <1>2. /\ AtTask(c) /\ ~broken /\ child' = [child EXCEPT ![c] = Kept(c)]
        /\ UNCHANGED <<caller, phase, failing, call, broken, history>>
    BY DEF Report, Escape, AtTask
  <1>3. AtWork /\ AtWork' /\ phase \in {"submitting", "waiting", "leaving"} /\ phase' = phase
    <2>1. AtWork
      BY <1>2, AtWorkIs DEF AtTask
    <2> QED BY <1>2, <2>1 DEF AtWork
  <1>4. /\ f \in DOMAIN future /\ future[f].state = "taken" /\ Split(future[f].batch, child[c].done, child[c].left)
        /\ \A d \in Child : AtTask(d) /\ d # c => child[d].future # f
    BY <1>1, <1>2 DEF ChildInv
  <1>5. child[c] \in Process /\ child \in [Child -> Process] /\ future \in Seq(Future)
    BY <1>1 DEF Types
  <1>6. /\ child' \in [Child -> Process] /\ \A d \in Child : d # c => child'[d] = child[d]
        /\ child'[c].limit = None /\ (child'[c].pc = "none" => child'[c] = NoChild)
        /\ child'[c].pc = IF mode = "limited" THEN "none" ELSE "idle"
    BY <1>2, <1>5, KeptIs, ChildIs
  <1>7. ~ AtTask(c)' /\ \A d \in Child : d # c => (AtTask(d)' <=> AtTask(d))
    BY <1>6 DEF AtTask
  <1> HIDE DEF f
  <1>8. /\ future' \in Seq(Future) /\ DOMAIN future' = DOMAIN future /\ Len(future') = Len(future)
        /\ \A g \in DOMAIN future : g # f => future'[g] = future[g]
        /\ future'[f].batch = future[f].batch /\ future'[f].state \in {"done", "escaped"}
        /\ future'[f].state = "done" =>
             /\ Split(future[f].batch, future'[f].done, future'[f].rest)
             /\ \A t \in Range(future'[f].rest) : runs[t] = 0
    <2>1. CASE Escape(c)
      <3>1. Set(f, "escaped") /\ "escaped" \in States
        BY <2>1 DEF Escape, States, f
      <3>2. /\ future' \in Seq(Future) /\ DOMAIN future' = DOMAIN future /\ Len(future') = Len(future)
            /\ future'[f].batch = future[f].batch /\ future'[f].state = "escaped"
        BY <1>4, <1>5, <3>1, SetIs
      <3>3. \A g \in DOMAIN future : g # f => future'[g] = future[g]
        BY <1>5, <3>1 DEF Set
      <3> QED BY <3>2, <3>3
    <2>2. CASE Report(c)
      <3> DEFINE n == [future[f] EXCEPT !.state = "done", !.done = child[c].done, !.rest = child[c].left]
      <3>1. future' = [future EXCEPT ![f] = n]
        BY <1>5, <2>2 DEF Report, f
      <3>2. child[c].done \in Seq(Result) /\ child[c].left \in Seq(Task) /\ future[f] \in Future
        BY <1>4, <1>5 DEF Process
      <3>3. /\ n \in Future /\ n.batch = future[f].batch /\ n.state = "done"
            /\ n.done = child[c].done /\ n.rest = child[c].left
        BY <3>2 DEF Future
      <3> HIDE DEF n
      <3>4. /\ future' \in Seq(Future) /\ DOMAIN future' = DOMAIN future /\ Len(future') = Len(future)
            /\ future'[f] = n /\ \A g \in DOMAIN future : g # f => future'[g] = future[g]
        BY <1>4, <1>5, <3>1, <3>3
      <3>5. \A t \in Range(child[c].left) : runs[t] = 0
        BY <1>1, <2>2 DEF FreshInv, Report
      <3> QED BY <1>4, <3>3, <3>4, <3>5
    <2> QED BY <2>1, <2>2
  <1>9. Steady
    <2>1. \A g \in DOMAIN future : future'[g].batch = future[g].batch
                                   /\ ((future'[g].state = "seen") <=> (future[g].state = "seen"))
      BY <1>4, <1>8
    <2> QED BY <1>2, <1>8, <2>1 DEF Steady, call
  <1>10. /\ PlacesInv' /\ Waiting' = Waiting /\ Unseen' = Unseen
         /\ \A g \in DOMAIN future : future'[g].batch = future[g].batch
    BY <1>1, <1>9, SteadyPlaces
  <1>11. Types'
    BY <1>1, <1>2, <1>6, <1>8 DEF Types, caller, call, history
  <1>12. FutureInv'
    <2>1. phase \notin {"raised"} /\ failing' = failing /\ phase' = phase
      BY <1>2, <1>3
    <2>2. \A g \in DOMAIN future' :
            future'[g].state = "done" => Split(future'[g].batch, future'[g].done, future'[g].rest)
      BY <1>1, <1>8 DEF FutureInv
    <2> QED BY <1>1, <1>10, <2>1, <2>2 DEF FutureInv
  <1>13. ChildInv'
    <2>1. ASSUME NEW d \in Child
          PROVE  /\ child'[d].pc = "none" \/ ~AtWork' => child'[d] = NoChild
                 /\ child'[d].pc \in {"idle", "dead"} => child'[d].limit = None
                 /\ child'[d].pc = "busy" => child'[d].left # <<>>
                 /\ AtTask(d)' =>
                      /\ child'[d].future \in DOMAIN future'
                      /\ LET e == future'[child'[d].future] IN
                         /\ e.state \in {"taken", "broken", "seen"} /\ (~broken => e.state = "taken")
                         /\ Split(e.batch, child'[d].done, child'[d].left)
                         /\ Range(e.batch) \cap Waiting = {}
      <3>1. CASE d = c
        BY <1>3, <1>6, <1>7, <3>1
      <3>2. CASE d # c /\ AtTask(d)
        <4>1. child'[d] = child[d] /\ child[d].future # f /\ child[d].future \in DOMAIN future
          BY <1>1, <1>4, <1>6, <3>2 DEF ChildInv
        <4>2. future'[child[d].future] = future[child[d].future]
          BY <1>8, <4>1
        <4> QED BY <1>1, <1>3, <1>8, <3>2, <4>1, <4>2 DEF ChildInv
      <3>3. CASE d # c /\ ~ AtTask(d)
        BY <1>1, <1>3, <1>6, <1>7, <3>3 DEF ChildInv
      <3> QED BY <3>1, <3>2, <3>3
    <2>2. \A d, e \in Child : AtTask(d)' /\ AtTask(e)' /\ d # e => child'[d].future # child'[e].future
      BY <1>1, <1>6, <1>7 DEF ChildInv
    <2>3. broken' = broken
      BY <1>2
    <2> QED BY <1>10, <2>1, <2>2, <2>3 DEF ChildInv
  <1>14. LimitInv'
    <2>1. /\ mode' = mode /\ size' = size /\ deployment' = deployment /\ todo' = todo /\ pending' = pending
      BY <1>2 DEF caller, call
    <2>2. \A g \in Unseen : g \in DOMAIN future
      BY DEF Unseen
    <2> QED BY <1>1, <1>3, <1>6, <1>7, <1>8, <1>10, <2>1, <2>2 DEF LimitInv
  <1>15. FreshInv'
    <2>1. runs' = runs
      BY <1>2 DEF history
    <2>2. \A d \in Child : child'[d].pc \in {"busy", "reporting"} => d # c
      BY <1>7 DEF AtTask
    <2>3. ASSUME NEW g \in DOMAIN future
          PROVE  /\ future'[g].state \in {"unsent", "queued"} => \A t \in Range(future'[g].batch) : runs[t] = 0
                 /\ future'[g].state = "done" => \A t \in Range(future'[g].rest) : runs[t] = 0
      <3>1. CASE g = f
        BY <1>8, <3>1
      <3>2. CASE g # f
        BY <1>1, <1>8, <3>2 DEF FreshInv
      <3> QED BY <3>1, <3>2
    <2> QED BY <1>1, <1>6, <1>8, <1>10, <2>1, <2>2, <2>3 DEF FreshInv
  <1>16. CallInv'
    BY <1>1, <1>2, <1>3, <1>9, SteadyCall DEF caller, call
  <1> QED BY <1>10, <1>11, <1>12, <1>13, <1>14, <1>15, <1>16 DEF RunnerInv

\* The pool is found broken: what runs or is queued in it is lost.
LEMMA BreakStep ==
  ASSUME RunnerInv, BreakPool
  PROVE  RunnerInv'
  <1>1. Types /\ PlacesInv /\ FutureInv /\ ChildInv /\ LimitInv /\ FreshInv /\ CallInv
    BY DEF RunnerInv
  <1>2. /\ ~broken /\ broken' = TRUE /\ child' = child
        /\ UNCHANGED <<caller, phase, failing, call, history>>
        /\ future' = [f \in DOMAIN future |->
                        IF future[f].state \in {"queued", "taken"} THEN [future[f] EXCEPT !.state = "broken"]
                        ELSE future[f]]
    BY DEF BreakPool
  <1>3. AtWork /\ AtWork' /\ phase \in {"submitting", "waiting", "leaving"} /\ phase' = phase
    <2>1. PICK c \in Child : child[c].pc = "dead"
      BY DEF BreakPool
    <2>2. AtWork
      BY <2>1, AtWorkIs
    <2> QED BY <1>2, <2>2 DEF AtWork
  <1>4. /\ future' \in Seq(Future) /\ DOMAIN future' = DOMAIN future /\ Len(future') = Len(future)
        /\ \A f \in DOMAIN future :
             /\ future'[f].batch = future[f].batch /\ future'[f].done = future[f].done
             /\ future'[f].rest = future[f].rest
             /\ future'[f].state = IF future[f].state \in {"queued", "taken"} THEN "broken" ELSE future[f].state
    <2>1. DOMAIN future = 1 .. Len(future) /\ Len(future) \in Nat /\ \A f \in DOMAIN future : future[f] \in Future
      BY <1>1 DEF Types
    <2>2. ASSUME NEW f \in DOMAIN future
          PROVE  /\ future'[f] \in Future
                 /\ future'[f].batch = future[f].batch /\ future'[f].done = future[f].done
                 /\ future'[f].rest = future[f].rest
                 /\ future'[f].state = IF future[f].state \in {"queued", "taken"} THEN "broken" ELSE future[f].state
      <3>1. future[f] \in Future
        BY <2>1
      <3>2. future'[f] = IF future[f].state \in {"queued", "taken"} THEN [future[f] EXCEPT !.state = "broken"]
                         ELSE future[f]
        BY <1>2
      <3> HIDE DEF Batch
      <3>3. CASE future[f].state \in {"queued", "taken"}
        <4>1. "broken" \in States
          BY DEF States
        <4>2. future'[f] = [future[f] EXCEPT !.state = "broken"]
          BY <3>2, <3>3
        <4>3. PICK e : e = future[f] /\ e \in Future
          BY <3>1
        <4>4. /\ [e EXCEPT !.state = "broken"] \in Future
              /\ [e EXCEPT !.state = "broken"].batch = e.batch
              /\ [e EXCEPT !.state = "broken"].done = e.done
              /\ [e EXCEPT !.state = "broken"].rest = e.rest
              /\ [e EXCEPT !.state = "broken"].state = "broken"
          BY <4>1, <4>3 DEF Future, States
        <4>5. (IF future[f].state \in {"queued", "taken"} THEN "broken" ELSE future[f].state) = "broken"
          BY <3>3
        <4> QED BY <4>2, <4>3, <4>4, <4>5
      <3>4. CASE future[f].state \notin {"queued", "taken"}
        BY <3>1, <3>2, <3>4 DEF Future
      <3> QED BY <3>3, <3>4
    <2>3. DOMAIN future' = DOMAIN future /\ future' = [f \in 1 .. Len(future) |-> future'[f]]
      BY <1>2, <2>1
    <2>4. \A f \in 1 .. Len(future) : future'[f] \in Future
      BY <2>1, <2>2
    <2>5. future' \in Seq(Future) /\ Len(future') = Len(future)
      BY <2>1, <2>3, <2>4, SeqOf
    <2> QED BY <2>2, <2>3, <2>5
  <1>5. Steady
    <2>1. \A g \in DOMAIN future : future'[g].batch = future[g].batch
                                   /\ ((future'[g].state = "seen") <=> (future[g].state = "seen"))
      BY <1>4
    <2> QED BY <1>2, <1>4, <2>1 DEF Steady, call
  <1>6. /\ PlacesInv' /\ Waiting' = Waiting /\ Unseen' = Unseen
    BY <1>1, <1>5, SteadyPlaces
  <1>7. Types'
    BY <1>1, <1>2, <1>4 DEF Types, caller, call, history
  <1>8. FutureInv'
    BY <1>1, <1>2, <1>3, <1>4, <1>6 DEF FutureInv
  <1>9. ChildInv'
    <2>1. \A c \in Child : AtTask(c)' <=> AtTask(c)
      BY <1>2 DEF AtTask
    <2> QED BY <1>1, <1>2, <1>3, <1>4, <1>6, <2>1 DEF ChildInv
  <1>10. LimitInv'
    <2>1. /\ mode' = mode /\ size' = size /\ deployment' = deployment /\ todo' = todo /\ pending' = pending
      BY <1>2 DEF caller, call
    <2>2. \A g \in Unseen : g \in DOMAIN future
      BY DEF Unseen
    <2> QED BY <1>1, <1>2, <1>3, <1>4, <1>6, <2>1, <2>2 DEF LimitInv, AtTask
  <1>11. FreshInv'
    BY <1>1, <1>2, <1>4, <1>6 DEF FreshInv, history
  <1>12. CallInv'
    BY <1>1, <1>2, <1>3, <1>5, SteadyCall DEF caller, call
  <1> QED BY <1>6, <1>7, <1>8, <1>9, <1>10, <1>11, <1>12 DEF RunnerInv

\* A child takes a batch that waits in the queue.
LEMMA TakeStep ==
  ASSUME RunnerInv, NEW c \in Child, NEW f \in DOMAIN future, Take(c, f)
  PROVE  RunnerInv'
  <1>1. Types /\ PlacesInv /\ FutureInv /\ ChildInv /\ LimitInv /\ FreshInv /\ CallInv
    BY DEF RunnerInv
  <1> DEFINE batch == future[f].batch
             p == [pc |-> "busy", future |-> f, left |-> batch, done |-> <<>>, ran |-> child[c].ran + 1,
                   limit |-> IF mode = "limited" THEN size ELSE None]
  <1>2. /\ ~broken /\ child[c].pc \in {"none", "idle"} /\ future[f].state = "queued" /\ Set(f, "taken")
        /\ runs' = [runs EXCEPT ![Head(batch)] = @ + 1]
        /\ UNCHANGED <<caller, phase, failing, call, broken, deaths>>
    BY DEF Take
  <1>3. child \in [Child -> Process] /\ child[c] \in Process /\ future \in Seq(Future) /\ future[f] \in Future
    BY <1>1 DEF Types
  <1>4. child' = [child EXCEPT ![c] = p]
    BY <1>3 DEF Take
  <1>5. /\ future' \in Seq(Future) /\ DOMAIN future' = DOMAIN future /\ Len(future') = Len(future)
        /\ \A g \in DOMAIN future :
             /\ future'[g].batch = future[g].batch /\ future'[g].done = future[g].done
             /\ future'[g].rest = future[g].rest
             /\ future'[g].state = IF g = f THEN "taken" ELSE future[g].state
    <2>1. "taken" \in States
      BY DEF States
    <2> QED BY <1>2, <1>3, <2>1, SetIs
  <1>6. f \in Unseen
    BY <1>2 DEF Unseen
  <1>7. AtWork /\ AtWork' /\ phase \in {"submitting", "waiting", "leaving"} /\ phase' = phase
    <2>1. AtWork
      BY <1>1, <1>2, <1>6 DEF FutureInv, AtWork
    <2> QED BY <1>2, <2>1 DEF AtWork
  <1>8. batch \in Batch /\ batch \in Seq(Task) /\ batch # <<>> /\ IsInjective(batch)
    BY <1>3 DEF Future, Batch
  <1>9. Split(batch, <<>>, batch)
    BY <1>8, SplitStart
  <1>10. /\ Head(batch) \in Task /\ Tail(batch) \in Seq(Task)
         /\ Range(batch) = {Head(batch)} \cup Range(Tail(batch)) /\ Head(batch) \notin Range(Tail(batch))
    BY <1>8, HeadTail
  <1>11. /\ p \in Process /\ p.pc = "busy" /\ p.future = f /\ p.left = batch /\ p.done = <<>>
         /\ p.ran = child[c].ran + 1 /\ p.limit = IF mode = "limited" THEN size ELSE None
    <2>1. child[c].ran + 1 \in Nat /\ f \in Nat /\ <<>> \in Seq(Result)
      BY <1>3 DEF Process
    <2>2. (IF mode = "limited" THEN size ELSE None) \in Nat \cup {None}
      BY <1>1 DEF Types
    <2> HIDE DEF batch
    <2> QED BY <1>8, <2>1, <2>2 DEF Process
  <1> HIDE DEF p
  <1>12. /\ child' \in [Child -> Process] /\ child'[c] = p /\ \A d \in Child : d # c => child'[d] = child[d]
    BY <1>3, <1>4, <1>11, ChildIs
  <1>13. AtTask(c)' /\ ~ AtTask(c) /\ \A d \in Child : d # c => (AtTask(d)' <=> AtTask(d))
    BY <1>2, <1>11, <1>12 DEF AtTask
  <1>14. Steady
    <2>1. \A g \in DOMAIN future : future'[g].batch = future[g].batch
                                   /\ ((future'[g].state = "seen") <=> (future[g].state = "seen"))
      BY <1>2, <1>5
    <2> QED BY <1>2, <1>5, <2>1 DEF Steady, call
  <1>15. /\ PlacesInv' /\ Waiting' = Waiting /\ Unseen' = Unseen
    BY <1>1, <1>14, SteadyPlaces
  <1>16. \A d \in Child : AtTask(d) => child[d].future \in DOMAIN future /\ child[d].future # f
    BY <1>1, <1>2 DEF ChildInv
  <1>17. Range(batch) \cap Waiting = {} /\ \A g \in DOMAIN future : g # f => Range(future[g].batch) \cap Range(batch) = {}
    <2>1. Range(batch) \subseteq Out
      BY <1>6, Zenon DEF Out
    <2> QED BY <1>1, <2>1 DEF PlacesInv
  <1> HIDE DEF batch
  <1>18. /\ \A t \in Range(batch) : runs[t] = 0
         /\ runs' \in [Task -> Nat] /\ \A t \in Task : runs'[t] = IF t = Head(batch) THEN 1 ELSE runs[t]
    <2>1. \A t \in Range(batch) : runs[t] = 0
      BY <1>1, <1>2 DEF FreshInv, batch
    <2>2. runs \in [Task -> Nat] /\ runs[Head(batch)] = 0
      BY <1>1, <1>10, <2>1 DEF Types
    <2>3. Head(batch) \in Task /\ runs' = [runs EXCEPT ![Head(batch)] = @ + 1]
      BY <1>2, <1>10
    <2>4. PICK h : h = Head(batch)
      OBVIOUS
    <2>5. /\ runs' \in [Task -> Nat]
          /\ \A t \in Task : runs'[t] = IF t = h THEN 1 ELSE runs[t]
      BY <2>2, <2>3, <2>4
    <2> QED BY <2>1, <2>4, <2>5
  <1>19. Types'
    BY <1>1, <1>2, <1>5, <1>12, <1>18 DEF Types, caller, call
  <1>20. FutureInv'
    BY <1>1, <1>2, <1>5, <1>7, <1>15 DEF FutureInv
  <1>21. ChildInv'
    <2>1. ASSUME NEW d \in Child
          PROVE  /\ child'[d].pc = "none" \/ ~AtWork' => child'[d] = NoChild
                 /\ child'[d].pc \in {"idle", "dead"} => child'[d].limit = None
                 /\ child'[d].pc = "busy" => child'[d].left # <<>>
                 /\ AtTask(d)' =>
                      /\ child'[d].future \in DOMAIN future'
                      /\ LET e == future'[child'[d].future] IN
                         /\ e.state \in {"taken", "broken", "seen"} /\ (~broken => e.state = "taken")
                         /\ Split(e.batch, child'[d].done, child'[d].left)
                         /\ Range(e.batch) \cap Waiting = {}
      <3>1. CASE d = c
        <4>1. future'[f].batch = batch /\ future'[f].state = "taken"
          BY <1>5 DEF batch
        <4> QED BY <1>5, <1>7, <1>8, <1>9, <1>11, <1>12, <1>17, <3>1, <4>1
      <3>2. CASE d # c /\ AtTask(d)
        <4> DEFINE g == child[d].future
        <4>1. child'[d] = child[d] /\ g # f /\ g \in DOMAIN future
          BY <1>12, <1>16, <3>2
        <4>2. future'[g].batch = future[g].batch /\ future'[g].state = future[g].state
          BY <1>5, <4>1
        <4>3. /\ future[g].state \in {"taken", "broken", "seen"} /\ (~broken => future[g].state = "taken")
              /\ Split(future[g].batch, child[d].done, child[d].left) /\ Range(future[g].batch) \cap Waiting = {}
              /\ child[d].pc \in {"busy", "reporting"} /\ (child[d].pc = "busy" => child[d].left # <<>>)
          BY <1>1, <3>2 DEF ChildInv, AtTask
        <4> QED BY <1>5, <1>7, <4>1, <4>2, <4>3
      <3>3. CASE d # c /\ ~ AtTask(d)
        BY <1>1, <1>7, <1>12, <1>13, <3>3 DEF ChildInv
      <3> QED BY <3>1, <3>2, <3>3
    <2>2. \A d, e \in Child : AtTask(d)' /\ AtTask(e)' /\ d # e => child'[d].future # child'[e].future
      BY <1>1, <1>11, <1>12, <1>13, <1>16 DEF ChildInv
    <2>3. broken' = broken
      BY <1>2
    <2> QED BY <1>15, <2>1, <2>2, <2>3 DEF ChildInv
  <1>22. LimitInv'
    <2>1. /\ mode' = mode /\ size' = size /\ deployment' = deployment /\ todo' = todo /\ pending' = pending
      BY <1>2 DEF caller, call
    <2>2. \A g \in Unseen : g \in DOMAIN future
      BY DEF Unseen
    <2>3. mode = "limited" => p.ran + Len(p.left) <= size + 1
      <3>1. SUFFICES ASSUME mode = "limited" PROVE p.ran + Len(p.left) <= size + 1
        OBVIOUS
      <3>2. child[c] = NoChild
        BY <1>1, <1>2, <3>1 DEF LimitInv, ChildInv
      <3>3. p.ran = 1 /\ Len(p.left) <= size
        BY <1>1, <1>6, <1>11, <3>1, <3>2, NoChildIs DEF LimitInv, batch
      <3>4. Len(p.left) \in Nat /\ size \in Nat
        BY <1>1, <1>8, <1>11, <3>1 DEF LimitInv, Types
      <3> QED BY <3>3, <3>4
    <2>4. ASSUME NEW d \in Child
          PROVE  /\ mode = "limited" => child'[d].pc # "idle"
                 /\ AtTask(d)' => child'[d].limit = IF mode = "limited" THEN size ELSE None
                 /\ mode = "limited" /\ child'[d].pc = "busy" => child'[d].ran + Len(child'[d].left) <= size + 1
                 /\ mode = "limited" /\ child'[d].pc = "reporting" => child'[d].ran <= size
      <3>1. CASE d = c
        BY <1>11, <1>12, <2>3, <3>1
      <3>2. CASE d # c
        BY <1>1, <1>12, <1>13, <3>2 DEF LimitInv
      <3> QED BY <3>1, <3>2
    <2> QED BY <1>1, <1>5, <1>7, <1>15, <2>1, <2>2, <2>4 DEF LimitInv
  <1>23. FreshInv'
    <2>1. Waiting \subseteq Task /\ \A g \in DOMAIN future : Range(future[g].batch) \subseteq Task
      BY <1>1, PlacesTyped
    <2>2. \A t \in Waiting' : runs'[t] = 0
      BY <1>1, <1>10, <1>15, <1>17, <1>18, <2>1 DEF FreshInv
    <2>3. \A t \in Task : runs'[t] <= 1
      BY <1>1, <1>18 DEF FreshInv
    <2>4. \A t \in Task : t \notin Range(batch) => runs'[t] = runs[t]
      BY <1>10, <1>18
    <2>5. ASSUME NEW g \in DOMAIN future
          PROVE  /\ future'[g].state \in {"unsent", "queued"} => \A t \in Range(future'[g].batch) : runs'[t] = 0
                 /\ future'[g].state = "done" => \A t \in Range(future'[g].rest) : runs'[t] = 0
      <3>1. CASE g = f
        BY <1>5, <3>1
      <3>2. CASE g # f /\ future[g].state \in {"unsent", "queued"}
        <4>1. \A t \in Range(future[g].batch) : t \in Task /\ t \notin Range(batch) /\ runs[t] = 0
          BY <1>1, <1>17, <2>1, <3>2 DEF FreshInv
        <4> QED BY <1>5, <2>4, <3>2, <4>1
      <3>3. CASE g # f /\ future[g].state = "done"
        <4>1. Range(future[g].rest) \subseteq Range(future[g].batch)
          BY <1>1, <3>3 DEF FutureInv, Split
        <4>2. \A t \in Range(future[g].rest) : t \in Task /\ t \notin Range(batch) /\ runs[t] = 0
          BY <1>1, <1>17, <2>1, <3>3, <4>1 DEF FreshInv
        <4> QED BY <1>5, <2>4, <3>3, <4>2
      <3> QED BY <1>5, <3>1, <3>2, <3>3
    <2>6. ASSUME NEW d \in Child
          PROVE  /\ child'[d].pc = "busy" => \A t \in Range(Tail(child'[d].left)) : runs'[t] = 0
                 /\ child'[d].pc = "reporting" => \A t \in Range(child'[d].left) : runs'[t] = 0
      <3>1. CASE d = c
        <4>1. Range(Tail(batch)) \subseteq Task
          BY <1>10 DEF Range
        <4>2. \A t \in Range(Tail(batch)) : runs'[t] = 0
          BY <1>10, <1>18, <4>1
        <4> QED BY <1>11, <1>12, <3>1, <4>2
      <3>2. CASE d # c /\ AtTask(d)
        <4> DEFINE l == child[d].left
                   g == child[d].future
        <4>1. g \in DOMAIN future /\ g # f /\ Split(future[g].batch, child[d].done, l)
          BY <1>1, <1>16, <3>2 DEF ChildInv
        <4>2. Range(l) \subseteq Range(future[g].batch) /\ IsInjective(l)
          BY <4>1 DEF Split
        <4>3. \A t \in Range(l) : t \in Task /\ runs'[t] = runs[t]
          BY <1>17, <2>1, <2>4, <4>1, <4>2
        <4>4. l \in Seq(Task) /\ (child[d].pc = "busy" => l # <<>>)
          BY <1>1 DEF Types, Process, ChildInv
        <4>5. child[d].pc = "busy" => Range(Tail(l)) \subseteq Range(l)
          BY <4>2, <4>4, HeadTail
        <4>6. child'[d] = child[d]
          BY <1>12, <3>2
        <4> QED BY <1>1, <4>3, <4>5, <4>6 DEF FreshInv
      <3>3. CASE d # c /\ ~ AtTask(d)
        BY <1>12, <3>3 DEF AtTask
      <3> QED BY <3>1, <3>2, <3>3
    <2> QED BY <1>5, <2>2, <2>3, <2>5, <2>6 DEF FreshInv
  <1>24. CallInv'
    BY <1>1, <1>2, <1>7, <1>14, SteadyCall DEF caller, call
  <1> QED BY <1>15, <1>19, <1>20, <1>21, <1>22, <1>23, <1>24 DEF RunnerInv

-----------------------------------------------------------------------------
(* The steps of a caller *)

\* Between two pools nothing is left of the last one.
LEMMA QuietIs ==
  ASSUME RunnerInv, phase \in {"planning", "between", "settled"}
  PROVE  ~failing /\ Unseen = {} /\ Out = {} /\ \A c \in Child : child[c] = NoChild
  <1>1. FutureInv /\ ChildInv
    BY DEF RunnerInv
  <1>2. ~failing
    BY <1>1 DEF FutureInv
  <1>3. Unseen = {}
    BY <1>1, <1>2 DEF FutureInv
  <1>4. \A c \in Child : child[c] = NoChild
    BY <1>1 DEF ChildInv, AtWork
  <1>5. Out = {}
    BY <1>3 DEF Out
  <1> QED BY <1>2, <1>3, <1>4, <1>5

\* A call begins.
LEMMA CallStep ==
  ASSUME RunnerInv, phase \in {"planning", "settled"}, phase' = "between",
         NEW tasks \in SUBSET Task, NEW perChild \in (Nat \ {0}) \cup {None}, NEW batches,
         batches = <<>> \/ Plan(batches, tasks), Call(tasks, perChild, batches),
         deployment.caller = "candidates" => batches = <<>> /\ perChild # None,
         mode # "single" \/ future = <<>>,
         asked' \in SUBSET Task, todo' \in SUBSET Task, todo' # {} => deployment.caller = "candidates",
         UNCHANGED <<deployment, answer, failing, pool, deaths>>
  PROVE  Types' /\ PlacesInv' /\ FutureInv' /\ ChildInv' /\ LimitInv' /\ FreshInv' /\ Goal' = tasks
  <1>1. Types /\ PlacesInv /\ FutureInv /\ ChildInv /\ LimitInv
    BY DEF RunnerInv
  <1>2. ~failing /\ Unseen = {} /\ \A c \in Child : child[c] = NoChild
    BY QuietIs
  <1>3. /\ deployment' = deployment /\ answer' = answer /\ failing' = failing /\ future' = future
        /\ broken' = broken /\ child' = child /\ deaths' = deaths
    BY DEF pool
  <1>4. None \notin Nat
    BY RunnerAssumption
  <1>5. /\ Plan(pending', tasks)
        /\ mode' \in {"explicit", "single", "limited"} /\ size' = perChild
        /\ results' = <<>> /\ runs' \in [Task -> Nat] /\ \A t \in Task : runs'[t] = 0
        /\ mode' = "limited" => perChild # None /\ \A i \in DOMAIN pending' : Len(pending'[i]) <= perChild
        /\ batches = <<>> /\ perChild # None => mode' = "limited"
    BY <1>4, CallIs
  <1>6. Waiting' = tasks /\ Disjoint(pending') /\ pending' \in Seq(Batch)
    BY <1>5 DEF Plan, Waiting
  <1>7. Unseen' = {}
    BY <1>2, <1>3 DEF Unseen
  <1>8. Out' = {}
    BY <1>7 DEF Out
  <1>9. TasksOf(results') = {} /\ OneEach(results') /\ results' \in Seq(Result)
    BY <1>5 DEF TasksOf, Range, OneEach
  <1>10. Goal' = tasks
    BY <1>6, <1>8, <1>9 DEF Goal
  <1>11. Types'
    BY <1>1, <1>3, <1>5, <1>6, <1>9 DEF Types
  <1>12. PlacesInv'
    <2>1. \A f, g \in DOMAIN future : f # g => Range(future[f].batch) \cap Range(future[g].batch) = {}
      BY <1>1 DEF PlacesInv
    <2>2. \A f, g \in DOMAIN future' : f # g => Range(future'[f].batch) \cap Range(future'[g].batch) = {}
      BY <1>3, <2>1
    <2> QED BY <1>6, <1>8, <1>9, <2>2 DEF PlacesInv
  <1>13. FutureInv'
    BY <1>1, <1>2, <1>3, <1>7 DEF FutureInv
  <1>14. ChildInv'
    <2>1. \A c \in Child : child'[c] = NoChild
      BY <1>2, <1>3
    <2> QED BY <2>1, NoChildIs DEF ChildInv, AtTask
  <1>15. LimitInv'
    <2>1. \A c \in Child : child'[c] = NoChild
      BY <1>2, <1>3
    <2>2. Len(future') <= deployment'.workers
      <3>1. Len(<<>>) <= deployment.workers
        BY <1>1, DeploymentIs DEF Types
      <3> QED BY <1>1, <1>3, <3>1 DEF LimitInv
    <2> QED BY <1>3, <1>5, <1>7, <2>1, <2>2, NoChildIs DEF LimitInv, AtTask
  <1>16. FreshInv'
    <2>1. \A c \in Child : child'[c] = NoChild
      BY <1>2, <1>3
    <2>2. \A f \in DOMAIN future' : future'[f].state = "seen"
      BY <1>7 DEF Unseen
    <2> QED BY <1>5, <1>6, <2>1, <2>2, NoChildIs DEF FreshInv
  <1> QED BY <1>10, <1>11, <1>12, <1>13, <1>14, <1>15, <1>16

\* The caller starts.
LEMMA PlanStep ==
  ASSUME RunnerInv, PlanJoin \/ PlanCandidates
  PROVE  RunnerInv'
  <1>1. Types /\ CallInv
    BY DEF RunnerInv
  <1>2. /\ phase = "planning" /\ phase' = "between"
        /\ UNCHANGED <<deployment, answer, failing, pool, deaths>>
    BY DEF PlanJoin, PlanCandidates
  <1>3. /\ pending = <<>> /\ future = <<>> /\ results = <<>> /\ answer = <<>>
        /\ todo = {} /\ asked = {} /\ mode = "single"
    BY <1>1, <1>2 DEF CallInv
  <1>4. deployment \in Deployments
    BY <1>1 DEF Types
  <1>5. /\ 1 .. deployment.tasks \in SUBSET Task /\ deployment.perChild \in (Nat \ {0}) \cup {None}
        /\ deployment.caller = "candidates" => deployment.perChild # None
        /\ deployment.tasks \in Nat \ {0}
    BY <1>4, DeploymentIs
  <1>6. PICK tasks \in SUBSET Task, perChild \in (Nat \ {0}) \cup {None} : \E batches :
           /\ batches = <<>> \/ Plan(batches, tasks)
           /\ Call(tasks, perChild, batches)
           /\ deployment.caller = "candidates" => batches = <<>> /\ perChild # None
           /\ asked' \in SUBSET Task /\ todo' \in SUBSET Task
           /\ todo' # {} => deployment.caller = "candidates"
           /\ tasks \cap todo' = {} /\ tasks \cup todo' = asked'
    <2>1. CASE PlanJoin
      <3>1. deployment.caller = "join" /\ todo' = {}
        BY <1>3, <2>1 DEF PlanJoin
      <3>2. PICK eligible \in SUBSET (1 .. deployment.tasks) : \E dirty \in SUBSET (1 .. deployment.tasks) :
              asked' = dirty /\ Call(dirty, deployment.perChild, Rebound(Planned(eligible), dirty))
        BY <2>1 DEF PlanJoin
      <3>3. PICK dirty \in SUBSET (1 .. deployment.tasks) :
              asked' = dirty /\ Call(dirty, deployment.perChild, Rebound(Planned(eligible), dirty))
        BY <3>2
      <3>4. Rebound(Planned(eligible), dirty) = <<>> \/ Plan(Rebound(Planned(eligible), dirty), dirty)
        <4>1. CASE Planned(eligible) = <<>>
          BY <4>1, ReboundEmpty
        <4>2. CASE Plan(Planned(eligible), 1 .. deployment.tasks)
          <5>1. (1 .. deployment.tasks) \cap dirty = dirty
            OBVIOUS
          <5>2. Plan(Rebound(Planned(eligible), dirty), (1 .. deployment.tasks) \cap dirty)
            BY <4>2, ReboundPlan
          <5> QED BY <5>1, <5>2
        <4> QED BY <1>4, <4>1, <4>2, PlannedPlan
      <3>5. dirty \in SUBSET Task
        BY <1>5
      <3> QED BY <1>5, <3>1, <3>3, <3>4, <3>5
    <2>2. CASE PlanCandidates
      <3>1. deployment.caller = "candidates" /\ asked' = 1 .. deployment.tasks
        BY <2>2 DEF PlanCandidates
      <3>2. CASE deployment.calibrate /\ deployment.tasks > 1
        <4>1. Call({1}, 1, <<>>) /\ todo' = 2 .. deployment.tasks
          BY <2>2, <3>2 DEF PlanCandidates
        <4>2. {1} \cup (2 .. deployment.tasks) = 1 .. deployment.tasks /\ {1} \cap (2 .. deployment.tasks) = {}
          BY <1>5
        <4>3. {1} \in SUBSET Task /\ 2 .. deployment.tasks \in SUBSET Task
          BY <1>5, <4>2
        <4>4. 1 \in (Nat \ {0}) \cup {None} /\ 1 # None
          BY RunnerAssumption
        <4> QED BY <3>1, <4>1, <4>2, <4>3, <4>4
      <3>3. CASE ~(deployment.calibrate /\ deployment.tasks > 1)
        <4>1. Call(asked', deployment.perChild, <<>>) /\ todo' = {}
          BY <2>2, <3>3 DEF PlanCandidates
        <4>2. Call(1 .. deployment.tasks, deployment.perChild, <<>>)
          BY <3>1, <4>1
        <4> QED BY <1>5, <3>1, <4>1, <4>2
      <3> QED BY <3>2, <3>3
    <2> QED BY <2>1, <2>2
  <1>7. PICK batches :
           /\ batches = <<>> \/ Plan(batches, tasks)
           /\ Call(tasks, perChild, batches)
           /\ deployment.caller = "candidates" => batches = <<>> /\ perChild # None
           /\ asked' \in SUBSET Task /\ todo' \in SUBSET Task
           /\ todo' # {} => deployment.caller = "candidates"
           /\ tasks \cap todo' = {} /\ tasks \cup todo' = asked'
    BY <1>6
  <1>8. Types' /\ PlacesInv' /\ FutureInv' /\ ChildInv' /\ LimitInv' /\ FreshInv' /\ Goal' = tasks
    BY <1>2, <1>3, <1>7, CallStep
  <1>9. TasksOf(answer') = {} /\ OneEach(answer')
    BY <1>2, <1>3 DEF TasksOf, Range, OneEach
  <1>10. CallInv'
    BY <1>2, <1>7, <1>8, <1>9 DEF CallInv, AtWork
  <1> QED BY <1>8, <1>10 DEF RunnerInv

\* The tasks after the calibration, and those that are tried again.
LEMMA AgainStep ==
  ASSUME RunnerInv, CallRemaining \/ Retry
  PROVE  RunnerInv'
  <1>1. Types /\ LimitInv /\ CallInv
    BY DEF RunnerInv
  <1>2. /\ phase = "settled" /\ phase' = "between"
        /\ UNCHANGED <<deployment, answer, failing, pool, deaths>> /\ asked' = asked /\ todo' = {}
    BY DEF CallRemaining, Retry, caller
  <1>3. deployment.caller = "candidates"
    BY <1>1 DEF CallRemaining, Retry, MayRetry, LimitInv
  <1>4. mode # "single" /\ size # None
    BY <1>1, <1>2, <1>3 DEF LimitInv
  <1>5. deployment.perChild \in Nat \ {0}
    <2>1. deployment \in Deployments
      BY <1>1 DEF Types
    <2> QED BY <1>3, <2>1, DeploymentIs
  <1>6. TasksOf(answer) \cup todo = asked /\ asked \in SUBSET Task /\ todo \in SUBSET Task
        /\ OneEach(answer) /\ todo \cap TasksOf(answer) = {}
    BY <1>1, <1>2 DEF CallInv, Types
  <1>7. None \notin Nat
    BY RunnerAssumption
  <1>8. ASSUME NEW tasks \in SUBSET Task, NEW perChild \in Nat \ {0}, Call(tasks, perChild, <<>>)
        PROVE  Types' /\ PlacesInv' /\ FutureInv' /\ ChildInv' /\ LimitInv' /\ FreshInv' /\ Goal' = tasks
    <2>1. perChild # None /\ perChild \in (Nat \ {0}) \cup {None}
      BY <1>7
    <2> DEFINE batches == <<>>
    <2>2. batches = <<>> /\ Call(tasks, perChild, batches)
      BY <1>8
    <2> HIDE DEF batches
    <2>3. asked' \in SUBSET Task /\ todo' \in SUBSET Task
      BY <1>2, <1>6
    <2> QED BY <1>2, <1>4, <2>1, <2>2, <2>3, CallStep
  <1>9. TasksOf(answer') = TasksOf(answer) /\ OneEach(answer') /\ answer' = answer
    BY <1>2, <1>6
  <1>10. CASE CallRemaining
    <2>1. Call(todo, deployment.perChild, <<>>)
      BY <1>10 DEF CallRemaining
    <2>2. Types' /\ PlacesInv' /\ FutureInv' /\ ChildInv' /\ LimitInv' /\ FreshInv' /\ Goal' = todo
      BY <1>5, <1>6, <1>8, <2>1
    <2>3. CallInv'
      <3>1. Goal' \cap TasksOf(answer') = {} /\ Goal' \cap todo' = {}
            /\ Goal' \cup TasksOf(answer') \cup todo' = asked' /\ todo' \cap TasksOf(answer') = {} /\ todo' \subseteq asked'
        BY <1>2, <1>6, <1>9, <2>2
      <3> QED BY <1>2, <1>9, <3>1 DEF CallInv, AtWork
    <2> QED BY <2>2, <2>3 DEF RunnerInv
  <1>11. CASE Retry
    <2>1. Call(Retryable, Larger(1, size \div 2), <<>>) /\ todo = {}
      BY <1>11 DEF Retry
    <2>2. Larger(1, size \div 2) \in Nat \ {0}
      <3>1. size \in Nat \ {0}
        BY <1>1, <1>4 DEF Types
      <3> QED BY <3>1 DEF Larger
    <2>3. Retryable \subseteq TasksOf(answer)
      BY DEF Retryable, TasksOf
    <2>4. Retryable \in SUBSET Task
      BY <1>6, <2>3
    <2>5. Types' /\ PlacesInv' /\ FutureInv' /\ ChildInv' /\ LimitInv' /\ FreshInv' /\ Goal' = Retryable
      BY <1>8, <2>1, <2>2, <2>4
    <2>6. \A r \in Range(answer) : r.task \in Retryable => r.kind \in {"abnormal", "memory"}
      <3>1. SUFFICES ASSUME NEW r \in Range(answer), r.task \in Retryable PROVE r.kind \in {"abnormal", "memory"}
        OBVIOUS
      <3>2. PICK q \in Range(answer) : q.kind \in {"abnormal", "memory"} /\ q.task = r.task
        BY <3>1 DEF Retryable
      <3>3. PICK i \in DOMAIN answer : r = answer[i]
        BY Zenon DEF Range
      <3>4. PICK j \in DOMAIN answer : q = answer[j]
        BY Zenon DEF Range
      <3>5. i = j
        BY <1>6, <3>2, <3>3, <3>4 DEF OneEach
      <3> QED BY <3>2, <3>3, <3>4, <3>5
    <2>7. CallInv'
      <3>1. TasksOf(answer') = asked' /\ Goal' \subseteq asked' /\ todo' = {}
        BY <1>2, <1>6, <1>9, <2>1, <2>3, <2>5
      <3>2. \A r \in Range(answer') : r.task \in Goal' => r.kind \in {"abnormal", "memory"}
        BY <1>9, <2>5, <2>6
      <3> QED BY <1>2, <1>9, <3>1, <3>2 DEF CallInv, AtWork
    <2> QED BY <2>5, <2>7 DEF RunnerInv
  <1> QED BY <1>10, <1>11

\* A result that replaces another is one of its task.
LEMMA OfIs ==
  ASSUME NEW s \in Seq(Result), NEW t \in TasksOf(s)
  PROVE  Of(t, s) \in Range(s) /\ Of(t, s) \in Result /\ Of(t, s).task = t
  <1>1. \E r \in Range(s) : r.task = t
    BY DEF TasksOf
  <1>2. Of(t, s) \in Range(s) /\ Of(t, s).task = t
    BY <1>1 DEF Of
  <1>3. Range(s) \subseteq Result
    BY DEF Range
  <1> QED BY <1>2, <1>3

\* The results of a call become part of the answer.
Merged(a, s) == [i \in DOMAIN a |-> IF a[i].task \in TasksOf(s) THEN Of(a[i].task, s) ELSE a[i]]

LEMMA MergedIs ==
  ASSUME NEW a \in Seq(Result), OneEach(a), NEW s \in Seq(Result)
  PROVE  /\ Merged(a, s) \in Seq(Result) /\ OneEach(Merged(a, s)) /\ TasksOf(Merged(a, s)) = TasksOf(a)
         /\ \A r \in Range(a) : r.task \notin TasksOf(s) => r \in Range(Merged(a, s))
  <1> DEFINE m == Merged(a, s)
  <1>1. DOMAIN m = DOMAIN a /\ DOMAIN a = 1 .. Len(a) /\ Len(a) \in Nat /\ m = [i \in 1 .. Len(a) |-> m[i]]
    BY DEF Merged
  <1>2. ASSUME NEW i \in DOMAIN a PROVE m[i] \in Result /\ m[i].task = a[i].task
    <2>1. a[i] \in Result /\ m[i] = IF a[i].task \in TasksOf(s) THEN Of(a[i].task, s) ELSE a[i]
      BY DEF Merged
    <2> QED BY <2>1, OfIs
  <1>3. \A i \in DOMAIN a : a[i].task \notin TasksOf(s) => m[i] = a[i]
    BY DEF Merged
  <1> HIDE DEF m
  <1>4. m \in Seq(Result)
    BY <1>1, <1>2, SeqOf
  <1>5. OneEach(m)
    BY <1>1, <1>2 DEF OneEach
  <1>6. TasksOf(m) = TasksOf(a)
    <2>1. ASSUME NEW x PROVE x \in TasksOf(m) <=> x \in TasksOf(a)
      <3>1. x \in TasksOf(m) <=> \E i \in DOMAIN m : x = m[i].task
        BY TasksIs
      <3>2. x \in TasksOf(a) <=> \E i \in DOMAIN a : x = a[i].task
        BY TasksIs
      <3> QED BY <1>1, <1>2, <3>1, <3>2
    <2> QED BY <2>1
  <1>7. ASSUME NEW r \in Range(a), r.task \notin TasksOf(s) PROVE r \in Range(m)
    <2>1. PICK i \in DOMAIN a : r = a[i]
      BY Zenon DEF Range
    <2>2. m[i] = r
      BY <1>3, <1>7, <2>1
    <2> QED BY <1>1, <2>2, Zenon DEF Range
  <1> QED BY <1>4, <1>5, <1>6, <1>7 DEF m

\* The end of a call.
LEMMA SettleIs ==
  ASSUME RunnerInv, Settle
  PROVE  /\ answer' \in Seq(Result) /\ OneEach(answer')
         /\ TasksOf(answer') \cup todo = asked /\ todo \cap TasksOf(answer') = {}
         /\ \A r \in Range(answer) : r.kind \notin {"abnormal", "memory"} => r \in Range(answer')
  <1>1. Types /\ PlacesInv /\ CallInv /\ phase = "between" /\ pending = <<>>
    BY DEF RunnerInv, Settle
  <1>2. answer' = IF TasksOf(results) \subseteq TasksOf(answer) THEN Merged(answer, results) ELSE answer \o results
    BY DEF Settle, Merged
  <1>3. Goal = TasksOf(results)
    <2>1. Out = {}
      BY <1>1, QuietIs
    <2>2. Waiting = {}
      BY <1>1, EmptyPlan DEF Waiting, Plan
    <2> QED BY <2>1, <2>2 DEF Goal
  <1>4. answer \in Seq(Result) /\ results \in Seq(Result) /\ OneEach(answer) /\ OneEach(results)
        /\ todo \cap TasksOf(answer) = {}
    BY <1>1 DEF Types, PlacesInv, CallInv
  <1>5. /\ Merged(answer, results) \in Seq(Result) /\ OneEach(Merged(answer, results))
        /\ TasksOf(Merged(answer, results)) = TasksOf(answer)
        /\ \A r \in Range(answer) : r.task \notin TasksOf(results) => r \in Range(Merged(answer, results))
    BY <1>4, MergedIs
  <1>6. \/ /\ Goal \cap TasksOf(answer) = {} /\ Goal \cap todo = {}
           /\ Goal \cup TasksOf(answer) \cup todo = asked
        \/ /\ todo = {} /\ TasksOf(answer) = asked /\ Goal \subseteq asked
           /\ \A r \in Range(answer) : r.task \in Goal => r.kind \in {"abnormal", "memory"}
    BY <1>1 DEF CallInv
  <1> DEFINE new == TasksOf(results)
  <1> HIDE DEF new, Goal
  <1>7. CASE /\ Goal \cap TasksOf(answer) = {} /\ Goal \cap todo = {}
             /\ Goal \cup TasksOf(answer) \cup todo = asked
    <2>1. CASE new \subseteq TasksOf(answer)
      <3>1. answer' = Merged(answer, results)
        BY <1>2, <2>1 DEF new
      <3>2. new = {}
        BY <1>3, <1>7, <2>1 DEF new
      <3>3. TasksOf(answer) \cup todo = asked
        BY <1>3, <1>7, <3>2 DEF new
      <3> QED BY <1>4, <1>5, <3>1, <3>2, <3>3 DEF new
    <2>2. CASE ~(new \subseteq TasksOf(answer))
      <3>1. answer' = answer \o results
        BY <1>2, <2>2 DEF new
      <3>2. TasksOf(answer) \cap TasksOf(results) = {}
        BY <1>3, <1>7
      <3>3. /\ answer' \in Seq(Result) /\ OneEach(answer') /\ TasksOf(answer') = TasksOf(answer) \cup TasksOf(results)
            /\ \A r \in Range(answer) : r \in Range(answer')
        BY <1>4, <3>1, <3>2, ConcatResults
      <3> QED BY <1>3, <1>4, <1>7, <3>3
    <2> QED BY <2>1, <2>2
  <1>8. CASE /\ todo = {} /\ TasksOf(answer) = asked /\ Goal \subseteq asked
             /\ \A r \in Range(answer) : r.task \in Goal => r.kind \in {"abnormal", "memory"}
    <2>1. answer' = Merged(answer, results)
      BY <1>2, <1>3, <1>8
    <2>2. \A r \in Range(answer) : r.kind \notin {"abnormal", "memory"} => r.task \notin TasksOf(results)
      BY <1>3, <1>8
    <2> QED BY <1>5, <1>8, <2>1, <2>2
  <1> QED BY <1>6, <1>7, <1>8

LEMMA SettleStep ==
  ASSUME RunnerInv, Settle \/ Return
  PROVE  RunnerInv'
  <1>1. Types /\ PlacesInv /\ FutureInv /\ ChildInv /\ LimitInv /\ FreshInv /\ CallInv
    BY DEF RunnerInv
  <1>2. /\ phase \in {"between", "settled"} /\ phase' \in {"settled", "returned"}
        /\ UNCHANGED <<deployment, asked, failing, call, pool, history>>
    BY DEF Settle, Return, caller
  <1>3. Steady
    BY <1>2 DEF Steady, call, pool
  <1>4. /\ PlacesInv' /\ Waiting' = Waiting /\ Unseen' = Unseen
    BY <1>1, <1>3, SteadyPlaces
  <1>5. ~failing /\ Unseen = {} /\ \A c \in Child : child[c] = NoChild
    BY <1>2, QuietIs
  <1>6. /\ answer' \in Seq(Result) /\ OneEach(answer')
        /\ TasksOf(answer') \cup todo = asked /\ todo \cap TasksOf(answer') = {}
        /\ pending = <<>>
    <2>1. CASE Settle
      <3>1. pending = <<>>
        BY <2>1 DEF Settle
      <3> QED BY <2>1, <3>1, SettleIs
    <2>2. CASE Return
      <3>1. phase = "settled" /\ answer' = answer
        BY <2>2 DEF Return, caller
      <3> QED BY <1>1, <3>1 DEF CallInv, Types
    <2> QED BY <2>1, <2>2
  <1>7. Types'
    BY <1>1, <1>2, <1>6 DEF Types, call, pool, history
  <1>8. FutureInv'
    BY <1>1, <1>2, <1>4, <1>5 DEF FutureInv, pool
  <1>9. ChildInv'
    <2>1. \A c \in Child : child'[c] = NoChild
      BY <1>2, <1>5 DEF pool
    <2> QED BY <2>1, NoChildIs DEF ChildInv, AtTask
  <1>10. LimitInv'
    BY <1>1, <1>2, <1>4 DEF LimitInv, AtTask, call, pool
  <1>11. FreshInv'
    BY <1>1, <1>2, <1>4 DEF FreshInv, pool, history
  <1>12. CallInv'
    <2>1. phase' = "returned" => todo = {}
      BY DEF Settle, Return
    <2>2. todo' = todo /\ asked' = asked /\ pending' = pending /\ todo \subseteq asked
      BY <1>1, <1>2 DEF call, CallInv
    <2> QED BY <1>2, <1>6, <2>1, <2>2 DEF CallInv, AtWork
  <1> QED BY <1>4, <1>7, <1>8, <1>9, <1>10, <1>11, <1>12 DEF RunnerInv

-----------------------------------------------------------------------------
(* The invariant *)

LEMMA InitStep == Init => RunnerInv
  <1> SUFFICES ASSUME Init PROVE RunnerInv
    OBVIOUS
  <1>1. /\ deployment \in Deployments /\ phase = "planning" /\ failing = FALSE
        /\ mode = "single" /\ size = None /\ asked = {} /\ todo = {}
        /\ pending = <<>> /\ future = <<>> /\ broken = FALSE
        /\ child = [c \in Child |-> NoChild] /\ results = <<>> /\ answer = <<>>
        /\ runs = [t \in Task |-> 0] /\ deaths = 0
    BY DEF Init
  <1>2. /\ deployment.caller \in {"join", "candidates"} /\ deployment.deaths \in Nat /\ deployment.workers \in Nat
        /\ \A c \in Child : child[c] = NoChild
    BY <1>1, DeploymentIs
  <1>3. DOMAIN future = {} /\ DOMAIN results = {} /\ DOMAIN answer = {} /\ Len(future) = 0
    BY <1>1
  <1>4. Plan(pending, {})
    BY <1>1, EmptyPlan
  <1>5. Waiting = {} /\ Unseen = {} /\ Out = {} /\ TasksOf(results) = {} /\ TasksOf(answer) = {}
    <2>1. Waiting = {}
      BY <1>4 DEF Plan, Waiting
    <2>2. Unseen = {}
      BY <1>3 DEF Unseen
    <2>3. Out = {}
      BY <2>2 DEF Out
    <2> QED BY <1>3, <2>1, <2>2, <2>3 DEF TasksOf, Range
  <1>6. Types
    <2>1. child \in [Child -> Process]
      BY <1>1, NoChildIs
    <2>2. pending \in Seq(Batch) /\ future \in Seq(Future) /\ results \in Seq(Result) /\ answer \in Seq(Result)
      BY <1>1
    <2>3. failing \in BOOLEAN /\ broken \in BOOLEAN
      BY <1>1, Zenon
    <2>4. runs \in [Task -> Nat] /\ deaths \in 0 .. deployment.deaths
      BY <1>1, <1>2
    <2>5. /\ deployment \in Deployments /\ phase \in {"planning", "between", "submitting", "waiting", "leaving", "settled", "returned", "raised"}
          /\ mode \in {"explicit", "single", "limited"} /\ size \in (Nat \ {0}) \cup {None}
          /\ asked \in SUBSET Task /\ todo \in SUBSET Task
      BY <1>1
    <2> QED BY <2>1, <2>2, <2>3, <2>4, <2>5 DEF Types
  <1>7. PlacesInv
    BY <1>3, <1>4, <1>5 DEF PlacesInv, Plan, OneEach
  <1>8. FutureInv
    BY <1>1, <1>3, <1>5 DEF FutureInv
  <1>9. ChildInv
    BY <1>2, NoChildIs DEF ChildInv, AtTask
  <1>10. LimitInv
    BY <1>1, <1>2, <1>3, <1>5, NoChildIs DEF LimitInv, AtTask
  <1>11. FreshInv
    BY <1>1, <1>2, <1>3, <1>5, NoChildIs DEF FreshInv
  <1>12. CallInv
    BY <1>1, <1>3, <1>5 DEF CallInv, OneEach, AtWork
  <1> QED BY <1>6, <1>7, <1>8, <1>9, <1>10, <1>11, <1>12 DEF RunnerInv

LEMMA StutterStep ==
  ASSUME RunnerInv, UNCHANGED vars
  PROVE  RunnerInv'
  <1>1. Types /\ PlacesInv /\ FutureInv /\ ChildInv /\ LimitInv /\ FreshInv /\ CallInv
    BY DEF RunnerInv
  <1>2. /\ deployment' = deployment /\ phase' = phase /\ failing' = failing /\ mode' = mode /\ size' = size
        /\ asked' = asked /\ todo' = todo /\ pending' = pending /\ future' = future /\ broken' = broken
        /\ child' = child /\ results' = results /\ answer' = answer /\ runs' = runs /\ deaths' = deaths
    BY DEF vars, caller, call, pool, history
  <1>3. Waiting' = Waiting /\ Unseen' = Unseen
    BY <1>2 DEF Waiting, Unseen
  <1>4. Out' = Out
    BY <1>2, <1>3 DEF Out
  <1>5. Goal' = Goal
    BY <1>2, <1>3, <1>4 DEF Goal
  <1>6. Types'
    BY <1>1, <1>2 DEF Types
  <1>7. PlacesInv'
    BY <1>1, <1>2, <1>3, <1>4 DEF PlacesInv
  <1>8. FutureInv'
    BY <1>1, <1>2, <1>3 DEF FutureInv
  <1>9. ChildInv'
    BY <1>1, <1>2, <1>3 DEF ChildInv, AtWork, AtTask
  <1>10. LimitInv'
    BY <1>1, <1>2, <1>3 DEF LimitInv, AtTask
  <1>11. FreshInv'
    BY <1>1, <1>2, <1>3 DEF FreshInv
  <1>12. CallInv'
    BY <1>1, <1>2, <1>5 DEF CallInv, AtWork
  <1> QED BY <1>6, <1>7, <1>8, <1>9, <1>10, <1>11, <1>12 DEF RunnerInv

LEMMA NextStep ==
  ASSUME RunnerInv, [Next]_vars
  PROVE  RunnerInv'
  <1>1. CASE Calling
    <2>1. ASSUME NEW f \in DOMAIN future, HarvestDone(f) \/ HarvestBroken(f) \/ HarvestRaises(f) PROVE RunnerInv'
      BY <2>1, HarvestStep, RaiseStep
    <2> QED
      BY <1>1, <2>1, PlanStep, BeginStep, SubmitStep, RaiseStep, LeaveStep, SettleStep, AgainStep DEF Calling
  <1>2. ASSUME NEW c \in Child, Running(c) PROVE RunnerInv'
    <2>1. ASSUME NEW f \in DOMAIN future, Take(c, f) PROVE RunnerInv'
      BY <2>1, TakeStep
    <2>2. ASSUME NEW kind \in {"ok", "failed", "memory"}, EndTask(c, kind) \/ EndBatch(c, kind) \/ Recycle(c, kind)
          PROVE  RunnerInv'
      <3>1. kind \in Kind
        BY DEF Kind
      <3> QED BY <2>2, <3>1, EndStep
    <2>3. CASE Report(c) \/ Terminate(c)
      BY <2>3, ReportStep, GoneStep
    <2> QED BY <1>2, <2>1, <2>2, <2>3 DEF Running
  <1>3. ASSUME NEW c \in Child, Escape(c) \/ Die(c) PROVE RunnerInv'
    BY <1>3, ReportStep, GoneStep
  <1>4. CASE BreakPool
    BY <1>4, BreakStep
  <1>5. CASE UNCHANGED vars
    BY <1>5, StutterStep
  <1> QED BY <1>1, <1>2, <1>3, <1>4, <1>5 DEF Next, Progress

LEMMA RunnerInvHolds == Spec => []RunnerInv
  <1>1. RunnerInv /\ [Next]_vars => RunnerInv'
    BY NextStep
  <1> QED BY <1>1, InitStep, PTL DEF Spec

-----------------------------------------------------------------------------
(* What it shows *)

\* Every variable keeps its type, and a pool that runs batches never has more children than there
\* are workers (run_tasks_in_subprocesses).
THEOREM RunnerTypeCorrect == Spec => []TypeOK
  <1>1. RunnerInv => TypeOK
    <2> SUFFICES ASSUME RunnerInv PROVE TypeOK
      OBVIOUS
    <2>1. Types /\ LimitInv /\ CallInv
      BY DEF RunnerInv
    <2>2. \A f \in DOMAIN future : future[f] \in Future
      BY <2>1 DEF Types
    <2>3. \A c \in Child : child[c] \in Process
      BY <2>1 DEF Types
    <2>4. Range(results) \subseteq Result /\ Range(answer) \subseteq Result
      BY <2>1 DEF Types, Range
    <2>5. deaths \in 0 .. MaxDeaths
      <3>1. deployment.deaths \in Nat /\ deployment.deaths <= MaxDeaths /\ MaxDeaths \in Nat
        BY <2>1, DeploymentIs, RunnerAssumption DEF Types
      <3> QED BY <2>1, <3>1 DEF Types
    <2> QED BY <2>1, <2>2, <2>3, <2>4, <2>5 DEF TypeOK, Types, LimitInv, CallInv, Future, Process
  <1> QED BY <1>1, RunnerInvHolds, PTL

LEMMA CountTasks ==
  ASSUME NEW s \in Seq(Result), OneEach(s)
  PROVE  Len(s) = Cardinality(TasksOf(s))
  <1> DEFINE n == Len(s)
             T == TasksOf(s)
             f == [i \in 1 .. n |-> s[i].task]
  <1>1. n \in Nat /\ DOMAIN s = 1 .. n
    OBVIOUS
  <1>2. \A x : x \in T <=> \E i \in 1 .. n : x = s[i].task
    BY <1>1, TasksIs
  <1>3. \A i, j \in 1 .. n : s[i].task = s[j].task => i = j
    BY <1>1 DEF OneEach
  <1> HIDE DEF n, T
  <1>4. f \in Bijection(1 .. n, T)
    BY <1>2, <1>3 DEF Bijection, Injection, Surjection, IsInjective
  <1>5. ExistsBijection(1 .. n, T)
    BY <1>4 DEF ExistsBijection
  <1>6. Cardinality(T) = n
    BY <1>1, <1>5, FS_CountingElements
  <1> QED BY <1>6 DEF n, T

LEMMA OneResultHolds == RunnerInv => OneResultEach
  <1> SUFFICES ASSUME RunnerInv, phase = "returned"
               PROVE  Len(answer) = Cardinality(asked) /\ TasksOf(answer) = asked
    BY DEF OneResultEach
  <1>1. answer \in Seq(Result) /\ OneEach(answer) /\ TasksOf(answer) \cup todo = asked /\ todo = {}
    BY DEF RunnerInv, Types, CallInv
  <1>2. Len(answer) = Cardinality(TasksOf(answer))
    BY <1>1, CountTasks
  <1> QED BY <1>1, <1>2

LEMMA NeverTwiceHolds == RunnerInv => NeverTwiceAtOnce
  <1> SUFFICES ASSUME RunnerInv, NEW c \in Child, NEW d \in Child,
                      child[c].pc = "busy", child[d].pc = "busy", c # d
               PROVE  Head(child[c].left) # Head(child[d].left)
    BY DEF NeverTwiceAtOnce
  <1>1. Types /\ PlacesInv /\ ChildInv
    BY DEF RunnerInv
  <1> DEFINE f == child[c].future
             g == child[d].future
  <1>2. AtTask(c) /\ AtTask(d)
    BY DEF AtTask
  <1>3. f \in DOMAIN future /\ g \in DOMAIN future /\ f # g
    BY <1>1, <1>2 DEF ChildInv
  <1>4. Split(future[f].batch, child[c].done, child[c].left) /\ child[c].left # <<>>
    BY <1>1, <1>2 DEF ChildInv
  <1>5. Split(future[g].batch, child[d].done, child[d].left) /\ child[d].left # <<>>
    BY <1>1, <1>2 DEF ChildInv
  <1>6. child[c].left \in Seq(Task) /\ child[d].left \in Seq(Task)
    <2>1. child[c] \in Process /\ child[d] \in Process
      BY <1>1 DEF Types
    <2> QED BY <2>1 DEF Process
  <1>7. Range(future[f].batch) \cap Range(future[g].batch) = {}
    BY <1>1, <1>3 DEF PlacesInv
  <1>8. Head(child[c].left) \in Range(child[c].left)
    BY <1>4, <1>6, HeadTail DEF Split
  <1>9. Head(child[d].left) \in Range(child[d].left)
    BY <1>5, <1>6, HeadTail DEF Split
  <1> QED BY <1>4, <1>5, <1>7, <1>8, <1>9 DEF Split

LEMMA FreshHolds == RunnerInv => ChildStaysFresh
  <1> SUFFICES ASSUME RunnerInv, NEW c \in Child, child[c].limit # None PROVE child[c].ran <= child[c].limit
    BY DEF ChildStaysFresh
  <1>1. Types /\ ChildInv /\ LimitInv
    BY DEF RunnerInv
  <1>2. child[c] \in Process
    BY <1>1 DEF Types
  <1>3. child[c].pc \notin {"none", "idle", "dead"}
    BY <1>1, NoChildIs DEF ChildInv
  <1>4. AtTask(c)
    BY <1>2, <1>3 DEF Process, AtTask
  <1>5. mode = "limited" /\ child[c].limit = size /\ size # None
    BY <1>1, <1>4 DEF LimitInv
  <1>6. size \in Nat
    BY <1>1, <1>5 DEF Types
  <1>7. CASE child[c].pc = "busy"
    <2>1. child[c].ran + Len(child[c].left) <= size + 1 /\ child[c].left # <<>>
      BY <1>1, <1>5, <1>7 DEF LimitInv, ChildInv
    <2>2. child[c].ran \in Nat /\ child[c].left \in Seq(Task)
      BY <1>2 DEF Process
    <2>3. Len(child[c].left) \in Nat /\ Len(child[c].left) # 0
      BY <2>1, <2>2
    <2> QED BY <1>5, <1>6, <2>1, <2>2, <2>3
  <1>8. CASE child[c].pc = "reporting"
    BY <1>1, <1>5, <1>8 DEF LimitInv
  <1> QED BY <1>4, <1>7, <1>8 DEF AtTask

\* However batches are planned, cut at the memory limit, lost with their pool and tried again: the
\* caller gets one result for each of its tasks, no call starts a task twice, no task runs in two
\* children at once, and a child with max_tasks_per_child never runs more (run_tasks_in_subprocesses
\* with the join producer and the candidate sidecars).
THEOREM TasksRunExactlyOnce == Spec => []ExactlyOnce
  <1>1. RunnerInv => RunsOnce
    BY DEF RunnerInv, FreshInv, RunsOnce
  <1>2. RunnerInv => ExactlyOnce
    BY <1>1, OneResultHolds, NeverTwiceHolds, FreshHolds DEF ExactlyOnce
  <1> QED BY <1>2, RunnerInvHolds, PTL

\* A success that a caller has is never replaced by the outcome of a later call
\* (run_candidate_sidecars_in_subprocesses: the results of a retry replace those of its tasks).
THEOREM SuccessIsKept == Spec => SuccessStays
  <1>1. RunnerInv /\ [Next]_vars => [\A r \in Range(answer) : r.kind = "ok" => r \in Range(answer')]_vars
    <2> SUFFICES ASSUME RunnerInv, Next, NEW r \in Range(answer), r.kind = "ok" PROVE r \in Range(answer')
      OBVIOUS
    <2>1. CASE Settle
      BY <2>1, SettleIs
    <2>2. CASE ~Settle
      <3>1. answer' = answer
        <4>1. CASE Calling
          <5>1. CASE PlanJoin
            BY <5>1 DEF PlanJoin
          <5>2. CASE PlanCandidates
            BY <5>2 DEF PlanCandidates
          <5>3. CASE BeginGeneration
            BY <5>3 DEF BeginGeneration, caller
          <5>4. CASE Submit \/ SubmitRaises
            BY <5>4 DEF Submit, SubmitRaises, caller
          <5>5. CASE LeavePool \/ CallRemaining \/ Retry \/ Return
            BY <5>5 DEF LeavePool, CallRemaining, Retry, Return, Closed, caller
          <5>6. ASSUME NEW f \in DOMAIN future, HarvestDone(f) \/ HarvestBroken(f) \/ HarvestRaises(f)
                PROVE  answer' = answer
            BY <5>6 DEF HarvestDone, HarvestBroken, HarvestRaises, caller
          <5> QED BY <2>2, <4>1, <5>1, <5>2, <5>3, <5>4, <5>5, <5>6 DEF Calling
        <4>2. CASE BreakPool
          BY <4>2 DEF BreakPool, caller
        <4>3. ASSUME NEW c \in Child, Escape(c) \/ Die(c) PROVE answer' = answer
          BY <4>3 DEF Escape, Die, caller
        <4>4. ASSUME NEW c \in Child, Running(c) PROVE answer' = answer
          <5>1. ASSUME NEW f \in DOMAIN future, Take(c, f) PROVE answer' = answer
            BY <5>1 DEF Take, caller
          <5>2. ASSUME NEW kind, EndTask(c, kind) \/ EndBatch(c, kind) \/ Recycle(c, kind) PROVE answer' = answer
            BY <5>2 DEF EndTask, EndBatch, Recycle, caller
          <5>3. CASE Report(c) \/ Terminate(c)
            BY <5>3 DEF Report, Terminate, caller
          <5> QED BY <4>4, <5>1, <5>2, <5>3 DEF Running
        <4> QED BY <4>1, <4>2, <4>3, <4>4 DEF Next, Progress
      <3> QED BY <3>1
    <2>3. Settle \/ ~ Settle
      BY Zenon
    <2> QED BY <2>1, <2>2, <2>3, Zenon
  <1> QED BY <1>1, RunnerInvHolds, PTL DEF Spec, SuccessStays
=============================================================================
