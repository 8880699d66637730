-------------------------- MODULE CampaignsProofs --------------------------
(* What module Campaigns promises, for any tasks, scopes, contracts,       *)
(* campaign specifications and starts, and any limit on memory.            *)
EXTENDS Campaigns, FiniteSetTheorems, WellFoundedInduction, TLAPS

-----------------------------------------------------------------------------
(* The inductive invariant.                                                *)

Entries == RunIds \X Nat
Places == {"idle", "loop", "start", "spec", "policy", "resume", "running"}
Decisions == {"none", "checked", "accepted", "rejected"}

CampaignsTypeOK ==
    /\ DOMAIN plans = CampaignIds
    /\ DOMAIN runs = RunIds /\ DOMAIN submissions = RunIds
    /\ \A r \in RunIds : DOMAIN runs[r] = DOMAIN NotStarted
    /\ order \in Seq(RunIds) /\ memory \in Seq(Entries)
    /\ DOMAIN host = DOMAIN Idle /\ host.pc \in Places

(* A listed run has all its submissions, undecided at first, and a         *)
(* snapshot for each; one that is not listed has left nothing.             *)
RunOK(r) ==
    IF r \in Listed
    THEN /\ Len(submissions[r]) \in Nat \ {0} /\ Index(r) = 1..Len(submissions[r])
         /\ DOMAIN runs[r].snapshot = Index(r)
         /\ \A i \in Index(r) :
               /\ DOMAIN submissions[r][i] = {"decision", "facts"}
               /\ Decision(r, i) \in Decisions
               /\ submissions[r][i].facts \in Nat
               /\ Decision(r, i) = "none" => submissions[r][i].facts = 0
    ELSE runs[r] = NotStarted /\ submissions[r] = <<>>

(* Memory holds what listed runs recorded. *)
Recorded(e) ==
    e[1] \in Listed /\ e[2] \in Index(e[1]) /\ FactSize(e) > 0
MemoryOK == \A n \in DOMAIN memory : Recorded(memory[n])

(* What a snapshot shows was accepted in the same split, fits, and rests   *)
(* on the files of the contract it is shown under.                         *)
ShownOK(shown, split, files) ==
    /\ IsFiniteSet(shown)
    /\ Total([e \in shown |-> FactSize(e)]) <= MemoryLimit
    /\ \A e \in shown :
          /\ e \in Entries /\ Recorded(e)
          /\ Decision(e[1], e[2]) = "accepted"
          /\ runs[e[1]].split = split
          /\ Applicable(e, files)
SnapshotOK(r, i) ==
    ShownOK(runs[r].snapshot[i], runs[r].split, runs[r].contract[i])
SnapshotsOK == \A r \in Listed : \A i \in Index(r) : SnapshotOK(r, i)

(* A pinned plan has the tasks and splits of a specification. *)
PlanOK(id) ==
    plans[id] # <<>> =>
        \E spec \in Specs :
            /\ spec.id = id
            /\ DOMAIN plans[id] = 1..(spec.repetitions * Len(spec.rows))
            /\ \A k \in DOMAIN plans[id] :
                  LET row == spec.rows[((k - 1) % Len(spec.rows)) + 1]
                  IN  /\ plans[id][k].task = row.task
                      /\ plans[id][k].split = row.split
                      /\ plans[id][k].scope = Scope[row.task]
PlansOK ==
    /\ \A id \in CampaignIds : PlanOK(id)
    /\ \A r \in RunIds : runs[r].campaign # None =>
          runs[r].campaign \in CampaignIds /\ plans[runs[r].campaign] # <<>>

(* While the process works through a plan, that plan is what would be      *)
(* planned now, and the run it makes is the one of its entry.              *)
Making(spec) ==
    /\ plans[spec.id] = PlanEntries(spec)
    /\ host.entry \in Nat \ {0}
    /\ host.pc \in {"start", "spec"} =>
          /\ host.entry \in DOMAIN plans[spec.id]
          /\ host.run = PlannedRun(spec.id, host.entry)
          /\ host.task = plans[spec.id][host.entry].task
          /\ host.config = plans[spec.id][host.entry].config

HostOK ==
    /\ host.pc = "idle" => host = Idle
    /\ host.pc = "loop" => host.spec # None
    /\ host.pc \in {"start", "spec"} =>
          host.task \in Tasks /\ host.run \in RunIds \ Listed
    /\ host.pc \in {"policy", "resume", "running"} => host.run \in Listed
    /\ host.spec = None \/ \E spec \in Specs : host.spec = spec /\ Making(spec)

CampaignsInv ==
    /\ CampaignsTypeOK
    /\ \A r \in RunIds : RunOK(r)
    /\ MemoryOK
    /\ SnapshotsOK
    /\ PlansOK
    /\ HostOK
    /\ OneSplit
    /\ RunsMatchThePlan
    /\ WorkUnderCurrentContract

-----------------------------------------------------------------------------
(* Recursion over 0..N.  What it defines exists, and induction over it is  *)
(* "no least counterexample".                                              *)

LEMMA Smallest ==
    ASSUME NEW S, S \subseteq Nat, S # {}
    PROVE  \E m \in S : \A k \in S : m <= k
<1>1. PICK m \in S : \A k \in S : ~(<<k, m>> \in OpToRel(<, Nat))
  BY WFMin, NatLessThanWellFounded, Zenon
<1>2. ASSUME NEW k \in S PROVE ~(k < m)
  BY <1>1, <1>2, Zenon DEF OpToRel
<1>. QED  BY <1>2

LEMMA Climb ==
    ASSUME NEW N \in Nat, NEW S, NEW f, f[0] \in S,
           \A n \in 1..N : f[n - 1] \in S => f[n] \in S
    PROVE  \A n \in 0..N : f[n] \in S
<1>. DEFINE Bad == {n \in 0..N : f[n] \notin S}
<1>. SUFFICES ASSUME Bad # {} PROVE FALSE
  OBVIOUS
<1>1. PICK m \in Bad : \A k \in Bad : m <= k
  <2>1. Bad \subseteq Nat
    OBVIOUS
  <2>. HIDE DEF Bad
  <2>. QED  BY <2>1, Smallest
<1>2. m \in 1..N /\ f[m] \notin S
  BY <1>1
<1>3. m - 1 \in 0..N /\ m - 1 \notin Bad
  BY <1>1, <1>2
<1>. QED  BY <1>2, <1>3

Iterates(f, N, first, step) ==
    \A n \in 0..N : f[n] = IF n = 0 THEN first ELSE step[n][f[n - 1]]

LEMMA Iteration ==
    ASSUME NEW N \in Nat, NEW S, NEW first \in S, NEW step \in [1..N -> [S -> S]]
    PROVE  \E f \in [0..N -> S] : Iterates(f, N, first, step)
<1>. DEFINE UpTo(f, k) ==
              \A n \in 0..N : n <= k =>
                 f[n] = IF n = 0 THEN first ELSE step[n][f[n - 1]]
            Bad == {k \in Nat : ~ \E f \in [0..N -> S] : UpTo(f, k)}
<1>1. Bad = {}
  <2>. SUFFICES ASSUME Bad # {} PROVE FALSE
    OBVIOUS
  <2>1. PICK k \in Bad : \A j \in Bad : k <= j
    <3>1. Bad \subseteq Nat
      OBVIOUS
    <3>. HIDE DEF Bad
    <3>. QED  BY <3>1, Smallest
  <2>2. k \in Nat /\ ~ \E f \in [0..N -> S] : UpTo(f, k)
    BY <2>1
  <2>3. k # 0
    <3>. DEFINE f == [n \in 0..N |-> first]
    <3>1. f \in [0..N -> S] /\ UpTo(f, 0)
      OBVIOUS
    <3>. QED  BY <2>2, <3>1
  <2>4. k - 1 \in Nat /\ k - 1 \notin Bad
    <3>. HIDE DEF UpTo
    <3>. QED  BY <2>1, <2>2, <2>3
  <2>5. PICK f \in [0..N -> S] : UpTo(f, k - 1)
    <3>. HIDE DEF UpTo
    <3>. QED  BY <2>4
  <2>. DEFINE g == [n \in 0..N |-> IF n = k THEN step[n][f[n - 1]] ELSE f[n]]
  <2>6. ASSUME NEW n \in 0..N PROVE g[n] \in S
    <3>1. CASE n # k
      BY <3>1
    <3>2. CASE n = k
      <4>1. n \in 1..N /\ f[n - 1] \in S
        BY <2>3, <3>2
      <4>. QED  BY <3>2, <4>1
    <3>. QED  BY <3>1, <3>2
  <2>7. ASSUME NEW n \in 0..N, n <= k
        PROVE  g[n] = IF n = 0 THEN first ELSE step[n][g[n - 1]]
    <3>1. CASE n = 0
      BY <2>2, <2>3, <2>4, <2>5, <3>1
    <3>2. CASE n # 0 /\ n < k
      <4>1. n <= k - 1 /\ n - 1 \in 0..N /\ n # k /\ n - 1 # k
        BY <2>2, <3>2
      <4>2. g[n] = f[n] /\ g[n - 1] = f[n - 1]
        BY <4>1
      <4>. QED  BY <2>5, <3>2, <4>1, <4>2
    <3>3. CASE n = k
      <4>1. n - 1 \in 0..N /\ n - 1 # k /\ n # 0
        BY <2>2, <2>3, <3>3
      <4>2. g[n] = step[n][f[n - 1]] /\ g[n - 1] = f[n - 1]
        BY <3>3, <4>1
      <4>. QED  BY <4>1, <4>2
    <3>. QED  BY <2>2, <2>7, <3>1, <3>2, <3>3
  <2>8. g \in [0..N -> S]
    BY <2>6
  <2>. HIDE DEF g
  <2>9. UpTo(g, k)
    BY <2>7
  <2>. QED  BY <2>2, <2>8, <2>9
<1>2. PICK f \in [0..N -> S] : UpTo(f, N)
  <2>. HIDE DEF UpTo
  <2>. QED  BY <1>1
<1>3. \A n \in 0..N : f[n] = IF n = 0 THEN first ELSE step[n][f[n - 1]]
  BY <1>2
<1>. QED  BY <1>3 DEF Iterates

-----------------------------------------------------------------------------
(* Memory: _memory adds to it what listed runs recorded, and nothing else. *)

Memories == {s \in Seq(Entries) : \A n \in DOMAIN s : Recorded(s[n])}

LEMMA RecordAdds ==
    ASSUME NEW known \in Memories, NEW r \in Listed \cap RunIds,
           NEW i \in Index(r) \cap Nat
    PROVE  Record(known, <<r, i>>) \in Memories
<1>. DEFINE e == <<r, i>>
<1>1. e \in Entries /\ e[1] = r /\ e[2] = i
  BY DEF Entries
<1>2. CASE submissions[r][i].facts > 0 /\ e \notin ToSet(known)
  <2>1. Record(known, e) = Append(known, e)
    BY <1>1, <1>2 DEF Record
  <2>2. Recorded(e)
    BY <1>1, <1>2 DEF Recorded, FactSize
  <2>3. known \in Seq(Entries) /\ \A n \in DOMAIN known : Recorded(known[n])
    BY DEF Memories
  <2>. HIDE DEF e
  <2>4. Append(known, e) \in Seq(Entries)
    BY <1>1, <2>3
  <2>5. \A n \in DOMAIN Append(known, e) :
           \/ Append(known, e)[n] = e
           \/ n \in DOMAIN known /\ Append(known, e)[n] = known[n]
    <3>1. /\ Len(known) \in Nat /\ DOMAIN known = 1..Len(known)
          /\ DOMAIN Append(known, e) = 1..(Len(known) + 1)
          /\ Append(known, e)[Len(known) + 1] = e
          /\ \A n \in 1..Len(known) : Append(known, e)[n] = known[n]
      BY <1>1, <2>3
    <3>. QED  BY <3>1
  <2>6. Append(known, e) \in Memories
    BY <2>2, <2>3, <2>4, <2>5 DEF Memories
  <2>. QED  BY <2>1, <2>6 DEF e
<1>3. CASE ~(submissions[r][i].facts > 0 /\ e \notin ToSet(known))
  BY <1>1, <1>3 DEF Record
<1>. QED  BY <1>2, <1>3

LEMMA SourcesAdd ==
    ASSUME NEW known \in Memories, NEW r \in Listed \cap RunIds, RunOK(r)
    PROVE  Sources(known, r) \in Memories
<1>. DEFINE N == Len(submissions[r])
            P(v) == v = [i \in 0..N |-> IF i = 0 THEN known
                                        ELSE Record(v[i - 1], <<r, i>>)]
            step == [i \in 1..N |-> [s \in Memories |-> Record(s, <<r, i>>)]]
<1>1. N \in Nat /\ Index(r) = 1..N
  BY DEF RunOK
<1>2. \A i \in 1..N : \A s \in Memories : Record(s, <<r, i>>) \in Memories
  BY <1>1, RecordAdds
<1>3. \E v : P(v)
  <2>. HIDE DEF N
  <2>1. step \in [1..N -> [Memories -> Memories]]
    BY <1>2
  <2>2. PICK v \in [0..N -> Memories] : Iterates(v, N, known, step)
    <3>. HIDE DEF step, P
    <3>. QED  BY <1>1, <2>1, Iteration
  <2>3. ASSUME NEW i \in 0..N
        PROVE  v[i] = IF i = 0 THEN known ELSE Record(v[i - 1], <<r, i>>)
    <3>1. i # 0 => i \in 1..N /\ v[i - 1] \in Memories
      BY <1>1, <2>2
    <3>. QED  BY <2>2, <3>1 DEF Iterates
  <2>4. v = [i \in 0..N |-> v[i]]
    BY <2>2
  <2>. QED  BY <2>3, <2>4
<1>. DEFINE after == CHOOSE v : P(v)
<1>4. P(after)
  <2>. HIDE DEF P
  <2>. QED  BY <1>3
<1>5. Sources(known, r) = after[N]
  BY DEF Sources
<1>. HIDE DEF N, after
<1>6. /\ after[0] = known
      /\ \A i \in 1..N : after[i] = Record(after[i - 1], <<r, i>>)
  BY <1>1, <1>4
<1>7. \A i \in 0..N : after[i] \in Memories
  <2>1. after[0] \in Memories
    BY <1>6
  <2>2. \A i \in 1..N : after[i - 1] \in Memories => after[i] \in Memories
    BY <1>2, <1>6
  <2>. HIDE DEF P
  <2>. QED  BY <1>1, <2>1, <2>2, Climb
<1>. QED  BY <1>1, <1>5, <1>7

LEMMA RememberedAdds ==
    ASSUME CampaignsInv, NEW scope
    PROVE  Remembered(scope) \in Memories
<1>. DEFINE N == Len(order)
            Read(s, n) == IF Scope[runs[order[n]].task] # scope THEN s
                          ELSE Sources(s, order[n])
            P(v) == v = [n \in 0..N |-> IF n = 0 THEN memory ELSE Read(v[n - 1], n)]
            step == [n \in 1..N |-> [s \in Memories |-> Read(s, n)]]
<1>1. /\ N \in Nat /\ DOMAIN order = 1..N
      /\ \A n \in 1..N : order[n] \in Listed \cap RunIds
  BY DEF CampaignsInv, CampaignsTypeOK, Listed, ToSet
<1>2. \A n \in 1..N : \A s \in Memories : Read(s, n) \in Memories
  BY <1>1, SourcesAdd DEF CampaignsInv
<1>3. memory \in Memories
  BY DEF CampaignsInv, CampaignsTypeOK, MemoryOK, Memories
<1>. HIDE DEF N, Read
<1>4. \E v : P(v)
  <2>1. step \in [1..N -> [Memories -> Memories]]
    BY <1>2
  <2>2. PICK v \in [0..N -> Memories] : Iterates(v, N, memory, step)
    <3>. HIDE DEF step, P
    <3>. QED  BY <1>1, <1>3, <2>1, Iteration
  <2>3. ASSUME NEW n \in 0..N
        PROVE  v[n] = IF n = 0 THEN memory ELSE Read(v[n - 1], n)
    <3>1. n # 0 => n \in 1..N /\ v[n - 1] \in Memories
      BY <1>1, <2>2
    <3>. QED  BY <2>2, <3>1 DEF Iterates
  <2>4. v = [n \in 0..N |-> v[n]]
    BY <2>2
  <2>. QED  BY <2>3, <2>4
<1>. DEFINE after == CHOOSE v : P(v)
<1>5. P(after)
  <2>. HIDE DEF P
  <2>. QED  BY <1>4
<1>6. Remembered(scope) = after[N]
  BY DEF Remembered, N, Read
<1>. HIDE DEF after
<1>7. /\ after[0] = memory
      /\ \A n \in 1..N : after[n] = Read(after[n - 1], n)
  BY <1>1, <1>5
<1>8. \A n \in 0..N : after[n] \in Memories
  <2>1. after[0] \in Memories
    BY <1>3, <1>7
  <2>2. \A n \in 1..N : after[n - 1] \in Memories => after[n] \in Memories
    BY <1>2, <1>7
  <2>. HIDE DEF P
  <2>. QED  BY <1>1, <2>1, <2>2, Climb
<1>. QED  BY <1>1, <1>6, <1>8

-----------------------------------------------------------------------------
(* Snapshots: _snapshot takes what is shown as long as it fits.            *)

LEMMA TotalAdd ==
    ASSUME NEW f, IsFiniteSet(Tokens(f)), NEW e, NEW k \in Nat,
           NEW g, DOMAIN g = DOMAIN f \cup {e}, g[e] = k,
           \A x \in DOMAIN f : g[x] = f[x]
    PROVE  /\ IsFiniteSet(Tokens(g))
           /\ Total(f) \in Nat /\ Total(g) \in Nat /\ Total(g) <= Total(f) + k
<1>. DEFINE column == {e} \X (1..k)
            both == Tokens(f) \cup column
<1>1. IsFiniteSet(column) /\ Cardinality(column) = k
  <2>1. IsFiniteSet({e}) /\ Cardinality({e}) = 1
    BY FS_Singleton
  <2>2. IsFiniteSet(1..k) /\ Cardinality(1..k) = k
    BY FS_Interval
  <2>. HIDE DEF column
  <2>3. IsFiniteSet(column) /\ Cardinality(column) = Cardinality({e}) * Cardinality(1..k)
    BY <2>1, <2>2, FS_Product DEF column
  <2>. QED  BY <2>1, <2>2, <2>3
<1>2. Tokens(g) \subseteq both
  BY DEF Tokens
<1>. HIDE DEF column
<1>3. /\ IsFiniteSet(both)
      /\ Cardinality(both)
           = Cardinality(Tokens(f)) + k - Cardinality(Tokens(f) \cap column)
  BY <1>1, FS_Union
<1>4. IsFiniteSet(Tokens(f) \cap column)
  BY <1>1, FS_Intersection
<1>. HIDE DEF both
<1>5. IsFiniteSet(Tokens(g)) /\ Cardinality(Tokens(g)) <= Cardinality(both)
  BY <1>2, <1>3, FS_Subset
<1>6. /\ Cardinality(Tokens(f)) \in Nat /\ Cardinality(Tokens(g)) \in Nat
      /\ Cardinality(both) \in Nat /\ Cardinality(Tokens(f) \cap column) \in Nat
  BY <1>3, <1>4, <1>5, FS_CardinalityType
<1>. QED  BY <1>3, <1>5, <1>6 DEF Total

Sizes(s) == [e \in s |-> FactSize(e)]

(* What _snapshot has taken so far, of the entries it shows. *)
Selections(shown) ==
    {t \in [size : 0..MemoryLimit, entries : SUBSET shown] :
        /\ IsFiniteSet(t.entries)
        /\ IsFiniteSet(Tokens(Sizes(t.entries)))
        /\ Total(Sizes(t.entries)) <= t.size}

LEMMA SelectionGrows ==
    ASSUME NEW shown, NEW t \in Selections(shown), NEW e \in shown,
           FactSize(e) \in Nat, t.size + FactSize(e) <= MemoryLimit
    PROVE  [size |-> t.size + FactSize(e), entries |-> t.entries \cup {e}]
              \in Selections(shown)
<1>. DEFINE u == [size |-> t.size + FactSize(e), entries |-> t.entries \cup {e}]
            f == Sizes(t.entries)
            g == Sizes(t.entries \cup {e})
<1>1. /\ t.size \in Nat /\ t.entries \subseteq shown /\ IsFiniteSet(t.entries)
      /\ IsFiniteSet(Tokens(f)) /\ Total(f) <= t.size
      /\ MemoryLimit \in Nat
  BY CampaignsAssumption DEF Selections
<1>2. /\ DOMAIN g = DOMAIN f \cup {e} /\ g[e] = FactSize(e)
      /\ \A x \in DOMAIN f : g[x] = f[x]
  BY DEF Sizes
<1>. HIDE DEF f, g
<1>3. IsFiniteSet(Tokens(g))
      /\ Total(f) \in Nat /\ Total(g) \in Nat /\ Total(g) <= Total(f) + FactSize(e)
  BY <1>1, <1>2, TotalAdd
<1>4. IsFiniteSet(t.entries \cup {e})
  BY <1>1, FS_AddElement
<1>5. u \in [size : 0..MemoryLimit, entries : SUBSET shown]
  BY <1>1
<1>6. Total(g) <= u.size
  BY <1>1, <1>3
<1>. QED  BY <1>3, <1>4, <1>5, <1>6 DEF Selections, g

LEMMA SnapshotFits ==
    ASSUME CampaignsInv, NEW scope, NEW split, NEW files
    PROVE  /\ IsFiniteSet(Snapshot(scope, split, files))
           /\ Total(Sizes(Snapshot(scope, split, files))) <= MemoryLimit
           /\ \A e \in Snapshot(scope, split, files) :
                 e \in Entries /\ Recorded(e) /\ Shown(e, scope, split, files)
<1>. DEFINE N == Len(memory)
            shown == {e \in Entries : Recorded(e) /\ Shown(e, scope, split, files)}
            E(n) == memory[N - n + 1]
            Take(t, n) ==
                IF /\ Shown(E(n), scope, split, files)
                   /\ t.size + FactSize(E(n)) <= MemoryLimit
                THEN [size |-> t.size + FactSize(E(n)),
                      entries |-> t.entries \cup {E(n)}]
                ELSE t
            nothing == [size |-> 0, entries |-> {}]
            Good == Selections(shown)
            P(v) == v = [n \in 0..N |-> IF n = 0 THEN nothing ELSE Take(v[n - 1], n)]
            step == [n \in 1..N |-> [t \in Good |-> Take(t, n)]]
<1>1. /\ N \in Nat /\ DOMAIN memory = 1..N
      /\ \A n \in 1..N : memory[n] \in Entries /\ Recorded(memory[n])
  BY DEF CampaignsInv, CampaignsTypeOK, MemoryOK
<1>2. \A n \in 1..N : E(n) \in Entries /\ Recorded(E(n)) /\ FactSize(E(n)) \in Nat
  <2>1. \A n \in 1..N : E(n) \in Entries /\ Recorded(E(n))
    <3>1. \A n \in 1..N : N - n + 1 \in 1..N
      BY <1>1
    <3>. QED  BY <1>1, <3>1
  <2>2. \A e \in Entries : Recorded(e) => FactSize(e) \in Nat
    BY DEF CampaignsInv, RunOK, Recorded, Entries, FactSize
  <2>. HIDE DEF E
  <2>. QED  BY <2>1, <2>2
<1>3. nothing \in Good
  <2>1. IsFiniteSet(Tokens(Sizes({}))) /\ Total(Sizes({})) = 0
    <3>1. Tokens(Sizes({})) = {}
      BY DEF Tokens, Sizes
    <3>. QED  BY <3>1, FS_EmptySet DEF Total
  <2>2. /\ nothing \in [size : 0..MemoryLimit, entries : SUBSET shown]
        /\ nothing.size = 0 /\ nothing.entries = {}
    BY CampaignsAssumption
  <2>. HIDE DEF nothing, shown
  <2>. QED  BY <2>1, <2>2, FS_EmptySet DEF Selections
<1>. HIDE DEF N, E
<1>4. \A n \in 1..N : \A t \in Good : Take(t, n) \in Good
  <2>1. ASSUME NEW n \in 1..N, NEW t \in Good PROVE Take(t, n) \in Good
    <3>1. CASE Shown(E(n), scope, split, files)
               /\ t.size + FactSize(E(n)) <= MemoryLimit
      <4>1. E(n) \in shown /\ FactSize(E(n)) \in Nat
        BY <1>2, <3>1
      <4>. HIDE DEF shown
      <4>2. [size |-> t.size + FactSize(E(n)), entries |-> t.entries \cup {E(n)}] \in Good
        BY <3>1, <4>1, SelectionGrows
      <4>. QED  BY <3>1, <4>2
    <3>2. CASE ~(Shown(E(n), scope, split, files)
                 /\ t.size + FactSize(E(n)) <= MemoryLimit)
      BY <3>2
    <3>. QED  BY <3>1, <3>2
  <2>. HIDE DEF Take, Good
  <2>. QED  BY <2>1
<1>. HIDE DEF nothing, Good, Take
<1>5. \E v : P(v)
  <2>1. step \in [1..N -> [Good -> Good]]
    BY <1>4
  <2>2. PICK v \in [0..N -> Good] : Iterates(v, N, nothing, step)
    <3>. HIDE DEF step, P
    <3>. QED  BY <1>1, <1>3, <2>1, Iteration
  <2>3. ASSUME NEW n \in 0..N
        PROVE  v[n] = IF n = 0 THEN nothing ELSE Take(v[n - 1], n)
    <3>1. n # 0 => n \in 1..N /\ v[n - 1] \in Good
      BY <1>1, <2>2
    <3>. QED  BY <2>2, <3>1 DEF Iterates
  <2>4. v = [n \in 0..N |-> v[n]]
    BY <2>2
  <2>. QED  BY <2>3, <2>4
<1>. DEFINE taken == CHOOSE v : P(v)
<1>6. P(taken)
  <2>. HIDE DEF P
  <2>. QED  BY <1>5
<1>7. Snapshot(scope, split, files) = taken[N].entries
  BY DEF Snapshot, N, E, Take, nothing
<1>. HIDE DEF taken
<1>8. /\ taken[0] = nothing
      /\ \A n \in 1..N : taken[n] = Take(taken[n - 1], n)
  BY <1>1, <1>6
<1>9. \A n \in 0..N : taken[n] \in Good
  <2>1. taken[0] \in Good
    BY <1>3, <1>8
  <2>2. \A n \in 1..N : taken[n - 1] \in Good => taken[n] \in Good
    BY <1>4, <1>8
  <2>. HIDE DEF P
  <2>. QED  BY <1>1, <2>1, <2>2, Climb
<1>10. taken[N] \in Selections(shown)
  BY <1>1, <1>9 DEF Good
<1>11. LET s == taken[N].entries
       IN  IsFiniteSet(s) /\ Total(Sizes(s)) <= MemoryLimit /\ s \subseteq shown
  <2>1. /\ taken[N].size \in 0..MemoryLimit /\ taken[N].entries \subseteq shown
        /\ IsFiniteSet(taken[N].entries)
        /\ IsFiniteSet(Tokens(Sizes(taken[N].entries)))
        /\ Total(Sizes(taken[N].entries)) <= taken[N].size
    <3>. HIDE DEF shown
    <3>. QED  BY <1>10 DEF Selections
  <2>2. Total(Sizes(taken[N].entries)) \in Nat
    BY <2>1, FS_CardinalityType DEF Total
  <2>. HIDE DEF shown
  <2>. QED  BY <2>1, <2>2, CampaignsAssumption
<1>. QED  BY <1>7, <1>11

-----------------------------------------------------------------------------
(* What stays as it is.                                                    *)

(* A specification once recorded says the same. *)
SameRun(r) ==
    /\ runs'[r].task = runs[r].task /\ runs'[r].contract = runs[r].contract
    /\ runs'[r].split = runs[r].split /\ runs'[r].snapshot = runs[r].snapshot
    /\ runs'[r].campaign = runs[r].campaign /\ runs'[r].config = runs[r].config
    /\ runs'[r].revisions = runs[r].revisions

Accepted(e) == Recorded(e) /\ Decision(e[1], e[2]) = "accepted"

LEMMA ShownKept ==
    ASSUME NEW shown, NEW split, NEW files, ShownOK(shown, split, files),
           \A e \in Entries : Accepted(e) =>
              Accepted(e)' /\ FactSize(e)' = FactSize(e) /\ SameRun(e[1])
    PROVE  ShownOK(shown, split, files)'
<1>1. \A e \in shown :
         /\ e \in Entries /\ Accepted(e) /\ runs[e[1]].split = split
         /\ Applicable(e, files)
  BY DEF ShownOK, Accepted
<1>2. \A e \in shown : Accepted(e)' /\ FactSize(e)' = FactSize(e) /\ SameRun(e[1])
  BY <1>1
<1>3. IsFiniteSet(shown) /\ Total([e \in shown |-> FactSize(e)]) <= MemoryLimit
  BY DEF ShownOK
<1>4. [e \in shown |-> FactSize(e)]' = [e \in shown |-> FactSize(e)]
  BY <1>2
<1>5. (Total([e \in shown |-> FactSize(e)]) <= MemoryLimit)'
  BY <1>3, <1>4 DEF Total, Tokens
<1>6. \A e \in shown :
         /\ e \in Entries /\ Accepted(e)' /\ runs'[e[1]].split = split
         /\ Applicable(e, files)'
  BY <1>1, <1>2 DEF SameRun, Applicable
<1>. QED  BY <1>3, <1>5, <1>6 DEF ShownOK, Accepted

LEMMA SnapshotKept ==
    ASSUME NEW r, NEW i, SnapshotOK(r, i), SameRun(r),
           \A e \in Entries : Accepted(e) =>
              Accepted(e)' /\ FactSize(e)' = FactSize(e) /\ SameRun(e[1])
    PROVE  SnapshotOK(r, i)'
<1>1. PICK shown, split, files :
         /\ shown = runs[r].snapshot[i] /\ split = runs[r].split
         /\ files = runs[r].contract[i]
  OBVIOUS
<1>2. ShownOK(shown, split, files)
  BY <1>1 DEF SnapshotOK
<1>3. ShownOK(shown, split, files)'
  BY <1>2, ShownKept
<1>4. /\ shown = runs'[r].snapshot[i] /\ split = runs'[r].split
      /\ files = runs'[r].contract[i]
  BY <1>1 DEF SameRun
<1>. QED  BY <1>3, <1>4 DEF SnapshotOK, ShownOK, Applicable

(* The records of runs are as they were. *)
LEMMA RunsSame ==
    ASSUME CampaignsInv, UNCHANGED <<runs, order, submissions>>
    PROVE  /\ Listed' = Listed
           /\ \A r \in RunIds : RunOK(r)'
           /\ \A e \in Entries : Recorded(e)' = Recorded(e)
           /\ SnapshotsOK'
<1>1. Listed' = Listed
  BY DEF Listed
<1>2. \A r : Index(r)' = Index(r)
  BY DEF Index
<1>3. \A r \in RunIds : RunOK(r)'
  BY <1>1, <1>2 DEF CampaignsInv, RunOK, Decision
<1>4. \A e \in Entries : Recorded(e)' = Recorded(e)
  BY <1>1, <1>2 DEF Recorded, FactSize
<1>5. \A e \in Entries : Accepted(e) =>
         Accepted(e)' /\ FactSize(e)' = FactSize(e) /\ SameRun(e[1])
  BY <1>4 DEF Accepted, Decision, FactSize, SameRun
<1>6. ASSUME NEW r \in Listed, NEW i \in Index(r) PROVE SnapshotOK(r, i)'
  <2>1. SnapshotOK(r, i)
    BY DEF CampaignsInv, SnapshotsOK
  <2>2. SameRun(r)
    BY DEF SameRun
  <2>. QED  BY <1>5, <2>1, <2>2, SnapshotKept
<1>7. SnapshotsOK'
  BY <1>1, <1>2, <1>6 DEF SnapshotsOK
<1>. QED  BY <1>1, <1>3, <1>4, <1>7

(* A step of the process that records nothing. *)
LEMMA HostMoves ==
    ASSUME CampaignsInv,
           UNCHANGED <<plans, runs, order, submissions, memory>>,
           DOMAIN host' = DOMAIN Idle, host'.pc \in Places,
           HostOK', WorkUnderCurrentContract'
    PROVE  CampaignsInv'
<1>1. CampaignsTypeOK'
  BY DEF CampaignsInv, CampaignsTypeOK
<1>2. MemoryOK'
  <2>1. \A n \in DOMAIN memory : memory[n] \in Entries
    BY DEF CampaignsInv, CampaignsTypeOK
  <2>. QED  BY <2>1, RunsSame DEF CampaignsInv, MemoryOK
<1>3. PlansOK'
  BY DEF CampaignsInv, PlansOK, PlanOK
<1>4. OneSplit' /\ RunsMatchThePlan'
  BY DEF CampaignsInv, OneSplit, RunsMatchThePlan
<1>. QED  BY <1>1, <1>2, <1>3, <1>4, RunsSame DEF CampaignsInv

-----------------------------------------------------------------------------
(* Plans.                                                                  *)

PlanRow(spec, k) == ((k - 1) % Len(spec.rows)) + 1

LEMMA PlanFacts ==
    ASSUME NEW spec \in Specs
    PROVE  LET n == spec.repetitions * Len(spec.rows)
           IN  /\ n \in Nat \ {0}
               /\ DOMAIN PlanEntries(spec) = 1..n /\ Len(PlanEntries(spec)) = n
               /\ PlanEntries(spec) # <<>>
               /\ \A k \in 1..n :
                     LET row == spec.rows[PlanRow(spec, k)]
                         entry == PlanEntries(spec)[k]
                     IN  /\ PlanRow(spec, k) \in DOMAIN spec.rows
                         /\ entry.task = row.task /\ row.task \in Tasks
                         /\ entry.split = row.split /\ entry.scope = Scope[row.task]
                         /\ entry.contract = Contract(row.task, revised[row.task])
                         /\ entry.config = spec.config
                         /\ PlannedRun(spec.id, k) \in RunIds
<1>. DEFINE m == Len(spec.rows)
            n == spec.repetitions * m
<1>1. /\ spec.repetitions \in 1..1000 /\ m \in Nat \ {0}
      /\ DOMAIN spec.rows = 1..m
      /\ \A i \in 1..m : spec.rows[i].task \in Tasks
  BY CampaignsAssumption
<1>2. n \in Nat \ {0}
  <2>. HIDE DEF m
  <2>. DEFINE reps == spec.repetitions
  <2>1. reps \in Nat \ {0}
    <3>1. reps \in 1..1000
      BY <1>1
    <3>. HIDE DEF reps
    <3>. QED  BY <3>1
  <2>2. \A a, b \in Nat \ {0} : a * b \in Nat \ {0}
    OBVIOUS
  <2>. QED  BY <1>1, <2>1, <2>2
<1>3. \A k \in 1..n : PlanRow(spec, k) \in 1..m
  <2>. HIDE DEF m
  <2>1. \A j \in Nat : j % m \in 0..(m - 1)
    BY <1>1
  <2>2. \A k \in 1..n : k - 1 \in Nat
    BY <1>2
  <2>3. m \in Nat \ {0}
    BY <1>1
  <2>4. \A k \in 1..n : ((k - 1) % m) + 1 \in 1..m
    <3>. TAKE k \in 1..n
    <3>1. (k - 1) % m \in 0..(m - 1)
      BY <2>1, <2>2
    <3>. DEFINE rest == (k - 1) % m
    <3>. HIDE DEF rest
    <3>2. rest + 1 \in 1..m
      <4>1. rest \in 0..(m - 1)
        BY <3>1 DEF rest
      <4>. QED  BY <2>3, <4>1
    <3>. QED  BY <3>2 DEF rest
  <2>. QED  BY <2>4 DEF PlanRow, m
<1>4. /\ DOMAIN PlanEntries(spec) = 1..n
      /\ \A k \in 1..n :
            LET row == spec.rows[PlanRow(spec, k)]
                entry == PlanEntries(spec)[k]
            IN  /\ entry.task = row.task
                /\ entry.split = row.split /\ entry.scope = Scope[row.task]
                /\ entry.contract = Contract(row.task, revised[row.task])
                /\ entry.config = spec.config
  BY DEF PlanEntries, PlanRow
<1>5. Len(PlanEntries(spec)) = n /\ PlanEntries(spec) # <<>>
  <2>1. PlanEntries(spec) = [k \in 1..n |-> PlanEntries(spec)[k]]
    BY DEF PlanEntries
  <2>2. Len([k \in 1..n |-> PlanEntries(spec)[k]]) = n
    <3>. HIDE DEF n
    <3>. QED  BY <1>2
  <2>3. 1 \in 1..n
    <3>. HIDE DEF n
    <3>. QED  BY <1>2
  <2>. HIDE DEF n
  <2>4. Len(PlanEntries(spec)) = n
    BY <2>1, <2>2
  <2>5. PlanEntries(spec) # <<>>
    <3>1. 1 \in DOMAIN PlanEntries(spec)
      BY <1>4, <2>3
    <3>2. 1 \notin DOMAIN <<>>
      OBVIOUS
    <3>. QED  BY <3>1, <3>2
  <2>. QED  BY <2>4, <2>5
<1>6. \A k \in 1..n : PlannedRun(spec.id, k) \in RunIds
  BY DEF RunIds
<1>. QED  BY <1>1, <1>2, <1>3, <1>4, <1>5, <1>6

LEMMA PlannedIsRun ==
    ASSUME CampaignsInv, NEW id \in CampaignIds, NEW k \in DOMAIN plans[id]
    PROVE  PlannedRun(id, k) \in RunIds
<1>1. plans[id] # <<>>
  OBVIOUS
<1>2. PICK spec \in Specs :
         spec.id = id /\ DOMAIN plans[id] = 1..(spec.repetitions * Len(spec.rows))
  BY <1>1 DEF CampaignsInv, PlansOK, PlanOK
<1>. QED  BY <1>2, PlanFacts

LEMMA PlanEntriesSame ==
    ASSUME UNCHANGED revised
    PROVE  \A spec \in Specs : PlanEntries(spec)' = PlanEntries(spec)
BY DEF PlanEntries, Contract

(* The plan goes on being worked through. *)
LEMMA MakingOn ==
    ASSUME CampaignsInv, UNCHANGED <<revised, plans>>,
           host.spec # None,
           host'.spec = host.spec, host'.entry \in Nat \ {0},
           \/ host'.pc \notin {"start", "spec"}
           \/ /\ host.pc \in {"start", "spec"}
              /\ host'.entry = host.entry /\ host'.run = host.run
              /\ host'.task = host.task /\ host'.config = host.config
    PROVE  \E spec \in Specs : host'.spec = spec /\ Making(spec)'
<1>1. PICK spec \in Specs : host.spec = spec /\ Making(spec)
  BY DEF CampaignsInv, HostOK
<1>2. PlanEntries(spec)' = PlanEntries(spec)
  BY PlanEntriesSame
<1>3. Making(spec)'
  BY <1>1, <1>2 DEF Making
<1>. QED  BY <1>1, <1>3

-----------------------------------------------------------------------------
(* The steps that record nothing.                                          *)

LEMMA IdleStep ==
    ASSUME CampaignsInv, host' = Idle,
           UNCHANGED <<plans, runs, order, submissions, memory>>
    PROVE  CampaignsInv'
<1>1. /\ DOMAIN host' = DOMAIN Idle /\ host'.pc = "idle" /\ host'.spec = None
  BY DEF Idle
<1>2. HostOK'
  BY <1>1 DEF HostOK
<1>3. WorkUnderCurrentContract'
  BY <1>1 DEF WorkUnderCurrentContract
<1>. QED  BY <1>1, <1>2, <1>3, HostMoves DEF Places

LEMMA NextEntryStep ==
    ASSUME CampaignsInv, NextEntry
    PROVE  CampaignsInv'
<1>. DEFINE id == host.spec.id
            k == host.entry
            r == PlannedRun(id, k)
            entry == plans[id][k]
            start == [host EXCEPT !.pc = "start", !.run = r, !.task = entry.task,
                                  !.config = entry.config]
            resume == [host EXCEPT !.pc = "resume", !.run = r]
            skip == [host EXCEPT !.entry = k + 1]
<1>1. /\ host.pc = "loop" /\ k <= Len(plans[id])
      /\ UNCHANGED <<revised, plans, runs, order, submissions, memory>>
      /\ \/ host' = start /\ r \notin Listed
         \/ host' = Idle
         \/ host' = resume /\ r \in Listed
         \/ host' = skip
  BY DEF NextEntry
<1>2. DOMAIN host = {"pc", "spec", "entry", "run", "task", "config"}
  BY DEF CampaignsInv, CampaignsTypeOK, Idle
<1>3. PICK spec \in Specs : host.spec = spec /\ Making(spec)
  BY <1>1 DEF CampaignsInv, HostOK
<1>4. host.spec # None /\ k \in Nat \ {0}
  BY <1>3, CampaignsAssumption DEF Making
<1>5. /\ k \in DOMAIN plans[id] /\ r \in RunIds /\ entry.task \in Tasks
  <2>. DEFINE n == spec.repetitions * Len(spec.rows)
  <2>1. plans[id] = PlanEntries(spec) /\ n \in Nat
    BY <1>3, PlanFacts DEF Making
  <2>2. k \in 1..n
    <3>1. Len(plans[id]) = n
      BY <2>1, PlanFacts
    <3>. HIDE DEF n
    <3>. QED  BY <1>1, <1>4, <2>1, <3>1
  <2>. QED  BY <1>3, <2>1, <2>2, PlanFacts
<1>6. CASE host' = Idle
  BY <1>1, <1>6, IdleStep
<1>7. CASE host' = start /\ r \notin Listed
  <2>1. /\ DOMAIN host' = DOMAIN Idle /\ host'.pc = "start" /\ host'.spec = host.spec
        /\ host'.entry = k /\ host'.run = r /\ host'.task = entry.task
        /\ host'.config = entry.config
    BY <1>2, <1>7 DEF Idle
  <2>2. Listed' = Listed
    BY <1>1 DEF Listed
  <2>3. Making(spec)'
    <3>1. PlanEntries(spec)' = PlanEntries(spec)
      BY <1>1, PlanEntriesSame
    <3>. QED  BY <1>1, <1>3, <1>4, <1>5, <2>1, <3>1 DEF Making
  <2>4. HostOK'
    BY <1>1, <1>3, <1>4, <1>5, <1>7, <2>1, <2>2, <2>3 DEF HostOK
  <2>5. WorkUnderCurrentContract'
    BY <2>1 DEF WorkUnderCurrentContract
  <2>. QED  BY <1>1, <2>1, <2>4, <2>5, HostMoves DEF Places
<1>8. CASE host' = resume /\ r \in Listed
  <2>1. /\ DOMAIN host' = DOMAIN Idle /\ host'.pc = "resume" /\ host'.spec = host.spec
        /\ host'.entry = k /\ host'.run = r
    BY <1>2, <1>8 DEF Idle
  <2>2. Listed' = Listed
    BY <1>1 DEF Listed
  <2>3. \E s \in Specs : host'.spec = s /\ Making(s)'
    BY <1>1, <1>4, <2>1, MakingOn
  <2>4. HostOK'
    BY <1>4, <1>8, <2>1, <2>2, <2>3 DEF HostOK
  <2>5. WorkUnderCurrentContract'
    BY <2>1 DEF WorkUnderCurrentContract
  <2>. QED  BY <1>1, <2>1, <2>4, <2>5, HostMoves DEF Places
<1>9. CASE host' = skip
  <2>1. /\ DOMAIN host' = DOMAIN Idle /\ host'.pc = "loop" /\ host'.spec = host.spec
        /\ host'.entry \in Nat \ {0}
    BY <1>1, <1>2, <1>4, <1>9 DEF Idle
  <2>2. \E s \in Specs : host'.spec = s /\ Making(s)'
    BY <1>1, <1>4, <2>1, MakingOn
  <2>3. HostOK'
    BY <1>4, <2>1, <2>2 DEF HostOK
  <2>4. WorkUnderCurrentContract'
    BY <2>1 DEF WorkUnderCurrentContract
  <2>. QED  BY <1>1, <2>1, <2>3, <2>4, HostMoves DEF Places
<1>. QED  BY <1>1, <1>6, <1>7, <1>8, <1>9

LEMMA HostFields ==
    ASSUME CampaignsInv
    PROVE  /\ DOMAIN host = {"pc", "spec", "entry", "run", "task", "config"}
           /\ DOMAIN Idle = {"pc", "spec", "entry", "run", "task", "config"}
           /\ host.spec # None => host.spec \in Specs /\ host.entry \in Nat \ {0}
<1>1. host.spec # None => host.spec \in Specs /\ host.entry \in Nat \ {0}
  BY DEF CampaignsInv, HostOK, Making
<1>. QED  BY <1>1 DEF CampaignsInv, CampaignsTypeOK, Idle

LEMMA StartSoloStep ==
    ASSUME CampaignsInv, NEW start \in SoloStarts, StartSolo(start)
    PROVE  CampaignsInv'
<1>1. /\ DOMAIN host' = DOMAIN Idle /\ host'.pc = "start" /\ host'.spec = None
      /\ host'.run = start.run /\ host'.task = start.task
      /\ start.run \notin Listed
      /\ UNCHANGED <<plans, runs, order, submissions, memory>>
  BY DEF StartSolo, Idle
<1>2. start.run \in RunIds /\ start.task \in Tasks
  BY CampaignsAssumption DEF RunIds
<1>3. Listed' = Listed
  BY <1>1 DEF Listed
<1>4. HostOK'
  BY <1>1, <1>2, <1>3 DEF HostOK
<1>5. WorkUnderCurrentContract'
  BY <1>1 DEF WorkUnderCurrentContract
<1>. QED  BY <1>1, <1>4, <1>5, HostMoves DEF Places

LEMMA ResumeSoloStep ==
    ASSUME CampaignsInv, NEW r \in RunIds, ResumeSolo(r)
    PROVE  CampaignsInv'
<1>1. /\ DOMAIN host' = DOMAIN Idle /\ host'.pc = "resume" /\ host'.spec = None
      /\ host'.run = r /\ r \in Listed
      /\ UNCHANGED <<plans, runs, order, submissions, memory>>
  BY DEF ResumeSolo, Idle, Loadable
<1>2. Listed' = Listed
  BY <1>1 DEF Listed
<1>3. HostOK'
  BY <1>1, <1>2 DEF HostOK
<1>4. WorkUnderCurrentContract'
  BY <1>1 DEF WorkUnderCurrentContract
<1>. QED  BY <1>1, <1>3, <1>4, HostMoves DEF Places

LEMMA ResumeStep ==
    ASSUME CampaignsInv, Resume
    PROVE  CampaignsInv'
<1>1. /\ host.pc = "resume"
      /\ UNCHANGED <<revised, plans, runs, order, submissions, memory>>
      /\ \/ /\ revised[runs[host.run].task] = runs[host.run].revisions
            /\ host' = [host EXCEPT !.pc = "running"]
         \/ host' = Idle
  BY DEF Resume, Raise
<1>2. CASE host' = Idle
  BY <1>1, <1>2, IdleStep
<1>3. CASE /\ revised[runs[host.run].task] = runs[host.run].revisions
           /\ host' = [host EXCEPT !.pc = "running"]
  <2>1. /\ DOMAIN host' = DOMAIN Idle /\ host'.pc = "running" /\ host'.spec = host.spec
        /\ host'.entry = host.entry /\ host'.run = host.run
    BY <1>3, HostFields
  <2>2. Listed' = Listed
    BY <1>1 DEF Listed
  <2>3. host.run \in Listed
    BY <1>1 DEF CampaignsInv, HostOK
  <2>4. host.spec # None => \E s \in Specs : host'.spec = s /\ Making(s)'
    BY <1>1, <2>1, HostFields, MakingOn
  <2>5. HostOK'
    BY <2>1, <2>2, <2>3, <2>4 DEF HostOK
  <2>6. WorkUnderCurrentContract'
    BY <1>1, <1>3, <2>1 DEF WorkUnderCurrentContract
  <2>. QED  BY <1>1, <2>1, <2>5, <2>6, HostMoves DEF Places
<1>. QED  BY <1>1, <1>2, <1>3

LEMMA EndResumeStep ==
    ASSUME CampaignsInv, EndResume
    PROVE  CampaignsInv'
<1>. DEFINE next == [Idle EXCEPT !.pc = "loop", !.spec = host.spec,
                                 !.entry = host.entry + 1]
<1>1. /\ UNCHANGED <<revised, plans, runs, order, submissions, memory>>
      /\ \/ host.spec = None /\ host' = Idle
         \/ host.spec # None /\ host' = next
  BY DEF EndResume, Return
<1>2. CASE host' = Idle
  BY <1>1, <1>2, IdleStep
<1>3. CASE host.spec # None /\ host' = next
  <2>1. /\ DOMAIN host' = DOMAIN Idle /\ host'.pc = "loop" /\ host'.spec = host.spec
        /\ host'.entry \in Nat \ {0}
    BY <1>3, HostFields DEF Idle
  <2>2. \E s \in Specs : host'.spec = s /\ Making(s)'
    BY <1>1, <1>3, <2>1, MakingOn
  <2>3. HostOK'
    BY <1>3, <2>1, <2>2 DEF HostOK
  <2>4. WorkUnderCurrentContract'
    BY <2>1 DEF WorkUnderCurrentContract
  <2>. QED  BY <1>1, <2>1, <2>3, <2>4, HostMoves DEF Places
<1>. QED  BY <1>1, <1>2, <1>3

(* The process stays where it is while records are added. *)
LEMMA HostStays ==
    ASSUME CampaignsInv, UNCHANGED <<revised, plans, order, host>>,
           \A r \in Listed : SameRun(r)
    PROVE  HostOK' /\ WorkUnderCurrentContract'
<1>1. Listed' = Listed
  BY DEF Listed
<1>2. host.spec # None => \E s \in Specs : host'.spec = s /\ Making(s)'
  BY HostFields, MakingOn
<1>3. HostOK'
  BY <1>1, <1>2 DEF CampaignsInv, HostOK
<1>4. WorkUnderCurrentContract'
  BY DEF CampaignsInv, HostOK, WorkUnderCurrentContract, SameRun
<1>. QED  BY <1>3, <1>4

LEMMA EndRunStep ==
    ASSUME CampaignsInv, NEW i, EndRun(i)
    PROVE  CampaignsInv'
<1>1. UNCHANGED <<revised, plans, runs, order, submissions, memory, host>>
  BY DEF EndRun
<1>2. \A r \in Listed : SameRun(r)
  BY <1>1 DEF SameRun
<1>3. HostOK' /\ WorkUnderCurrentContract'
  BY <1>1, <1>2, HostStays
<1>4. DOMAIN host' = DOMAIN Idle /\ host'.pc \in Places
  BY <1>1 DEF CampaignsInv, CampaignsTypeOK
<1>. QED  BY <1>1, <1>3, <1>4, HostMoves

LEMMA ReviseStep ==
    ASSUME CampaignsInv, NEW t, Revise(t)
    PROVE  CampaignsInv'
<1>1. host' = Idle /\ UNCHANGED <<plans, runs, order, submissions, memory>>
  BY DEF Revise
<1>. QED  BY <1>1, IdleStep

-----------------------------------------------------------------------------
(* The steps that record.                                                  *)

(* _memory has run; the process is back, or goes on to the specification. *)
LEMMA MemoryStep ==
    ASSUME CampaignsInv, NEW scope, memory' = Remembered(scope),
           UNCHANGED <<plans, runs, order, submissions>>,
           DOMAIN host' = DOMAIN Idle, host'.pc \in Places,
           HostOK', WorkUnderCurrentContract'
    PROVE  CampaignsInv'
<1>1. memory' \in Seq(Entries) /\ \A n \in DOMAIN memory' : Recorded(memory'[n])
  <2>1. Remembered(scope) \in Memories
    BY RememberedAdds
  <2>. QED  BY <2>1 DEF Memories
<1>2. CampaignsTypeOK'
  BY <1>1 DEF CampaignsInv, CampaignsTypeOK
<1>3. MemoryOK'
  <2>1. \A n \in DOMAIN memory' : memory'[n] \in Entries
    BY <1>1
  <2>2. \A e \in Entries : Recorded(e)' = Recorded(e)
    BY RunsSame
  <2>3. \A n \in DOMAIN memory' : \E e \in Entries : e = memory'[n] /\ Recorded(e)'
    BY <1>1, <2>1, <2>2
  <2>. QED  BY <2>3 DEF MemoryOK, Recorded, FactSize
<1>4. PlansOK'
  BY DEF CampaignsInv, PlansOK, PlanOK
<1>5. OneSplit' /\ RunsMatchThePlan'
  BY DEF CampaignsInv, OneSplit, RunsMatchThePlan
<1>. QED  BY <1>2, <1>3, <1>4, <1>5, RunsSame DEF CampaignsInv

LEMMA ReadMemoryStep ==
    ASSUME CampaignsInv, NEW t, ReadMemory(t)
    PROVE  CampaignsInv'
<1>. DEFINE scope == Scope[t]
<1>1. /\ memory' = Remembered(scope)
      /\ UNCHANGED <<revised, plans, runs, order, submissions, host>>
  BY DEF ReadMemory
<1>2. \A r \in Listed : SameRun(r)
  BY <1>1 DEF SameRun
<1>3. HostOK' /\ WorkUnderCurrentContract'
  BY <1>1, <1>2, HostStays
<1>4. DOMAIN host' = DOMAIN Idle /\ host'.pc \in Places
  BY <1>1 DEF CampaignsInv, CampaignsTypeOK
<1>. HIDE DEF scope
<1>. QED  BY <1>1, <1>3, <1>4, MemoryStep

LEMMA RememberStep ==
    ASSUME CampaignsInv, Remember
    PROVE  CampaignsInv'
<1>1. /\ host.pc = "start"
      /\ UNCHANGED <<revised, plans, runs, order, submissions>>
      /\ \/ host' = [host EXCEPT !.pc = "spec"] /\ UNCHANGED memory
         \/ host' = [host EXCEPT !.pc = "spec"] /\ memory' = Remembered(Scope[host.task])
         \/ host' = Idle /\ UNCHANGED memory
  BY DEF Remember, Raise
<1>2. CASE host' = Idle /\ UNCHANGED memory
  BY <1>1, <1>2, IdleStep
<1>3. CASE host' = [host EXCEPT !.pc = "spec"]
  <2>1. /\ DOMAIN host' = DOMAIN Idle /\ host'.pc = "spec" /\ host'.spec = host.spec
        /\ host'.entry = host.entry /\ host'.run = host.run
        /\ host'.task = host.task /\ host'.config = host.config
    BY <1>3, HostFields
  <2>2. Listed' = Listed
    BY <1>1 DEF Listed
  <2>3. host.task \in Tasks /\ host.run \in RunIds \ Listed
    BY <1>1 DEF CampaignsInv, HostOK
  <2>4. host.spec # None => \E s \in Specs : host'.spec = s /\ Making(s)'
    BY <1>1, <2>1, HostFields, MakingOn
  <2>5. HostOK'
    BY <2>1, <2>2, <2>3, <2>4 DEF HostOK
  <2>6. WorkUnderCurrentContract'
    BY <2>1 DEF WorkUnderCurrentContract
  <2>7. CASE UNCHANGED memory
    BY <1>1, <2>1, <2>5, <2>6, <2>7, HostMoves DEF Places
  <2>8. CASE memory' = Remembered(Scope[host.task])
    <3>1. PICK scope : scope = Scope[host.task]
      OBVIOUS
    <3>2. memory' = Remembered(scope)
      BY <2>8, <3>1
    <3>. QED  BY <1>1, <2>1, <2>5, <2>6, <3>2, MemoryStep DEF Places
  <2>. QED  BY <1>1, <1>3, <2>7, <2>8, IdleStep
<1>. QED  BY <1>1, <1>2, <1>3

(* Records are added to the runs there are; none is taken back. *)
LEMMA RecordsAdded ==
    ASSUME CampaignsInv, UNCHANGED <<plans, order, memory>>,
           DOMAIN runs' = RunIds, DOMAIN submissions' = RunIds,
           \A r \in RunIds :
              /\ DOMAIN runs'[r] = DOMAIN NotStarted
              /\ SameRun(r) /\ Index(r)' = Index(r) /\ RunOK(r)',
           \A r \in RunIds : \A i \in Index(r) :
              submissions[r][i].facts > 0 =>
                 /\ submissions'[r][i].facts = submissions[r][i].facts
                 /\ Decision(r, i) = "accepted" => Decision(r, i)' = "accepted",
           DOMAIN host' = DOMAIN Idle, host'.pc \in Places,
           HostOK', WorkUnderCurrentContract'
    PROVE  CampaignsInv'
<1>1. Listed' = Listed /\ Listed \subseteq RunIds
  BY DEF Listed, ToSet, CampaignsInv, CampaignsTypeOK
<1>2. CampaignsTypeOK'
  BY DEF CampaignsInv, CampaignsTypeOK
<1>3. \A e \in Entries : Recorded(e) =>
         /\ Recorded(e)' /\ FactSize(e)' = FactSize(e) /\ SameRun(e[1])
         /\ Accepted(e) => Accepted(e)'
  BY <1>1 DEF Recorded, FactSize, Accepted
<1>4. MemoryOK'
  <2>1. \A n \in DOMAIN memory : memory[n] \in Entries /\ Recorded(memory[n])
    BY DEF CampaignsInv, CampaignsTypeOK, MemoryOK
  <2>2. \A n \in DOMAIN memory : \E e \in Entries : e = memory[n] /\ Recorded(e)'
    BY <1>3, <2>1
  <2>. QED  BY <2>2 DEF MemoryOK, Recorded, FactSize
<1>5. SnapshotsOK'
  <2>1. ASSUME NEW r \in Listed, NEW i \in Index(r) PROVE SnapshotOK(r, i)'
    <3>1. SnapshotOK(r, i) /\ SameRun(r)
      BY <1>1 DEF CampaignsInv, SnapshotsOK
    <3>2. \A e \in Entries : Accepted(e) =>
             Accepted(e)' /\ FactSize(e)' = FactSize(e) /\ SameRun(e[1])
      BY <1>3 DEF Accepted
    <3>. QED  BY <3>1, <3>2, SnapshotKept
  <2>2. \A r \in Listed : Index(r)' = Index(r)
    BY <1>1
  <2>. QED  BY <1>1, <2>1, <2>2 DEF SnapshotsOK
<1>6. PlansOK'
  <2>1. \A id \in CampaignIds : PlanOK(id)'
    BY DEF CampaignsInv, PlansOK, PlanOK
  <2>2. \A r \in RunIds : runs'[r].campaign = runs[r].campaign
    BY DEF SameRun
  <2>. QED  BY <2>1, <2>2 DEF CampaignsInv, PlansOK
<1>7. OneSplit'
  BY DEF CampaignsInv, OneSplit
<1>8. RunsMatchThePlan'
  <2>1. \A id \in CampaignIds : \A k \in DOMAIN plans[id] : PlannedRun(id, k) \in RunIds
    BY PlannedIsRun
  <2>2. \A id \in CampaignIds : \A k \in DOMAIN plans[id] : SameRun(PlannedRun(id, k))
    BY <2>1
  <2>. QED  BY <2>2 DEF CampaignsInv, RunsMatchThePlan, SameRun
<1>. QED  BY <1>2, <1>4, <1>5, <1>6, <1>7, <1>8 DEF CampaignsInv

LEMMA RecordPolicyStep ==
    ASSUME CampaignsInv, RecordPolicy
    PROVE  CampaignsInv'
<1>1. PICK q : q = host.run
  OBVIOUS
<1>2. /\ host.pc = "policy" /\ q \in Listed
      /\ runs' = [runs EXCEPT ![q].policy = TRUE]
      /\ host' = [host EXCEPT !.pc = "resume"]
      /\ UNCHANGED <<revised, plans, order, submissions, memory>>
  BY <1>1 DEF RecordPolicy, CampaignsInv, HostOK
<1>3. Listed' = Listed /\ q \in RunIds
  BY <1>2 DEF Listed, ToSet, CampaignsInv, CampaignsTypeOK
<1>4. /\ DOMAIN runs' = RunIds
      /\ \A r \in RunIds : DOMAIN runs'[r] = DOMAIN NotStarted
      /\ \A r \in RunIds : r # q => runs'[r] = runs[r]
      /\ \A r \in RunIds : SameRun(r)
  BY <1>2 DEF CampaignsInv, CampaignsTypeOK, SameRun, NotStarted
<1>5. \A r \in RunIds : Index(r)' = Index(r)
  BY <1>2 DEF Index
<1>6. \A r \in RunIds : RunOK(r)'
  BY <1>2, <1>3, <1>4, <1>5 DEF CampaignsInv, RunOK, Decision, SameRun
<1>7. /\ DOMAIN host' = DOMAIN Idle /\ host'.pc = "resume" /\ host'.spec = host.spec
      /\ host'.entry = host.entry /\ host'.run = q
  BY <1>1, <1>2, HostFields
<1>8. host.spec # None => \E s \in Specs : host'.spec = s /\ Making(s)'
  BY <1>2, <1>7, HostFields, MakingOn
<1>9. HostOK'
  BY <1>2, <1>3, <1>7, <1>8 DEF HostOK
<1>10. WorkUnderCurrentContract'
  BY <1>7 DEF WorkUnderCurrentContract
<1>11. /\ DOMAIN submissions' = RunIds
       /\ \A r \in RunIds : \A i \in Index(r) :
             /\ submissions'[r][i].facts = submissions[r][i].facts
             /\ Decision(r, i)' = Decision(r, i)
  BY <1>2 DEF CampaignsInv, CampaignsTypeOK, Decision
<1>. QED  BY <1>2, <1>4, <1>5, <1>6, <1>7, <1>9, <1>10, <1>11, RecordsAdded DEF Places

(* One submission of the run in hand is checked or decided. *)
LEMMA SubmissionStep ==
    ASSUME CampaignsInv, NEW q \in Listed \cap RunIds, NEW i \in Index(q), NEW record,
           submissions' = [submissions EXCEPT ![q][i] = record],
           DOMAIN record = {"decision", "facts"},
           record.decision \in Decisions \ {"none"}, record.facts \in Nat,
           submissions[q][i].facts > 0 => record.facts = submissions[q][i].facts,
           Decision(q, i) # "accepted",
           UNCHANGED <<revised, plans, runs, order, memory, host>>
    PROVE  CampaignsInv'
<1>1. /\ DOMAIN submissions = RunIds /\ DOMAIN submissions' = RunIds
      /\ \A r \in RunIds : r # q => submissions'[r] = submissions[r]
      /\ submissions'[q] = [submissions[q] EXCEPT ![i] = record]
  BY DEF CampaignsInv, CampaignsTypeOK
<1>2. Listed' = Listed
  BY DEF Listed
<1>3. \A r \in RunIds : Index(r)' = Index(r)
  BY <1>1 DEF Index
<1>4. /\ submissions'[q][i] = record
      /\ \A j \in Index(q) : j # i => submissions'[q][j] = submissions[q][j]
  BY <1>1 DEF Index
<1>5. ASSUME NEW r \in RunIds PROVE RunOK(r)'
  <2>1. RunOK(r)
    BY DEF CampaignsInv
  <2>2. CASE r # q
    BY <1>1, <1>2, <1>3, <2>1, <2>2 DEF RunOK, Decision
  <2>3. CASE r = q
    <3>. DEFINE n == Len(submissions[q])
    <3>1. n \in Nat \ {0} /\ Index(q) = 1..n
      BY <2>1, <2>3 DEF RunOK
    <3>2. submissions'[q] = [j \in 1..n |-> submissions'[q][j]]
      BY <1>1, <3>1 DEF Index
    <3>. HIDE DEF n
    <3>3. Len([j \in 1..n |-> submissions'[q][j]]) = n
      BY <3>1
    <3>4. Len(submissions'[q]) = n
      BY <3>2, <3>3
    <3>5. \A j \in Index(q) :
             /\ DOMAIN submissions'[q][j] = {"decision", "facts"}
             /\ submissions'[q][j].decision \in Decisions
             /\ submissions'[q][j].facts \in Nat
             /\ submissions'[q][j].decision = "none" => submissions'[q][j].facts = 0
      <4>1. \A j \in Index(q) :
               /\ DOMAIN submissions[q][j] = {"decision", "facts"}
               /\ submissions[q][j].decision \in Decisions
               /\ submissions[q][j].facts \in Nat
               /\ submissions[q][j].decision = "none" => submissions[q][j].facts = 0
        BY <2>1, <2>3 DEF RunOK, Decision
      <4>. QED  BY <1>4, <4>1
    <3>6. DOMAIN runs'[q].snapshot = Index(q)
      BY <2>1, <2>3 DEF RunOK
    <3>. QED  BY <1>2, <1>3, <2>3, <3>1, <3>4, <3>5, <3>6 DEF RunOK, Decision
  <2>. QED  BY <2>2, <2>3
<1>6. \A r \in RunIds : SameRun(r)
  BY DEF SameRun
<1>7. HostOK' /\ WorkUnderCurrentContract'
  <2>1. \A r \in Listed : SameRun(r)
    BY DEF SameRun
  <2>. QED  BY <2>1, HostStays
<1>8. /\ DOMAIN runs' = RunIds /\ \A r \in RunIds : DOMAIN runs'[r] = DOMAIN NotStarted
      /\ DOMAIN host' = DOMAIN Idle /\ host'.pc \in Places
  BY DEF CampaignsInv, CampaignsTypeOK
<1>9. \A r \in RunIds : \A j \in Index(r) :
         submissions[r][j].facts > 0 =>
            /\ submissions'[r][j].facts = submissions[r][j].facts
            /\ Decision(r, j) = "accepted" => Decision(r, j)' = "accepted"
  BY <1>1, <1>4 DEF Decision
<1>. QED  BY <1>1, <1>3, <1>5, <1>6, <1>7, <1>8, <1>9, RecordsAdded

LEMMA CheckStep ==
    ASSUME CampaignsInv, NEW i, NEW facts \in FactSizes, Check(i, facts)
    PROVE  CampaignsInv'
<1>1. PICK q : q = host.run
  OBVIOUS
<1>. DEFINE record == [decision |-> "checked", facts |-> facts]
<1>2. /\ host.pc = "running" /\ i \in Index(q) /\ Decision(q, i) = "none"
      /\ submissions' = [submissions EXCEPT ![q][i] = record]
      /\ UNCHANGED <<revised, plans, runs, order, memory, host>>
  BY <1>1 DEF Check, Working
<1>3. q \in Listed \cap RunIds
  BY <1>1, <1>2 DEF CampaignsInv, CampaignsTypeOK, HostOK, Listed, ToSet
<1>4. submissions[q][i].facts = 0
  BY <1>2, <1>3 DEF CampaignsInv, RunOK
<1>5. /\ DOMAIN record = {"decision", "facts"} /\ record.decision = "checked"
      /\ record.facts \in Nat
  BY CampaignsAssumption
<1>6. /\ record.decision \in Decisions \ {"none"} /\ Decision(q, i) # "accepted"
      /\ submissions[q][i].facts > 0 => record.facts = submissions[q][i].facts
  BY <1>2, <1>4 DEF Decisions
<1>. HIDE DEF record
<1>. QED  BY <1>2, <1>3, <1>5, <1>6, SubmissionStep

LEMMA DecideStep ==
    ASSUME CampaignsInv, NEW i, NEW d \in {"accepted", "rejected"}, Decide(i, d)
    PROVE  CampaignsInv'
<1>1. PICK q : q = host.run
  OBVIOUS
<1>. DEFINE record == [submissions[q][i] EXCEPT !.decision = d]
<1>2. /\ host.pc = "running" /\ i \in Index(q) /\ Decision(q, i) = "checked"
      /\ submissions' = [submissions EXCEPT ![q][i].decision = d]
      /\ UNCHANGED <<revised, plans, runs, order, memory, host>>
  BY <1>1 DEF Decide, Working
<1>3. q \in Listed \cap RunIds
  BY <1>1, <1>2 DEF CampaignsInv, CampaignsTypeOK, HostOK, Listed, ToSet
<1>4. DOMAIN submissions[q][i] = {"decision", "facts"} /\ submissions[q][i].facts \in Nat
  BY <1>2, <1>3 DEF CampaignsInv, RunOK
<1>5. /\ DOMAIN record = {"decision", "facts"} /\ record.decision = d
      /\ record.facts = submissions[q][i].facts
  BY <1>4
<1>6. submissions' = [submissions EXCEPT ![q][i] = record]
  BY <1>2
<1>7. /\ record.decision \in Decisions \ {"none"} /\ record.facts \in Nat
      /\ submissions[q][i].facts > 0 => record.facts = submissions[q][i].facts
      /\ Decision(q, i) # "accepted"
  BY <1>2, <1>4, <1>5 DEF Decisions
<1>. HIDE DEF record
<1>. QED  BY <1>2, <1>3, <1>5, <1>6, <1>7, SubmissionStep

(* The specification of a new run: its contract, split and snapshots. *)
LEMMA RecordSpecStep ==
    ASSUME CampaignsInv, RecordSpec
    PROVE  CampaignsInv'
<1>1. PICK q, t, n, campaign, split :
         /\ q = host.run /\ t = host.task /\ n = revised[t]
         /\ campaign = IF host.spec = None THEN None ELSE host.spec.id
         /\ split = IF host.spec = None THEN None
                    ELSE plans[host.spec.id][host.entry].split
  OBVIOUS
<1>. DEFINE m == Submissions(t)
            run == [task |-> t, revisions |-> n, contract |-> Contract(t, n),
                    config |-> host.config, campaign |-> campaign,
                    split |-> split, snapshot |-> Snapshots(t, n, split),
                    policy |-> FALSE]
            none == [i \in 1..m |-> Undecided]
<1>2. /\ host.pc = "spec"
      /\ runs' = [runs EXCEPT ![q] = run]
      /\ submissions' = [submissions EXCEPT ![q] = none]
      /\ order' = Append(order, q)
      /\ host' = [host EXCEPT !.pc = "policy"]
      /\ UNCHANGED <<revised, plans, memory>>
  BY <1>1 DEF RecordSpec
<1>3. q \in RunIds \ Listed /\ t \in Tasks
  BY <1>1, <1>2 DEF CampaignsInv, HostOK
<1>4. m \in Nat \ {0}
  BY <1>3, CampaignsAssumption
<1>5. order' \in Seq(RunIds) /\ Listed' = Listed \cup {q} /\ Listed \subseteq RunIds
  <2>1. order \in Seq(RunIds)
    BY DEF CampaignsInv, CampaignsTypeOK
  <2>2. /\ Len(order) \in Nat /\ DOMAIN order = 1..Len(order)
        /\ DOMAIN order' = 1..(Len(order) + 1) /\ order'[Len(order) + 1] = q
        /\ \A j \in 1..Len(order) : order'[j] = order[j]
    BY <1>2, <1>3, <2>1
  <2>3. order' \in Seq(RunIds)
    BY <1>2, <1>3, <2>1
  <2>4. \A x : x \in Listed' <=> x \in Listed \cup {q}
    BY <2>2 DEF Listed, ToSet
  <2>5. Listed \subseteq RunIds
    BY <2>1 DEF Listed, ToSet
  <2>. QED  BY <2>3, <2>4, <2>5
<1>6. /\ DOMAIN runs' = RunIds /\ DOMAIN submissions' = RunIds
      /\ runs'[q] = run /\ submissions'[q] = none
      /\ \A r \in RunIds \ {q} : runs'[r] = runs[r] /\ submissions'[r] = submissions[r]
  BY <1>2, <1>3 DEF CampaignsInv, CampaignsTypeOK
<1>7. \A r \in RunIds \ {q} : SameRun(r) /\ Index(r)' = Index(r)
  BY <1>6 DEF SameRun, Index
<1>8. CampaignsTypeOK'
  <2>1. DOMAIN run = DOMAIN NotStarted
    BY DEF NotStarted
  <2>. HIDE DEF run
  <2>2. \A r \in RunIds : DOMAIN runs'[r] = DOMAIN NotStarted
    BY <1>6, <2>1 DEF CampaignsInv, CampaignsTypeOK
  <2>3. DOMAIN host' = DOMAIN Idle /\ host'.pc \in Places
    BY <1>2, HostFields DEF Places
  <2>. QED  BY <1>2, <1>5, <1>6, <2>2, <2>3 DEF CampaignsInv, CampaignsTypeOK
<1>9. Index(q)' = 1..m /\ Len(submissions'[q]) = m
  <2>. HIDE DEF m
  <2>. QED  BY <1>4, <1>6 DEF Index
<1>10. ASSUME NEW r \in RunIds PROVE RunOK(r)'
  <2>1. CASE r # q
    <3>1. RunOK(r)
      BY DEF CampaignsInv
    <3>. QED  BY <1>5, <1>6, <1>7, <2>1, <3>1 DEF RunOK, Decision
  <2>2. CASE r = q
    <3>1. DOMAIN runs'[q].snapshot = 1..m
      <4>1. runs'[q].snapshot = Snapshots(t, n, split)
        BY <1>6
      <4>. QED  BY <4>1 DEF Snapshots
    <3>2. \A i \in 1..m : submissions'[q][i] = Undecided
      BY <1>6
    <3>3. \A i \in 1..m :
             /\ DOMAIN submissions'[q][i] = {"decision", "facts"}
             /\ submissions'[q][i].decision = "none"
             /\ submissions'[q][i].facts = 0
      BY <3>2 DEF Undecided
    <3>. HIDE DEF m
    <3>. QED  BY <1>4, <1>5, <1>9, <2>2, <3>1, <3>3 DEF RunOK, Decision, Decisions
  <2>. QED  BY <2>1, <2>2
<1>11. \A e \in Entries : Recorded(e) =>
          /\ Recorded(e)' /\ FactSize(e)' = FactSize(e) /\ SameRun(e[1])
          /\ Accepted(e) => Accepted(e)'
  <2>1. \A e \in Entries : Recorded(e) => e[1] \in RunIds \ {q}
    BY <1>3, <1>5 DEF Recorded
  <2>. QED  BY <1>5, <1>6, <1>7, <2>1 DEF Recorded, FactSize, Accepted, Decision
<1>12. \A e \in Entries : Accepted(e) =>
          Accepted(e)' /\ FactSize(e)' = FactSize(e) /\ SameRun(e[1])
  BY <1>11 DEF Accepted
<1>13. MemoryOK'
  <2>1. \A k \in DOMAIN memory : memory[k] \in Entries /\ Recorded(memory[k])
    BY DEF CampaignsInv, CampaignsTypeOK, MemoryOK
  <2>2. \A k \in DOMAIN memory : \E e \in Entries : e = memory[k] /\ Recorded(e)'
    BY <1>11, <2>1
  <2>. QED  BY <1>2, <2>2 DEF MemoryOK, Recorded, FactSize
<1>14. SnapshotsOK'
  <2>1. ASSUME NEW r \in Listed, NEW i \in Index(r) PROVE SnapshotOK(r, i)'
    <3>1. SnapshotOK(r, i) /\ SameRun(r)
      BY <1>3, <1>5, <1>7 DEF CampaignsInv, SnapshotsOK
    <3>. QED  BY <1>12, <3>1, SnapshotKept
  <2>2. ASSUME NEW i \in 1..m PROVE SnapshotOK(q, i)'
    <3>1. PICK shown, files :
             shown = Snapshots(t, n, split)[i] /\ files = Contract(t, n)[i]
      OBVIOUS
    <3>2. ShownOK(shown, split, files)
      <4>1. CASE Scope[t] = None
        <5>1. shown = {}
          BY <3>1, <4>1 DEF Snapshots
        <5>2. Tokens([e \in {} |-> FactSize(e)]) = {}
          BY DEF Tokens
        <5>3. Total([e \in {} |-> FactSize(e)]) = 0
          BY <5>2, FS_EmptySet DEF Total
        <5>4. Total([e \in shown |-> FactSize(e)]) <= MemoryLimit
          BY <5>1, <5>3, CampaignsAssumption
        <5>. QED  BY <5>1, <5>4, FS_EmptySet DEF ShownOK
      <4>2. CASE Scope[t] # None
        <5>1. PICK scope : scope = Scope[t]
          OBVIOUS
        <5>2. shown = Snapshot(scope, split, files)
          BY <3>1, <4>2, <5>1 DEF Snapshots
        <5>. QED  BY <5>2, SnapshotFits DEF ShownOK, Shown, Sizes
      <4>. QED  BY <4>1, <4>2
    <3>3. ShownOK(shown, split, files)'
      BY <1>12, <3>2, ShownKept
    <3>4. /\ runs'[q].snapshot[i] = shown /\ runs'[q].split = split
          /\ runs'[q].contract[i] = files
      BY <1>6, <3>1
    <3>. QED  BY <3>3, <3>4 DEF SnapshotOK, ShownOK, Applicable
  <2>3. \A r \in Listed : Index(r)' = Index(r)
    BY <1>3, <1>5, <1>7
  <2>. HIDE DEF m
  <2>. QED  BY <1>5, <1>9, <2>1, <2>2, <2>3 DEF SnapshotsOK
<1>15. host.spec # None =>
          \E s \in Specs :
             /\ host.spec = s /\ campaign = s.id /\ Making(s)
             /\ campaign \in CampaignIds /\ plans[campaign] # <<>>
  <2>. SUFFICES ASSUME host.spec # None
                PROVE  \E s \in Specs :
                          /\ host.spec = s /\ campaign = s.id /\ Making(s)
                          /\ campaign \in CampaignIds /\ plans[campaign] # <<>>
    OBVIOUS
  <2>1. PICK s \in Specs : host.spec = s /\ Making(s)
    BY DEF CampaignsInv, HostOK
  <2>2. campaign = s.id /\ s.id \in CampaignIds
    BY <1>1, <2>1 DEF CampaignIds
  <2>3. plans[s.id] # <<>>
    BY <2>1, PlanFacts DEF Making
  <2>. QED  BY <2>1, <2>2, <2>3
<1>16. PlansOK'
  <2>1. \A id \in CampaignIds : PlanOK(id)'
    BY <1>2 DEF CampaignsInv, PlansOK, PlanOK
  <2>2. \A r \in RunIds \ {q} : runs'[r].campaign = runs[r].campaign
    BY <1>7 DEF SameRun
  <2>3. runs'[q].campaign = campaign
    BY <1>6
  <2>4. campaign # None => campaign \in CampaignIds /\ plans[campaign] # <<>>
    BY <1>1, <1>15
  <2>. QED  BY <1>2, <2>1, <2>2, <2>3, <2>4 DEF CampaignsInv, PlansOK
<1>17. OneSplit'
  BY <1>2 DEF CampaignsInv, OneSplit
<1>18. RunsMatchThePlan'
  <2>. SUFFICES ASSUME NEW id \in CampaignIds, NEW k \in DOMAIN plans[id],
                       runs'[PlannedRun(id, k)].campaign = id
                PROVE  /\ runs'[PlannedRun(id, k)].task = plans[id][k].task
                       /\ runs'[PlannedRun(id, k)].contract = plans[id][k].contract
                       /\ runs'[PlannedRun(id, k)].config = plans[id][k].config
                       /\ runs'[PlannedRun(id, k)].split = plans[id][k].split
    BY <1>2 DEF RunsMatchThePlan
  <2>1. PlannedRun(id, k) \in RunIds
    BY PlannedIsRun
  <2>2. CASE PlannedRun(id, k) # q
    <3>1. SameRun(PlannedRun(id, k))
      BY <1>7, <2>1, <2>2
    <3>. QED  BY <3>1 DEF CampaignsInv, RunsMatchThePlan, SameRun
  <2>3. CASE PlannedRun(id, k) = q
    <3>1. campaign = id
      BY <1>6, <2>3
    <3>2. host.spec # None
      BY <1>1, <3>1, CampaignsAssumption
    <3>3. PICK s \in Specs : host.spec = s /\ campaign = s.id /\ Making(s)
      BY <1>15, <3>2
    <3>4. /\ plans[id] = PlanEntries(s) /\ host.entry \in DOMAIN plans[id]
          /\ q = PlannedRun(id, host.entry) /\ t = plans[id][host.entry].task
          /\ host.config = plans[id][host.entry].config
      BY <1>1, <1>2, <3>1, <3>3 DEF Making
    <3>5. host.entry = k
      BY <2>3, <3>4 DEF PlannedRun
    <3>6. split = plans[id][k].split
      BY <1>1, <3>1, <3>2, <3>3, <3>5
    <3>7. plans[id][k].contract = Contract(t, n)
      <4>1. k \in 1..(s.repetitions * Len(s.rows))
        BY <3>4, <3>5, PlanFacts
      <4>2. plans[id][k].contract = Contract(plans[id][k].task, revised[plans[id][k].task])
        BY <3>4, <4>1, PlanFacts
      <4>. QED  BY <1>1, <3>4, <3>5, <4>2
    <3>. QED  BY <1>6, <2>3, <3>4, <3>5, <3>6, <3>7
  <2>. QED  BY <2>2, <2>3
<1>19. /\ DOMAIN host' = DOMAIN Idle /\ host'.pc = "policy" /\ host'.spec = host.spec
       /\ host'.entry = host.entry /\ host'.run = q
  BY <1>1, <1>2, HostFields
<1>20. host.spec # None => \E s \in Specs : host'.spec = s /\ Making(s)'
  BY <1>2, <1>19, HostFields, MakingOn
<1>21. HostOK'
  BY <1>5, <1>19, <1>20 DEF HostOK
<1>22. WorkUnderCurrentContract'
  BY <1>19 DEF WorkUnderCurrentContract
<1>. QED  BY <1>8, <1>10, <1>13, <1>14, <1>16, <1>17, <1>18, <1>21, <1>22 DEF CampaignsInv

(* A plan is pinned, or found to be what was pinned. *)
LEMMA RunCampaignStep ==
    ASSUME CampaignsInv, NEW spec \in Specs, RunCampaign(spec)
    PROVE  CampaignsInv'
<1>1. PICK id, entries : id = spec.id /\ entries = PlanEntries(spec)
  OBVIOUS
<1>. DEFINE n == spec.repetitions * Len(spec.rows)
<1>2. /\ host = Idle /\ Compatible(id, entries)
      /\ host' = [Idle EXCEPT !.pc = "loop", !.spec = spec, !.entry = 1]
      /\ UNCHANGED <<revised, runs, order, submissions, memory>>
  BY <1>1 DEF RunCampaign
<1>3. \/ plans[id] = <<>> /\ plans' = [plans EXCEPT ![id] = entries]
      \/ plans[id] = entries /\ UNCHANGED plans
  BY <1>1 DEF RunCampaign, SamePlan
<1>4. id \in CampaignIds /\ DOMAIN plans = CampaignIds /\ spec # None
  BY <1>1, CampaignsAssumption DEF CampaignIds, CampaignsInv, CampaignsTypeOK
<1>5. /\ DOMAIN plans' = CampaignIds /\ plans'[id] = entries
      /\ \A c \in CampaignIds \ {id} : plans'[c] = plans[c]
  BY <1>3, <1>4
<1>6. /\ entries # <<>> /\ DOMAIN entries = 1..n
      /\ \A k \in 1..n :
            LET row == spec.rows[PlanRow(spec, k)]
            IN  /\ PlanRow(spec, k) \in DOMAIN spec.rows
                /\ entries[k].task = row.task /\ entries[k].split = row.split
                /\ entries[k].scope = Scope[row.task]
                /\ PlannedRun(id, k) \in RunIds
  BY <1>1, PlanFacts
<1>7. /\ DOMAIN host' = DOMAIN Idle /\ host'.pc = "loop" /\ host'.spec = spec
      /\ host'.entry = 1
  BY <1>2 DEF Idle
<1>8. CampaignsTypeOK'
  BY <1>2, <1>5, <1>7 DEF CampaignsInv, CampaignsTypeOK, Places
<1>9. MemoryOK'
  <2>1. \A k \in DOMAIN memory : memory[k] \in Entries
    BY DEF CampaignsInv, CampaignsTypeOK
  <2>. QED  BY <1>2, <2>1, RunsSame DEF CampaignsInv, MemoryOK
<1>10. PlansOK'
  <2>1. PlanOK(id)'
    <3>1. /\ spec.id = id /\ DOMAIN plans'[id] = 1..n
          /\ \A k \in DOMAIN plans'[id] :
                LET row == spec.rows[((k - 1) % Len(spec.rows)) + 1]
                IN  /\ plans'[id][k].task = row.task
                    /\ plans'[id][k].split = row.split
                    /\ plans'[id][k].scope = Scope[row.task]
      BY <1>1, <1>5, <1>6 DEF PlanRow
    <3>. QED  BY <3>1 DEF PlanOK
  <2>2. ASSUME NEW c \in CampaignIds \ {id} PROVE PlanOK(c)'
    <3>1. PlanOK(c)
      BY DEF CampaignsInv, PlansOK
    <3>. QED  BY <1>5, <3>1 DEF PlanOK
  <2>3. \A r \in RunIds : runs'[r].campaign # None =>
           runs'[r].campaign \in CampaignIds /\ plans'[runs'[r].campaign] # <<>>
    BY <1>2, <1>5, <1>6 DEF CampaignsInv, PlansOK
  <2>. QED  BY <1>4, <2>1, <2>2, <2>3 DEF PlansOK
<1>11. OneSplit'
  <2>. SUFFICES ASSUME NEW c \in CampaignIds, NEW d \in CampaignIds,
                       NEW i \in DOMAIN plans'[c], NEW j \in DOMAIN plans'[d],
                       \/ plans'[c][i].task = plans'[d][j].task
                       \/ /\ plans'[c][i].scope # None
                          /\ plans'[c][i].scope = plans'[d][j].scope
                PROVE  plans'[c][i].split = plans'[d][j].split
    BY DEF OneSplit
  <2>1. CASE plans[id] = entries
    <3>1. UNCHANGED plans
      BY <1>3, <1>6, <2>1
    <3>. QED  BY <3>1 DEF CampaignsInv, OneSplit
  <2>2. CASE c # id /\ d # id
    BY <1>5, <2>2 DEF CampaignsInv, OneSplit
  <2>3. CASE c = id /\ d # id
    BY <1>2, <1>5, <2>3 DEF Compatible
  <2>4. CASE c # id /\ d = id
    BY <1>2, <1>5, <2>4 DEF Compatible
  <2>5. CASE c = id /\ d = id
    <3>1. PICK a \in DOMAIN spec.rows, b \in DOMAIN spec.rows :
             /\ entries[i].task = spec.rows[a].task
             /\ entries[i].split = spec.rows[a].split
             /\ entries[i].scope = Scope[spec.rows[a].task]
             /\ entries[j].task = spec.rows[b].task
             /\ entries[j].split = spec.rows[b].split
             /\ entries[j].scope = Scope[spec.rows[b].task]
      <4>1. i \in 1..n /\ j \in 1..n
        BY <1>5, <1>6, <2>5
      <4>. QED  BY <1>6, <4>1
    <3>2. /\ spec.rows[a].task = spec.rows[b].task => a = b
          /\ /\ Scope[spec.rows[a].task] # None
             /\ Scope[spec.rows[a].task] = Scope[spec.rows[b].task]
             => spec.rows[a].split = spec.rows[b].split
      BY CampaignsAssumption
    <3>. QED  BY <1>5, <2>5, <3>1, <3>2
  <2>. QED  BY <2>2, <2>3, <2>4, <2>5
<1>12. RunsMatchThePlan'
  <2>. SUFFICES ASSUME NEW c \in CampaignIds, NEW k \in DOMAIN plans'[c],
                       runs[PlannedRun(c, k)].campaign = c
                PROVE  /\ runs[PlannedRun(c, k)].task = plans'[c][k].task
                       /\ runs[PlannedRun(c, k)].contract = plans'[c][k].contract
                       /\ runs[PlannedRun(c, k)].config = plans'[c][k].config
                       /\ runs[PlannedRun(c, k)].split = plans'[c][k].split
    BY <1>2 DEF RunsMatchThePlan
  <2>1. CASE c # id
    BY <1>5, <2>1 DEF CampaignsInv, RunsMatchThePlan
  <2>2. CASE c = id
    <3>1. PlannedRun(id, k) \in RunIds
      BY <1>5, <1>6, <2>2
    <3>2. plans[id] # <<>>
      BY <1>4, <2>2, <3>1, CampaignsAssumption DEF CampaignsInv, PlansOK
    <3>3. UNCHANGED plans
      BY <1>3, <3>2
    <3>. QED  BY <3>3 DEF CampaignsInv, RunsMatchThePlan
  <2>. QED  BY <2>1, <2>2
<1>13. HostOK'
  <2>1. PlanEntries(spec)' = PlanEntries(spec)
    BY <1>2, PlanEntriesSame
  <2>2. Making(spec)'
    BY <1>1, <1>5, <1>7, <2>1 DEF Making
  <2>. QED  BY <1>4, <1>7, <2>2 DEF HostOK
<1>14. WorkUnderCurrentContract'
  BY <1>7 DEF WorkUnderCurrentContract
<1>15. (\A r \in RunIds : RunOK(r)') /\ SnapshotsOK'
  BY <1>2, RunsSame
<1>. QED  BY <1>8, <1>9, <1>10, <1>11, <1>12, <1>13, <1>14, <1>15 DEF CampaignsInv

-----------------------------------------------------------------------------
(* The invariant.                                                          *)

LEMMA InitInv == Init => CampaignsInv
<1>. SUFFICES ASSUME Init PROVE CampaignsInv
  OBVIOUS
<1>1. /\ plans = [id \in CampaignIds |-> <<>>] /\ runs = [r \in RunIds |-> NotStarted]
      /\ order = <<>> /\ submissions = [r \in RunIds |-> <<>>] /\ memory = <<>>
      /\ host = Idle /\ host.pc = "idle" /\ host.spec = None
  BY DEF Init, Idle
<1>2. Listed = {}
  BY <1>1 DEF Listed, ToSet
<1>3. CampaignsTypeOK
  BY <1>1 DEF CampaignsTypeOK, Places
<1>4. \A r \in RunIds : RunOK(r)
  BY <1>1, <1>2 DEF RunOK
<1>5. MemoryOK /\ SnapshotsOK
  BY <1>1, <1>2 DEF MemoryOK, SnapshotsOK
<1>6. PlansOK
  BY <1>1 DEF PlansOK, PlanOK, NotStarted
<1>7. HostOK
  BY <1>1 DEF HostOK
<1>8. OneSplit /\ RunsMatchThePlan /\ WorkUnderCurrentContract
  BY <1>1 DEF OneSplit, RunsMatchThePlan, WorkUnderCurrentContract
<1>. QED  BY <1>3, <1>4, <1>5, <1>6, <1>7, <1>8 DEF CampaignsInv

LEMMA NextInv == CampaignsInv /\ [Next]_campaignsVars => CampaignsInv'
<1>. SUFFICES ASSUME CampaignsInv, [Next]_campaignsVars PROVE CampaignsInv'
  OBVIOUS
<1>1. ASSUME NEW t \in Tasks, Revise(t) PROVE CampaignsInv'
  BY <1>1, ReviseStep
<1>2. ASSUME NEW t \in Tasks, ReadMemory(t) PROVE CampaignsInv'
  BY <1>2, ReadMemoryStep
<1>3. ASSUME NEW spec \in Specs, RunCampaign(spec) PROVE CampaignsInv'
  BY <1>3, RunCampaignStep
<1>4. CASE NextEntry
  BY <1>4, NextEntryStep
<1>5. CASE EndCampaign \/ Crash
  <2>1. host' = Idle /\ UNCHANGED <<plans, runs, order, submissions, memory>>
    BY <1>5 DEF EndCampaign, Crash
  <2>. QED  BY <2>1, IdleStep
<1>6. ASSUME NEW start \in SoloStarts, StartSolo(start) PROVE CampaignsInv'
  BY <1>6, StartSoloStep
<1>7. ASSUME NEW r \in RunIds, ResumeSolo(r) PROVE CampaignsInv'
  BY <1>7, ResumeSoloStep
<1>8. CASE Remember
  BY <1>8, RememberStep
<1>9. CASE RecordSpec
  BY <1>9, RecordSpecStep
<1>10. CASE RecordPolicy
  BY <1>10, RecordPolicyStep
<1>11. CASE Resume
  BY <1>11, ResumeStep
<1>12. ASSUME NEW r \in RunIds, NEW i \in Index(r), NEW facts \in FactSizes,
              Check(i, facts)
       PROVE  CampaignsInv'
  BY <1>12, CheckStep
<1>13. ASSUME NEW r \in RunIds, NEW i \in Index(r), NEW d \in {"accepted", "rejected"},
              Decide(i, d)
       PROVE  CampaignsInv'
  BY <1>13, DecideStep
<1>14. ASSUME NEW r \in RunIds, NEW i \in Index(r), EndRun(i) PROVE CampaignsInv'
  BY <1>14, EndRunStep
<1>15. CASE EndResume
  BY <1>15, EndResumeStep
<1>16. CASE UNCHANGED campaignsVars
  <2>1. UNCHANGED <<revised, plans, runs, order, submissions, memory, host>>
    BY <1>16 DEF campaignsVars
  <2>2. \A r \in Listed : SameRun(r)
    BY <2>1 DEF SameRun
  <2>3. HostOK' /\ WorkUnderCurrentContract'
    BY <2>1, <2>2, HostStays
  <2>4. DOMAIN host' = DOMAIN Idle /\ host'.pc \in Places
    BY <2>1 DEF CampaignsInv, CampaignsTypeOK
  <2>. QED  BY <2>1, <2>3, <2>4, HostMoves
<1>. QED  BY <1>1, <1>2, <1>3, <1>4, <1>5, <1>6, <1>7, <1>8, <1>9, <1>10,
             <1>11, <1>12, <1>13, <1>14, <1>15, <1>16 DEF Next

(* The invariant of campaigns: what the records of runs, the memory, the   *)
(* snapshots and the plans say of one another, and what the process in the *)
(* middle of a campaign may rely on.                                       *)
THEOREM CampaignsInvariant == CampaignsSpec => []CampaignsInv
<1>. QED  BY InitInv, NextInv, PTL DEF CampaignsSpec

(* A task, and a memory scope, keeps one split across every campaign the   *)
(* project pins (Project.plan_campaign), whatever is planned in between.   *)
THEOREM SplitsArePinned == CampaignsSpec => []OneSplit
<1>1. CampaignsInv => OneSplit
  BY DEF CampaignsInv
<1>. QED  BY <1>1, CampaignsInvariant, PTL

(* Every run a campaign made is the run it planned (Project._start), with  *)
(* any crashes, reruns, revisions and runs outside it.                     *)
THEOREM CampaignsMakeTheirRuns == CampaignsSpec => []RunsMatchThePlan
<1>1. CampaignsInv => RunsMatchThePlan
  BY DEF CampaignsInv
<1>. QED  BY <1>1, CampaignsInvariant, PTL

(* No submission is worked on under a contract that was revised after its  *)
(* run started (Project.resume).                                           *)
THEOREM WorkIsCurrent == CampaignsSpec => []WorkUnderCurrentContract
<1>1. CampaignsInv => WorkUnderCurrentContract
  BY DEF CampaignsInv
<1>. QED  BY <1>1, CampaignsInvariant, PTL

LEMMA Held == CampaignsInv => ShownFactsHold
<1>. SUFFICES ASSUME CampaignsInv, NEW r \in Listed, NEW i \in Index(r)
              PROVE  /\ Total([e \in runs[r].snapshot[i] |-> FactSize(e)]) <= MemoryLimit
                     /\ \A e \in runs[r].snapshot[i] :
                           /\ Decision(e[1], e[2]) = "accepted"
                           /\ \A name \in Depends[runs[e[1]].task] :
                                 name \in DOMAIN runs[e[1]].contract[e[2]] =>
                                   /\ name \in DOMAIN runs[r].contract[i]
                                   /\ runs[r].contract[i][name]
                                        = runs[e[1]].contract[e[2]][name]
  BY DEF ShownFactsHold
<1>1. SnapshotOK(r, i)
  BY DEF CampaignsInv, SnapshotsOK
<1>. QED  BY <1>1 DEF SnapshotOK, ShownOK, Applicable

(* What a worker is shown was accepted, fits the limit and rests on files  *)
(* that are those of the contract it is shown under (Project._snapshot).   *)
THEOREM ShownFactsAreSound == CampaignsSpec => []ShownFactsHold
<1>. QED  BY CampaignsInvariant, Held, PTL

-----------------------------------------------------------------------------
(* A lineage: as one snapshot shows only runs of its own split, so does a  *)
(* whole chain of them.                                                    *)

LEMMA SeenInSplit ==
    ASSUME CampaignsInv, NEW r \in Listed, NEW e \in Seen(r)
    PROVE  e[1] \in Listed /\ runs[e[1]].split = runs[r].split
<1>1. r \in RunIds
  BY DEF CampaignsInv, CampaignsTypeOK, Listed, ToSet
<1>2. DOMAIN runs[r].snapshot = Index(r)
  BY <1>1 DEF CampaignsInv, RunOK
<1>3. PICK i \in Index(r) : e \in runs[r].snapshot[i]
  BY <1>2 DEF Seen
<1>4. SnapshotOK(r, i)
  BY DEF CampaignsInv, SnapshotsOK
<1>. QED  BY <1>3, <1>4 DEF SnapshotOK, ShownOK, Recorded

LEMMA LineageInSplit ==
    ASSUME CampaignsInv, NEW r \in Listed, NEW q \in Lineage(r)
    PROVE  runs[q].split = runs[r].split
<1>. DEFINE N == Len(order)
            Same == {p \in Listed : runs[p].split = runs[r].split}
            Sets == SUBSET Same
            Taught(p) == {e[1] : e \in Seen(p)}
            More(s) == s \cup UNION {Taught(p) : p \in s}
            P(v) == v = [k \in 0..N |-> IF k = 0 THEN Taught(r) ELSE More(v[k - 1])]
            step == [k \in 1..N |-> [s \in Sets |-> More(s)]]
<1>1. N \in Nat
  BY DEF CampaignsInv, CampaignsTypeOK
<1>2. ASSUME NEW p \in Same PROVE Taught(p) \in Sets
  BY SeenInSplit
<1>3. Taught(r) \in Sets
  BY <1>2
<1>. HIDE DEF N, Taught, Same
<1>4. \A s \in Sets : More(s) \in Sets
  BY <1>2 DEF Sets
<1>. HIDE DEF More, Sets
<1>5. \E v : P(v)
  <2>1. step \in [1..N -> [Sets -> Sets]]
    BY <1>4
  <2>2. PICK v \in [0..N -> Sets] : Iterates(v, N, Taught(r), step)
    <3>. HIDE DEF step, P
    <3>. QED  BY <1>1, <1>3, <2>1, Iteration
  <2>3. ASSUME NEW k \in 0..N
        PROVE  v[k] = IF k = 0 THEN Taught(r) ELSE More(v[k - 1])
    <3>1. k # 0 => k \in 1..N /\ v[k - 1] \in Sets
      BY <1>1, <2>2
    <3>. QED  BY <2>2, <3>1 DEF Iterates
  <2>4. v = [k \in 0..N |-> v[k]]
    BY <2>2
  <2>. QED  BY <2>3, <2>4
<1>. DEFINE from == CHOOSE v : P(v)
<1>6. P(from)
  <2>. HIDE DEF P
  <2>. QED  BY <1>5
<1>7. Lineage(r) = from[N]
  BY DEF Lineage, N, Taught, More
<1>. HIDE DEF from
<1>8. from[0] = Taught(r) /\ \A k \in 1..N : from[k] = More(from[k - 1])
  BY <1>1, <1>6
<1>9. \A k \in 0..N : from[k] \in Sets
  <2>1. from[0] \in Sets
    BY <1>3, <1>8
  <2>2. \A k \in 1..N : from[k - 1] \in Sets => from[k] \in Sets
    BY <1>4, <1>8
  <2>. HIDE DEF P
  <2>. QED  BY <1>1, <2>1, <2>2, Climb
<1>10. q \in Same
  BY <1>1, <1>7, <1>9 DEF Sets
<1>. QED  BY <1>10 DEF Same

(* A held-out run never learns from a run of another split, or from a run  *)
(* outside campaigns, through however many runs a fact travelled           *)
(* (Project._snapshot, Project._memory).                                   *)
THEOREM HeldOutStaysApart == CampaignsSpec => []SplitsStayApart
<1>1. CampaignsInv => SplitsStayApart
  BY LineageInSplit DEF SplitsStayApart
<1>. QED  BY <1>1, CampaignsInvariant, PTL

=============================================================================
